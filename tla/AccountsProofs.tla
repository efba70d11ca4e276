---------------------------- MODULE AccountsProofs ----------------------------
(***************************************************************************)
(* What is proved of Accounts for every value of its constants: devices,   *)
(* accounts and addresses stay together, a code grants once, a purge that  *)
(* has ended left nothing of its account, and the stores implement their   *)
(* one-step contract.                                                      *)
(***************************************************************************)
EXTENDS Accounts, FiniteSetTheorems, SequenceTheorems, TLAPS

-----------------------------------------------------------------------------
(* The shapes of everything that is stored or held.                        *)

Answers ==
    {"none", "unknown_device", "signed_in", "failed", "too_many_codes", "sent", "bad_code",
     "no_code", "code_expired", "code_spent", "already_bound", "no_account",
     "account_linked", "bound", "would_erase", "would_switch", "link_changed", "adopted",
     "seen", "deleted", "listed", "account_changed", "round_solved", "appended", "solved",
     "saved", "joined", "gone"}

Plans ==
    [from : [Slots -> RoundItems], to : [Slots -> RoundItems],
     fromScore : [Slots -> Requests \cup {None}], toScore : [Slots -> Requests \cup {None}]]

Lists == UNION {[{e, Ip} -> SUBSET SendItems] : e \in Emails}

Views == {<<>>} \cup Lists \cup Plans

Listed == Tokens \X (AccountIds \cup {None})

Memory ==
    [pc : Pcs, at : 0..MaxClock, account : AccountIds \cup {None},
     email : Emails \cup {None}, id : AccountIds \cup {None}, whose : AccountIds \cup {None},
     from : AccountIds \cup Slots \cup {None}, seen : Views,
     todo : SUBSET (Slots \cup AccountIds \cup Listed \cup {"score", "day"}),
     tries : Nat, clean : BOOLEAN, answer : Answers]

Heirs == [to : AccountIds \cup {None}, rounds : SUBSET Slots]

ItemTypes ==
    /\ account \in [AccountIds -> AccountItems]
    /\ device \in [Tokens -> DeviceItems]
    /\ binding \in [Emails -> AccountIds \cup {None}]
    /\ challenge \in [Emails -> CodeItems]
    /\ codes \in [Emails -> Seq(SendItems)]
    /\ sends \in [Scopes -> SUBSET SendItems]

PlayTypes ==
    /\ round \in [AccountIds -> [Slots -> RoundItems]]
    /\ \A a \in AccountIds, s \in Slots : round[a][s].version = 0 => round[a][s] = NoRound
    /\ score \in [AccountIds -> [Slots -> Requests \cup {None}]]
    /\ history \in [AccountIds -> SUBSET Slots]
    /\ profile \in SUBSET AccountIds

JobTypes ==
    /\ depart \in SUBSET (AccountIds \X AccountIds)
    /\ purge \in [AccountIds -> 0..MaxClock \cup {None}]
    /\ member \in SUBSET AccountIds

GhostTypes ==
    /\ granted \in [Emails -> Seq(Nat \X Nat)]
    /\ purged \in SUBSET AccountIds
    /\ heir \in [AccountIds -> Heirs]
    /\ signedOut \in SUBSET AccountIds

RunTypes ==
    /\ job \in [Requests -> Jobs]
    /\ horizon \in 0..MaxClock
    /\ clock \in 0..MaxClock /\ clock <= horizon
    /\ faults \in 0..MaxFaults
    /\ proc \in [Procs -> Memory]

Types == ItemTypes /\ PlayTypes /\ JobTypes /\ GhostTypes /\ RunTypes

-----------------------------------------------------------------------------
(* What is true of the stores between any two steps.                       *)

IsDead(a) == account[a].status = "dead"
Born(a) == account[a].status # "unborn"

(* Only a live account is saved at an address, and nobody is on one that   *)
(* does not exist yet.                                                     *)
Accounted ==
    /\ \A a \in AccountIds : account[a].status # "live" => account[a].email = None
    /\ \A t \in Tokens : Owner(t) # None => Born(Owner(t))

(* An address and its account name each other.                             *)
AddressesAgree ==
    \A e \in Emails, a \in AccountIds :
        binding[e] = a <=> (Live(a) /\ account[a].email = e)

(* Nobody else is on an account that is saved nowhere.                     *)
Alone ==
    \A t, u \in Tokens :
        Owner(t) = Owner(u) /\ Live(Owner(t)) /\ account[Owner(t)].email = None => t = u

Erased ==
    \A a \in AccountIds :
        /\ heir[a].to # None => IsDead(a) /\ \A t \in Tokens : Owner(t) # a
        /\ heir[a].to = None => heir[a].rounds = {}

(* The code an address holds is its latest, and newer than all it granted. *)
CodesAgree ==
    \A e \in Emails :
        /\ challenge[e].code \in {0, Len(codes[e])}
        /\ \A i \in 1..Len(granted[e]) :
            /\ granted[e][i][1] = granted[e][i][2]
            /\ granted[e][i][1] <= Len(codes[e])
            /\ challenge[e].code # 0 => granted[e][i][1] < challenge[e].code
        /\ \A i, j \in 1..Len(granted[e]) : i < j => granted[e][i][1] < granted[e][j][1]

(* A score is found through its round, or its round was taken along.       *)
Earns(a, s) == round[a][s].version > 0 \/ s \in heir[a].rounds

ScoresFound == \A a \in AccountIds, s \in Slots : score[a][s] # None => Earns(a, s)

(* Who is purged, or is to be, is dead.                                    *)
Buried ==
    \A a \in AccountIds :
        /\ purge[a] # None => IsDead(a) /\ purge[a] <= clock
        /\ a \in purged => IsDead(a) /\ purge[a] = None

Stores ==
    /\ Accounted /\ AddressesAgree /\ Alone /\ Erased /\ NoOrphanAccount
    /\ CodesAgree /\ ScoresFound /\ Buried

-----------------------------------------------------------------------------
(* What is true of a request, from what it holds.                          *)

Guests == {"idle", "done", "auth", "resolve", "exists", "create", "raced"}
Linking == {"verify", "judge", "binding", "bind", "confirm", "plan", "adopt"}
WorkerOnly == {"keys", "score", "round", "sweep", "finish"}

Acting(q) == q.pc \notin Guests

(* Each operation goes its own way, with what it needs in hand.            *)
Way(r, q) ==
    /\ q.pc \in Pcs \ WorkerOnly
    /\ q.at <= clock
    /\ q.pc = "auth" => job[r].op \notin {"none", "bootstrap"}
    /\ q.pc \in Linking \cup {"credit"} => job[r].op = "verify"
    /\ q.pc \in {"delete", "again", "list", "revoke", "depart"} => job[r].op = "delete"
    /\ q.pc \in {"drain", "leave", "clear"} => job[r].op \in {"verify", "visit", "delete"}
    /\ q.pc \in Linking \cup {"auth"} => q.todo = {}
    /\ q.pc = "credit" => q.todo \subseteq Slots
    /\ q.pc \in {"leave", "clear"} => q.todo \subseteq AccountIds
    /\ q.pc = "clear" => q.from \in AccountIds
    /\ q.pc = "revoke" => q.todo \subseteq Listed
    /\ q.pc = "spend" => q.seen \in [ScopesOf(r) -> SUBSET SendItems]
    /\ q.pc = "adopt" => q.seen \in Plans

(* Who it works for was born before it, and a bootstrap replaces nothing   *)
(* that lives.                                                             *)
Known(q) ==
    /\ Acting(q) => /\ q.account \in AccountIds /\ Born(q.account)
                    /\ q.whose \in AccountIds /\ Born(q.whose)
    /\ q.pc = "exists" => q.account \in AccountIds /\ Born(q.account)
    /\ q.pc = "create" => q.account = None \/ (q.account \in AccountIds /\ IsDead(q.account))

(* The code it verified was minted, and where an address was free it is,   *)
(* or that code is no longer held.                                         *)
Coded(r, q) ==
    LET e == job[r].email IN
    /\ q.pc \in {"binding", "bind", "confirm", "plan", "adopt"} =>
            job[r].code \in 1..Len(codes[e])
    /\ q.pc = "bind" /\ binding[e] # None => challenge[e].code # job[r].code

IsSaved(a) == account[a].email # None \/ IsDead(a)

(* The account it switches to is another, and saved.                       *)
Target(q) ==
    q.pc \in {"confirm", "plan", "adopt"} => q.whose # q.account /\ IsSaved(q.whose)

(* A round at the version that was read is as it was read.                 *)
Fresh(a, view) ==
    Live(a) => \A s \in Slots :
        /\ view[s].version <= round[a][s].version
        /\ view[s].version = round[a][s].version => view[s] = round[a][s]

Planned(q) == q.pc = "adopt" => Fresh(q.account, q.seen.from) /\ Fresh(q.whose, q.seen.to)

(* The account that signs its devices out is dead.                         *)
Ended(q) == q.pc \in {"list", "revoke"} => IsDead(q.whose)

(* A reward under way was earned on a round that is still there.           *)
Earned(r, q) ==
    q.pc = "reward" /\ clock <= q.at + Timeout => Earns(q.account, job[r].slot)

(* Who was deleted is acted for only by those who came before, and nobody  *)
(* acts for it any more when its purge begins.                             *)
Cleaned(a) ==
    a \in purged \/ (proc[Worker].pc # "idle" /\ proc[Worker].whose = a)

InTime(q, a) ==
    /\ purge[a] # None => q.at <= purge[a] + Timeout
    /\ Cleaned(a) => clock > q.at + Timeout

Timely(q) == Acting(q) => InTime(q, q.account) /\ InTime(q, q.whose)

Truth(r, q) ==
    /\ Way(r, q) /\ Known(q) /\ Coded(r, q) /\ Target(q) /\ Planned(q)
    /\ Ended(q) /\ Earned(r, q) /\ Timely(q)

-----------------------------------------------------------------------------
(* What is true of the purge: step by step, what it has removed is gone.   *)

WorkerPcs == {"idle", "depart", "drain", "leave", "clear", "list", "revoke"} \cup WorkerOnly

NoDeviceOn(a) == \A t \in Tokens : Owner(t) # a
NoDeparture(a) == \A b \in AccountIds : <<a, b>> \notin depart

Swept(q, a) ==
    /\ q.pc \notin {"idle", "depart"} => a \notin member
    /\ q.pc \in {"leave", "clear"} =>
        /\ q.todo \subseteq AccountIds
        /\ q.clean => \A b \in AccountIds : <<a, b>> \in depart => b \in q.todo
    /\ q.pc = "clear" => q.from \in AccountIds
    /\ q.pc \in {"list", "revoke"} \cup WorkerOnly => NoDeparture(a)
    /\ q.pc = "revoke" =>
        /\ q.todo \subseteq Listed
        /\ \A t \in Tokens : Owner(t) = a => <<t, device[t].id>> \in q.todo
    /\ q.pc \in WorkerOnly => NoDeviceOn(a)
    /\ q.pc \in {"score", "round"} =>
        /\ q.todo \subseteq Slots
        /\ \A s \in Slots : round[a][s].version > 0 => s \in q.todo
    /\ q.pc = "round" => q.from \in Slots /\ score[a][q.from] = None
    /\ q.pc \in {"sweep", "finish"} => \A s \in Slots : round[a][s].version = 0
    /\ q.pc = "finish" => history[a] = {} /\ a \notin profile

Purging(q) ==
    /\ q.pc \in WorkerPcs
    /\ q.pc # "idle" => /\ q.whose \in AccountIds
                        /\ purge[q.whose] # None
                        /\ Swept(q, q.whose)

Clean(a) ==
    /\ a \notin member \cup profile
    /\ NoDeviceOn(a)
    /\ history[a] = {}
    /\ NoDeparture(a)
    /\ \A s \in Slots : round[a][s].version = 0

Inv ==
    /\ Types
    /\ Stores
    /\ \A r \in Requests : Truth(r, proc[r])
    /\ Purging(proc[Worker])
    /\ \A a \in purged : Clean(a)

-----------------------------------------------------------------------------
(* Frames: what a step that leaves something alone keeps.                  *)

LEMMA IdleTyped == Idle \in Memory /\ \A a \in Answers : Done(a) \in Memory
<1>1. Idle \in Memory
  BY SettleAssumption DEF Idle, Memory, Pcs, Answers, Views
<1>2. ASSUME NEW a \in Answers PROVE Done(a) \in Memory
  BY <1>1 DEF Done, Memory, Pcs
<1> QED
  BY <1>1, <1>2

(* A request is no worker, and a name that is None is no account.          *)
LEMMA Named ==
    /\ None \notin AccountIds /\ None \notin Emails /\ None \notin Requests
    /\ Worker \notin Requests /\ Ip \notin Emails /\ Worker \in Procs
    /\ \A r \in Requests : r \in Procs /\ r # Worker
BY NoneAssumption DEF Procs

(* One process moves, the others hold what they held.                      *)
LEMMA Moved ==
    ASSUME proc \in [Procs -> Memory], NEW p \in Procs, NEW q \in Memory, Become(p, q)
    PROVE  /\ proc' \in [Procs -> Memory]
           /\ proc'[p] = q
           /\ \A x \in Procs \ {p} : proc'[x] = proc[x]
BY DEF Become

stored == <<setting, identity, mail, play, jobs, member, clock, ghosts>>

(* A request that leaves the stores alone.                                 *)
LEMMA QuietStep ==
    ASSUME Inv, NEW r \in Requests, NEW q \in Memory, Become(r, q), Truth(r, q),
           UNCHANGED stored, faults' \in 0..MaxFaults
    PROVE  Inv'
<1> USE DEF stored, setting, identity, mail, play, jobs, ghosts
<1>1. /\ proc' \in [Procs -> Memory] /\ proc'[r] = q
      /\ \A x \in Procs \ {r} : proc'[x] = proc[x]
      /\ proc'[Worker] = proc[Worker]
  BY Moved, Named DEF Inv, Types, RunTypes
<1>2. Types'
  BY <1>1 DEF Inv, Types, ItemTypes, PlayTypes, JobTypes, GhostTypes, RunTypes
<1>3. Stores'
  <2>1. Accounted' /\ AddressesAgree' /\ Alone' /\ Erased' /\ NoOrphanAccount'
    BY DEF Inv, Stores, Accounted, AddressesAgree, Alone, Erased, NoOrphanAccount, Live,
           Owner, Born, IsDead
  <2>2. CodesAgree' /\ ScoresFound' /\ Buried'
    BY DEF Inv, Stores, CodesAgree, ScoresFound, Earns, Buried, IsDead
  <2> QED
    BY <2>1, <2>2 DEF Stores
<1>4. ASSUME NEW s \in Requests PROVE Truth(s, proc[s])'
  <2>1. Truth(s, proc'[s])
    BY <1>1, Named DEF Inv
  <2>2. \A a : Cleaned(a)' <=> Cleaned(a)
    BY <1>1 DEF Cleaned
  <2> QED
    BY <2>1, <2>2, SMTT(30) DEF Truth, Way, Known, Coded, Target, Planned, Ended, Earned, Timely,
        InTime, Acting, Born, IsDead, IsSaved, Fresh, Earns, Live, ScopesOf
<1>5. Purging(proc[Worker])'
  <2>1. Purging(proc'[Worker])
    BY <1>1 DEF Inv
  <2> QED
    BY <2>1 DEF Purging, Swept, NoDeparture, NoDeviceOn, Owner
<1>6. \A a \in purged' : Clean(a)'
  BY DEF Inv, Clean, NoDeparture, NoDeviceOn, Owner
<1> QED
  BY <1>2, <1>3, <1>4, <1>5, <1>6 DEF Inv

(* What no step takes back, whoever takes it: births and deaths, codes,    *)
(* versions, the instants of deletions and who is being purged.            *)
Onward ==
    /\ job' = job /\ clock <= clock'
    /\ \A a \in AccountIds :
        /\ Born(a) => Born(a)'
        /\ IsDead(a) => IsDead(a)'
        /\ IsSaved(a) => IsSaved(a)'
        /\ purge'[a] # None => \/ purge'[a] = purge[a]
                               \/ clock' = clock /\ clock <= purge'[a] + Timeout
        /\ Cleaned(a)' => Cleaned(a) \/ (purge[a] # None /\ clock >= purge[a] + Settle)
    /\ \A a \in AccountIds, s \in Slots :
        /\ Live(a) /\ Live(a)' => \/ round'[a][s] = round[a][s]
                                  \/ round[a][s].version < round'[a][s].version
        /\ Earns(a, s) => Earns(a, s)' \/ Cleaned(a)
    /\ \A e \in Emails :
        /\ Len(codes[e]) <= Len(codes'[e])
        /\ \A c \in 1..Len(codes[e]) :
            binding'[e] # None /\ challenge'[e].code = c =>
                binding[e] # None /\ challenge[e].code = c

LEMMA OthersKeep ==
    ASSUME Inv, Types', Onward, NEW s \in Requests, proc'[s] = proc[s]
    PROVE  Truth(s, proc[s])'
<1> DEFINE q == proc[s]
<1>1. /\ q \in Memory /\ Truth(s, q) /\ job[s] \in Jobs /\ job' = job
      /\ clock \in Nat /\ clock' \in Nat /\ clock <= clock' /\ q.at \in Nat
      /\ Timeout \in Nat /\ Settle \in Nat /\ Settle > 2 * Timeout
  <2>1. s \in Procs
    BY Named
  <2>2. q \in Memory /\ Truth(s, q) /\ job[s] \in Jobs /\ job' = job
    BY <2>1 DEF Inv, Types, RunTypes, Onward
  <2>3. clock \in Nat /\ clock' \in Nat /\ clock <= clock' /\ q.at \in Nat
    BY <2>2, SettleAssumption DEF Inv, Types, RunTypes, Onward, Memory
  <2> QED
    BY <2>2, <2>3, SettleAssumption
<1>2. Way(s, q)'
  BY <1>1 DEF Truth, Way, ScopesOf
<1>3. Known(q)'
  BY <1>1 DEF Truth, Known, Onward
<1>4. Coded(s, q)'
  <2> DEFINE e == job[s].email
  <2>1. e \in Emails /\ Len(codes[e]) \in Nat /\ Len(codes'[e]) \in Nat
    BY <1>1 DEF Jobs, Inv, Types, ItemTypes
  <2>2. q.pc \in {"binding", "bind", "confirm", "plan", "adopt"} =>
            job[s].code \in 1..Len(codes[e]) /\ job[s].code \in 1..Len(codes'[e])
    BY <1>1, <2>1 DEF Truth, Coded, Onward
  <2> QED
    BY <1>1, <2>1, <2>2 DEF Truth, Coded, Onward
<1>5. Target(q)' /\ Ended(q)'
  BY <1>1 DEF Truth, Target, Ended, Onward, Known, Acting, Guests
<1>6. Planned(q)'
  <2> SUFFICES ASSUME q.pc = "adopt" PROVE Fresh(q.account, q.seen.from)' /\ Fresh(q.whose, q.seen.to)'
    BY <1>1 DEF Planned
  <2>1. ASSUME NEW a \in AccountIds, NEW view \in [Slots -> RoundItems], Born(a), Fresh(a, view)
        PROVE  Fresh(a, view)'
    <3> SUFFICES ASSUME Live(a)', NEW x \in Slots
                 PROVE  /\ view[x].version <= round'[a][x].version
                        /\ view[x].version = round'[a][x].version => view[x] = round'[a][x]
      BY DEF Fresh
    <3>1. Live(a)
      BY <2>1 DEF Onward, Live, Born, IsDead, Inv, Types, ItemTypes, AccountItems
    <3>2. /\ round[a][x].version \in Nat /\ round'[a][x].version \in Nat
          /\ view[x].version \in Nat
      BY DEF Inv, Types, PlayTypes, RoundItems
    <3>3. \/ round'[a][x] = round[a][x]
          \/ round[a][x].version < round'[a][x].version
      BY <3>1 DEF Onward
    <3> QED
      BY <2>1, <3>1, <3>2, <3>3 DEF Fresh
  <2>2. q.account \in AccountIds /\ Born(q.account) /\ q.whose \in AccountIds /\ Born(q.whose)
    BY <1>1 DEF Truth, Known, Acting, Guests
  <2>3. q.seen \in Plans /\ Fresh(q.account, q.seen.from) /\ Fresh(q.whose, q.seen.to)
    BY <1>1 DEF Truth, Way, Planned
  <2> QED
    BY <2>1, <2>2, <2>3 DEF Plans
<1>7. ASSUME NEW a \in AccountIds, InTime(q, a) PROVE InTime(q, a)'
  <2>1. ASSUME purge'[a] # None PROVE q.at <= purge'[a] + Timeout
    <3>1. purge'[a] \in Nat
      BY <2>1, SettleAssumption DEF Inv, Types, JobTypes
    <3>2. q.at <= clock
      BY <1>1 DEF Truth, Way
    <3> QED
      BY <1>1, <1>7, <2>1, <3>1, <3>2 DEF Onward, InTime
  <2>2. ASSUME Cleaned(a)' PROVE clock' > q.at + Timeout
    <3>1. CASE Cleaned(a)
      BY <1>1, <1>7, <3>1 DEF InTime
    <3>2. CASE purge[a] # None /\ clock >= purge[a] + Settle
      <4>1. purge[a] \in Nat
        BY <3>2, SettleAssumption DEF Inv, Types, JobTypes
      <4> QED
        BY <1>1, <1>7, <3>2, <4>1 DEF InTime
    <3> QED
      BY <2>2, <3>1, <3>2 DEF Onward
  <2> QED
    BY <2>1, <2>2 DEF InTime
<1>8. Timely(q)'
  BY <1>1, <1>7 DEF Truth, Timely, Known, Acting
<1>9. Earned(s, q)'
  <2> SUFFICES ASSUME q.pc = "reward", clock' <= q.at + Timeout
               PROVE  Earns(q.account, job[s].slot)'
    BY <1>1 DEF Earned
  <2>1. clock <= q.at + Timeout /\ q.account \in AccountIds /\ job[s].slot \in Slots
    BY <1>1 DEF Truth, Known, Acting, Guests, Jobs
  <2>2. Earns(q.account, job[s].slot) /\ ~Cleaned(q.account)
    BY <1>1, <2>1 DEF Truth, Earned, Timely, InTime, Acting, Guests
  <2> QED
    BY <2>1, <2>2 DEF Onward
<1> QED
  BY <1>1, <1>2, <1>3, <1>4, <1>5, <1>6, <1>8, <1>9 DEF Truth

(* What a request never does to an account that is being, or was, purged.  *)
HandsOff ==
    \A a \in AccountIds : Cleaned(a) =>
        /\ round'[a] = round[a] /\ score'[a] = score[a]
        /\ history'[a] = history[a] /\ purge'[a] = purge[a]
        /\ a \in member' => a \in member
        /\ a \in profile' => a \in profile
        /\ \A b \in AccountIds : <<a, b>> \in depart' => <<a, b>> \in depart
        /\ \A t \in Tokens : Owner(t)' = a => device'[t] = device[t]

LEMMA RequestStep ==
    ASSUME Inv, Types', Stores', Onward, HandsOff, purged' = purged,
           NEW r \in Requests, \A x \in Procs \ {r} : proc'[x] = proc[x],
           Truth(r, proc[r])'
    PROVE  Inv'
<1>1. proc'[Worker] = proc[Worker]
  BY Named
<1>2. \A s \in Requests : Truth(s, proc[s])'
  BY OthersKeep, Named
<1>3. Purging(proc[Worker])'
  <2> DEFINE q == proc[Worker]
             a == q.whose
  <2>1. Purging(q)
    BY DEF Inv
  <2>2. CASE q.pc = "idle"
    BY <1>1, <2>1, <2>2 DEF Purging
  <2>3. CASE q.pc # "idle"
    <3>1. a \in AccountIds /\ purge[a] # None /\ Swept(q, a) /\ Cleaned(a)
      BY <2>1, <2>3 DEF Purging, Cleaned
    <3>2. Swept(q, a)'
      BY <1>1, <3>1 DEF HandsOff, Swept, NoDeparture, NoDeviceOn, Owner
    <3> QED
      BY <1>1, <2>1, <2>3, <3>1, <3>2 DEF Purging, HandsOff
  <2> QED
    BY <2>2, <2>3
<1>4. ASSUME NEW a \in purged' PROVE Clean(a)'
  <2>1. a \in AccountIds /\ Clean(a) /\ Cleaned(a)
    BY <1>4 DEF Inv, Types, GhostTypes, Cleaned
  <2> QED
    BY <2>1 DEF HandsOff, Clean, NoDeparture, NoDeviceOn, Owner
<1> QED
  BY <1>2, <1>3, <1>4 DEF Inv

-----------------------------------------------------------------------------
(* The steps of a request that only read.                                  *)

LEMMA Facts ==
    ASSUME Inv, NEW r \in Requests
    PROVE  /\ r \in Procs /\ r # Worker
           /\ proc[r] \in Memory /\ Truth(r, proc[r])
           /\ job[r] \in Jobs /\ job[r].email \in Emails /\ job[r].token \in Tokens
           /\ faults \in 0..MaxFaults /\ clock \in Nat
BY Named, SettleAssumption DEF Inv, Types, RunTypes, Jobs

LEMMA DoneTrue ==
    ASSUME Inv, NEW r \in Requests, NEW a \in Answers
    PROVE  Truth(r, Done(a))
BY Facts DEF Done, Idle, Truth, Way, Known, Coded, Target, Planned, Ended, Earned, Timely,
    Acting, Guests, Linking, Pcs, WorkerOnly

LEMMA AnswerStep ==
    ASSUME Inv, NEW r \in Requests, NEW a \in Answers, Answer(r, a), UNCHANGED stored,
           faults' = faults
    PROVE  Inv'
BY Facts, IdleTyped, DoneTrue, QuietStep DEF Answer

LEMMA ArriveStep == ASSUME Inv, NEW r \in Requests, Arrive(r) PROVE Inv'
<1> DEFINE pc == IF job[r].op = "bootstrap" THEN "resolve" ELSE "auth"
           q == [Idle EXCEPT !.at = clock, !.pc = pc]
<1>1. q \in Memory /\ q.at = clock /\ q.todo = {} /\ q.pc = pc
  <2>1. Idle \in Memory /\ Idle.todo = {}
    BY IdleTyped DEF Idle
  <2>2. pc \in Pcs /\ clock \in 0..MaxClock
    BY DEF Pcs, Inv, Types, RunTypes
  <2> HIDE DEF pc
  <2> QED
    BY <2>1, <2>2 DEF Memory
<1>2. Truth(r, q)
  BY <1>1, Facts DEF Arrive, Truth, Way, Known, Coded, Target, Planned, Ended, Earned,
      Timely, Acting, Guests, Linking, Pcs, WorkerOnly, Jobs
<1>3. Become(r, q) /\ UNCHANGED stored /\ faults' = faults
  BY DEF Arrive, stored
<1> QED
  BY <1>1, <1>2, <1>3, Facts, QuietStep

(* Whoever a live token names is alive, and neither deleted nor purged.    *)
LEMMA LiveFacts ==
    ASSUME Inv, NEW a \in AccountIds, Live(a)
    PROVE  /\ Born(a) /\ ~IsDead(a) /\ purge[a] = None /\ ~Cleaned(a)
           /\ heir[a].to = None /\ heir[a].rounds = {}
<1>1. Born(a) /\ ~IsDead(a)
  BY DEF Live, Born, IsDead
<1>2. purge[a] = None /\ a \notin purged /\ heir[a].to = None /\ heir[a].rounds = {}
  BY <1>1 DEF Inv, Stores, Buried, Erased
<1> QED
  BY <1>1, <1>2 DEF Inv, Purging, Cleaned

LEMMA ActsInTime ==
    ASSUME Inv, NEW a \in AccountIds, Live(a), NEW q
    PROVE  InTime(q, a)
BY LiveFacts DEF InTime

LEMMA AuthenticateStep == ASSUME Inv, NEW r \in Requests, Authenticate(r) PROVE Inv'
<1> DEFINE t == job[r].token
           a == Owner(t)
           q == [As(proc[r], t) EXCEPT !.pc = FirstStep(job[r].op), !.whose = a]
<1>1. UNCHANGED stored /\ faults' = faults /\ proc[r].pc = "auth"
  BY DEF Authenticate, stored, At
<1>2. CASE ~Live(a)
  BY <1>1, <1>2, AnswerStep DEF Authenticate, Answers
<1>3. CASE Live(a)
  <2>1. job[r].op \in {"send", "verify", "visit", "delete", "revoke", "play", "profile", "join"}
    BY <1>1, Facts DEF Truth, Way, Jobs
  <2>2. /\ a \in AccountIds /\ device[t].id \in AccountIds \cup {None}
        /\ account[a].email \in Emails \cup {None}
    BY <1>3, Facts DEF Live, Inv, Types, ItemTypes, DeviceItems, AccountItems
  <2>3. FirstStep(job[r].op) \in {"sends", "verify", "drain", "delete", "remove", "append",
                                  "profile", "join"}
    BY <2>1 DEF FirstStep
  <2>4. /\ q \in Memory /\ q.pc = FirstStep(job[r].op) /\ q.account = a /\ q.whose = a
        /\ q.todo = proc[r].todo /\ q.at = proc[r].at
    <3>1. FirstStep(job[r].op) \in Pcs /\ a = device[t].account
      BY <2>3 DEF Pcs, Owner
    <3> QED
      BY <2>2, <3>1, Facts, ZenonT(60) DEF As, Memory
  <2>5. Way(r, q)
    <3>1. /\ FirstStep("verify") = "verify" /\ FirstStep("send") = "sends"
          /\ FirstStep("visit") = "drain" /\ FirstStep("delete") = "delete"
          /\ FirstStep("revoke") = "remove" /\ FirstStep("play") = "append"
          /\ FirstStep("profile") = "profile" /\ FirstStep("join") = "join"
      BY DEF FirstStep
    <3>2. q.todo = {} /\ q.at <= clock
      BY <1>1, <2>4, Facts DEF Truth, Way
    <3> QED
      BY <2>1, <2>4, <3>1, <3>2 DEF Way, Linking, Pcs, WorkerOnly
  <2>6. Known(q) /\ Coded(r, q) /\ Target(q) /\ Planned(q) /\ Ended(q) /\ Earned(r, q)
    BY <1>3, <2>2, <2>3, <2>4, LiveFacts
       DEF Known, Coded, Target, Planned, Ended, Earned, Guests, Acting
  <2>7. Timely(q)
    BY <1>3, <2>2, <2>4, ActsInTime DEF Timely
  <2>8. Become(r, q)
    BY <1>3 DEF Authenticate
  <2> QED
    BY <1>1, <2>4, <2>5, <2>6, <2>7, <2>8, Facts, QuietStep DEF Truth
<1> QED
  BY <1>2, <1>3

LEMMA ResolveStep == ASSUME Inv, NEW r \in Requests, Resolve(r) PROVE Inv'
<1> DEFINE found == Owner(job[r].token)
           pc == IF found = None THEN "create" ELSE "exists"
           q == [proc[r] EXCEPT !.account = found, !.id = device[job[r].token].id, !.pc = pc]
<1>1. UNCHANGED stored /\ faults' = faults /\ proc[r].pc = "resolve" /\ Become(r, q)
  BY DEF Resolve, stored, At
<1>2. /\ found \in AccountIds \cup {None}
      /\ device[job[r].token].id \in AccountIds \cup {None}
      /\ found # None => Born(found)
  BY Facts DEF Owner, Inv, Types, ItemTypes, DeviceItems, Stores, Accounted
<1>3. q \in Memory /\ q.pc = pc /\ q.account = found /\ q.at = proc[r].at
  <2>1. pc \in Pcs
    BY DEF Pcs
  <2> HIDE DEF pc, found
  <2> QED
    BY <1>2, <2>1, Facts, ZenonT(60) DEF Memory
<1>4. Truth(r, q)
  BY <1>1, <1>2, <1>3, Facts
     DEF Truth, Way, Known, Coded, Target, Planned, Ended, Earned, Timely, Acting, Guests,
         Linking, Pcs, WorkerOnly
<1> QED
  BY <1>1, <1>3, <1>4, Facts, QuietStep

LEMMA ExistsStep == ASSUME Inv, NEW r \in Requests, Exists(r) PROVE Inv'
<1> DEFINE q == [proc[r] EXCEPT !.pc = "create"]
<1>1. UNCHANGED stored /\ faults' = faults /\ proc[r].pc = "exists"
  BY DEF Exists, stored, At
<1>2. CASE Live(proc[r].account)
  BY <1>1, <1>2, AnswerStep DEF Exists, Answers
<1>3. CASE ~Live(proc[r].account)
  <2>1. q \in Memory /\ q.pc = "create" /\ q.account = proc[r].account /\ q.at = proc[r].at
    BY Facts DEF Memory, Pcs
  <2>2. q.account \in AccountIds /\ IsDead(q.account)
    BY <1>1, <1>3, <2>1, Facts
       DEF Truth, Known, Live, Born, IsDead, Inv, Types, ItemTypes, AccountItems
  <2>3. Truth(r, q)
    BY <1>1, <2>1, <2>2, Facts
       DEF Truth, Way, Known, Coded, Target, Planned, Ended, Earned, Timely, Acting, Guests,
           Linking, Pcs, WorkerOnly
  <2> QED
    BY <1>1, <1>3, <2>1, <2>3, Facts, QuietStep DEF Exists, Goto
<1> QED
  BY <1>2, <1>3

LEMMA RacedStep == ASSUME Inv, NEW r \in Requests, Raced(r) PROVE Inv'
BY AnswerStep DEF Raced, stored, Answers

LEMMA ReadSendsStep == ASSUME Inv, NEW r \in Requests, ReadSends(r) PROVE Inv'
<1> DEFINE view == [s \in ScopesOf(r) |-> sends[s]]
           q == [proc[r] EXCEPT !.pc = "spend", !.seen = view]
<1>1. UNCHANGED stored /\ faults' = faults /\ proc[r].pc = "sends"
  BY DEF ReadSends, stored, At
<1>2. CASE Answer(r, "too_many_codes")
  BY <1>1, <1>2, AnswerStep DEF Answers
<1>3. CASE Become(r, q)
  <2>1. view \in [ScopesOf(r) -> SUBSET SendItems] /\ view \in Views
    <3>1. ScopesOf(r) = {job[r].email, Ip} /\ ScopesOf(r) \subseteq Scopes
      BY Facts DEF ScopesOf, Scopes
    <3>2. view \in [ScopesOf(r) -> SUBSET SendItems]
      BY <3>1 DEF Inv, Types, ItemTypes
    <3> QED
      BY <3>1, <3>2, Facts DEF Views, Lists
  <2>2. /\ q \in Memory /\ q.pc = "spend" /\ q.seen = view /\ q.at = proc[r].at
        /\ q.account = proc[r].account /\ q.whose = proc[r].whose
    <3>1. "spend" \in Pcs
      BY DEF Pcs
    <3> HIDE DEF view
    <3> QED
      BY <2>1, <3>1, Facts DEF Memory
  <2>3. Truth(r, q)
    BY <1>1, <2>1, <2>2, Facts
       DEF Truth, Way, Known, Coded, Target, Planned, Ended, Earned, Timely, InTime, Acting,
           Guests, Linking, Pcs, WorkerOnly
  <2> QED
    BY <1>1, <1>3, <2>2, <2>3, Facts, QuietStep
<1> QED
  BY <1>2, <1>3 DEF ReadSends

(* Going on, with nothing changed but the place.                           *)
Alike(w, q) ==
    /\ w.at = q.at /\ w.account = q.account /\ w.whose = q.whose /\ w.seen = q.seen
    /\ w.todo = q.todo /\ w.email = q.email /\ w.id = q.id /\ w.from = q.from
    /\ w.clean = q.clean

LEMMA Going ==
    ASSUME NEW q \in Memory, NEW pc \in Pcs
    PROVE  /\ [q EXCEPT !.pc = pc] \in Memory
           /\ [q EXCEPT !.pc = pc].pc = pc
           /\ Alike([q EXCEPT !.pc = pc], q)
BY DEF Memory, Alike

LEMMA ViewsHold == <<>> \in Views /\ \A v \in Plans : v \in Views
BY DEF Views

LEMMA PcsHold ==
    /\ "binding" \in Pcs /\ "verify" \in Pcs /\ "bind" \in Pcs /\ "plan" \in Pcs
    /\ "judge" \in Pcs /\ "adopt" \in Pcs /\ "again" \in Pcs /\ "depart" \in Pcs
    /\ "drain" \in Pcs /\ "finish" \in Pcs /\ "keys" \in Pcs /\ "create" \in Pcs
    /\ "raced" \in Pcs /\ "confirm" \in Pcs /\ "sends" \in Pcs /\ "put" \in Pcs
    /\ "credit" \in Pcs /\ "list" \in Pcs /\ "revoke" \in Pcs /\ "leave" \in Pcs
    /\ "clear" \in Pcs /\ "delete" \in Pcs /\ "reward" \in Pcs /\ "score" \in Pcs
    /\ "round" \in Pcs /\ "sweep" \in Pcs /\ "spend" \in Pcs
BY DEF Pcs

(* Another try, or the next step of the way to a link.                     *)
LEMMA LinkStep ==
    ASSUME Inv, NEW r \in Requests, NEW q \in Memory, Become(r, q), UNCHANGED stored,
           faults' = faults,
           proc[r].pc \in Linking, q.pc \in Linking,
           q.at = proc[r].at, q.account = proc[r].account, q.todo = {},
           q.whose = proc[r].whose, Coded(r, q), Target(q),
           q.pc = "adopt" => q.seen \in Plans, Planned(q)
    PROVE  Inv'
<1>1. Truth(r, proc[r])
  BY Facts
<1>2. Way(r, q)
  BY <1>1 DEF Truth, Way, Linking, Pcs, WorkerOnly
<1>3. Known(q) /\ Ended(q) /\ Earned(r, q) /\ Timely(q)
  BY <1>1 DEF Truth, Known, Ended, Earned, Timely, InTime, Acting, Guests, Linking
<1> QED
  BY <1>2, <1>3, Facts, QuietStep DEF Truth

LEMMA JudgeStep == ASSUME Inv, NEW r \in Requests, Judge(r) PROVE Inv'
<1> DEFINE q == [proc[r] EXCEPT !.pc = "binding"]
           n == proc[r].tries + 1
           u == [proc[r] EXCEPT !.pc = "verify", !.tries = n]
           e == job[r].email
<1>1. /\ UNCHANGED stored /\ faults' = faults /\ proc[r].pc = "judge"
      /\ proc[r].todo = {} /\ n \in Nat
  BY Facts DEF Judge, stored, At, Truth, Way, Linking, Memory
<1>2. ASSUME NEW a \in Answers, Answer(r, a) PROVE Inv'
  BY <1>1, <1>2, AnswerStep
<1>3. CASE Held(r).code # 0 /\ Held(r).code = job[r].code /\ Become(r, q)
  <2>1. /\ q \in Memory /\ q.pc = "binding" /\ q.at = proc[r].at /\ q.todo = {}
        /\ q.account = proc[r].account /\ q.whose = proc[r].whose
    BY <1>1, Facts, Going, PcsHold DEF Alike
  <2>2. job[r].code \in 1..Len(codes[e])
    BY <1>3, Facts DEF Held, Inv, Stores, CodesAgree, Types, ItemTypes
  <2>3. Coded(r, q) /\ Target(q) /\ Planned(q)
    BY <2>1, <2>2 DEF Coded, Target, Planned
  <2> QED
    BY <1>1, <1>3, <2>1, <2>3, LinkStep DEF Linking
<1>4. CASE Become(r, u)
  <2>1. /\ u \in Memory /\ u.pc = "verify" /\ u.at = proc[r].at /\ u.todo = {}
        /\ u.account = proc[r].account /\ u.whose = proc[r].whose
    <3> HIDE DEF n
    <3> QED
      BY <1>1, Facts, PcsHold, ZenonT(60) DEF Memory
  <2>2. Coded(r, u) /\ Target(u) /\ Planned(u)
    BY <2>1 DEF Coded, Target, Planned
  <2> QED
    BY <1>1, <1>4, <2>1, <2>2, LinkStep DEF Linking
<1>5. {"no_code", "code_expired", "code_spent", "failed"} \subseteq Answers
  BY DEF Answers
<1>6. [proc[r] EXCEPT !.pc = "verify", !.tries = @ + 1] = u
  BY Facts DEF Memory
<1> QED
  BY <1>2, <1>3, <1>4, <1>5, <1>6 DEF Judge, Goto

LEMMA ReadBindingStep == ASSUME Inv, NEW r \in Requests, ReadBinding(r) PROVE Inv'
<1> DEFINE e == job[r].email
           target == binding[e]
           q == [proc[r] EXCEPT !.pc = "bind"]
           u == [proc[r] EXCEPT !.pc = "confirm", !.whose = target, !.tries = 0]
<1>1. /\ UNCHANGED stored /\ faults' = faults /\ proc[r].pc = "binding" /\ proc[r].todo = {}
      /\ job[r].code \in 1..Len(codes[e])
  BY Facts DEF ReadBinding, stored, At, Truth, Way, Linking, Coded
<1>2. ASSUME NEW a \in Answers, Answer(r, a) PROVE Inv'
  BY <1>1, <1>2, AnswerStep
<1>3. CASE target = None /\ Become(r, q)
  <2>1. /\ q \in Memory /\ q.pc = "bind" /\ q.at = proc[r].at /\ q.todo = {}
        /\ q.account = proc[r].account /\ q.whose = proc[r].whose
    BY <1>1, Facts, Going, PcsHold DEF Alike
  <2>2. Coded(r, q) /\ Target(q) /\ Planned(q)
    BY <1>1, <1>3, <2>1 DEF Coded, Target, Planned
  <2> QED
    BY <1>1, <1>3, <2>1, <2>2, LinkStep DEF Linking
<1>4. CASE target # None /\ target # proc[r].account /\ Become(r, u)
  <2>1. target \in AccountIds /\ Live(target) /\ account[target].email # None
    BY <1>4, Facts, Named DEF Inv, Types, ItemTypes, Stores, AddressesAgree
  <2>2. /\ u \in Memory /\ u.pc = "confirm" /\ u.at = proc[r].at /\ u.todo = {}
        /\ u.account = proc[r].account /\ u.whose = target
    <3>1. "confirm" \in Pcs
      BY DEF Pcs
    <3> HIDE DEF target
    <3> QED
      BY <1>1, <2>1, <3>1, Facts, ZenonT(60) DEF Memory
  <2>3. Coded(r, u) /\ Target(u) /\ Planned(u)
    BY <1>1, <1>4, <2>1, <2>2 DEF Coded, Target, Planned, IsSaved
  <2>4. Known(u) /\ Timely(u)
    BY <1>1, <2>1, <2>2, Facts, LiveFacts, ActsInTime
       DEF Known, Timely, InTime, Acting, Guests, Truth
  <2>5. Way(r, u) /\ Ended(u) /\ Earned(r, u)
    BY <1>1, <2>2, Facts DEF Way, Ended, Earned, Truth, Linking, Pcs, WorkerOnly
  <2> QED
    BY <1>1, <1>4, <2>2, <2>3, <2>4, <2>5, Facts, QuietStep DEF Truth
<1>5. {"already_bound", "no_account", "account_linked"} \subseteq Answers
  BY DEF Answers
<1> QED
  BY <1>2, <1>3, <1>4, <1>5 DEF ReadBinding, Reaches, Goto

LEMMA ConfirmStep == ASSUME Inv, NEW r \in Requests, Confirm(r) PROVE Inv'
<1> DEFINE q == [proc[r] EXCEPT !.pc = "plan"]
<1>1. UNCHANGED stored /\ faults' = faults /\ proc[r].pc = "confirm" /\ proc[r].todo = {}
  BY Facts DEF Confirm, stored, At, Truth, Way, Linking
<1>2. CASE Answer(r, "would_erase") \/ Answer(r, "would_switch")
  BY <1>1, <1>2, AnswerStep DEF Answers
<1>3. CASE Become(r, q)
  <2>1. /\ q \in Memory /\ q.pc = "plan" /\ q.at = proc[r].at /\ q.todo = {}
        /\ q.account = proc[r].account /\ q.whose = proc[r].whose
    BY <1>1, Facts, Going, PcsHold DEF Alike
  <2>2. Coded(r, q) /\ Target(q) /\ Planned(q)
    BY <1>1, <2>1, Facts DEF Truth, Coded, Target, Planned
  <2> QED
    BY <1>1, <1>3, <2>1, <2>2, LinkStep DEF Linking
<1> QED
  BY <1>2, <1>3 DEF Confirm, Goto

LEMMA PlanStep == ASSUME Inv, NEW r \in Requests, PlanMoves(r) PROVE Inv'
<1> DEFINE view == [from |-> round[From(r)], to |-> round[To(r)],
                    fromScore |-> score[From(r)], toScore |-> score[To(r)]]
           q == [proc[r] EXCEPT !.pc = "adopt", !.seen = view]
<1>1. /\ UNCHANGED stored /\ faults' = faults /\ proc[r].pc = "plan" /\ proc[r].todo = {}
      /\ Become(r, q)
  BY Facts DEF PlanMoves, stored, At, Truth, Way, Linking
<1>2. From(r) \in AccountIds /\ To(r) \in AccountIds
  BY <1>1, Facts DEF From, To, Truth, Known, Acting, Guests
<1>3. view \in Plans
  BY <1>2 DEF Plans, Inv, Types, PlayTypes
<1>4. view.from = round[From(r)] /\ view.to = round[To(r)]
  OBVIOUS
<1>5. /\ q \in Memory /\ q.pc = "adopt" /\ q.at = proc[r].at /\ q.todo = {}
      /\ q.account = From(r) /\ q.whose = To(r) /\ q.seen = view
  <2> HIDE DEF view
  <2>1. "adopt" \in Pcs /\ view \in Views
    BY <1>3, PcsHold, ViewsHold
  <2> QED
    BY <1>1, <2>1, Facts, ZenonT(60) DEF Memory, From, To
<1>6. Planned(q)
  <2>1. ASSUME NEW a \in AccountIds PROVE Fresh(a, round[a])
    BY DEF Fresh, Inv, Types, PlayTypes, RoundItems
  <2> QED
    BY <1>2, <1>4, <1>5, <2>1 DEF Planned
<1>7. Coded(r, q) /\ Target(q)
  BY <1>1, <1>5, Facts DEF Truth, Coded, Target, From, To
<1> QED
  BY <1>1, <1>3, <1>5, <1>6, <1>7, LinkStep DEF Linking, From, To

(* A request answers at the end of its departures, or leaves another.      *)
LEMMA NextTrue ==
    ASSUME Inv, NEW r \in Requests, NEW q \in Memory, q.todo \subseteq AccountIds,
           job[r].op \in {"verify", "visit", "delete"},
           Acting(proc[r]), q.at = proc[r].at, q.account = proc[r].account,
           q.whose = proc[r].whose
    PROVE  NextDeparture(r, q) \in Memory /\ Truth(r, NextDeparture(r, q))
<1>1. r # Worker
  BY Facts
<1>2. CASE q.todo = {}
  <2>1. \E a \in Answers : NextDeparture(r, q) = Done(a)
    BY <1>1, <1>2 DEF NextDeparture, Drained, Op, Answers
  <2> QED
    BY <2>1, IdleTyped, DoneTrue
<1>3. CASE q.todo # {}
  <2> DEFINE u == [q EXCEPT !.pc = "leave"]
  <2>1. u \in Memory /\ u.pc = "leave" /\ Alike(u, q)
    BY Going, PcsHold
  <2>2. Truth(r, proc[r])
    BY Facts
  <2>3. Truth(r, u)
    BY <2>1, <2>2 DEF Alike, Truth, Way, Known, Coded, Target, Planned, Ended, Earned,
        Timely, InTime, Acting, Guests, Linking, Pcs, WorkerOnly
  <2> QED
    BY <1>3, <2>1, <2>3 DEF NextDeparture
<1> QED
  BY <1>2, <1>3

LEMMA DrainStep == ASSUME Inv, NEW r \in Requests, Drain(r) PROVE Inv'
<1> DEFINE S == {f \in AccountIds : <<proc[r].whose, f>> \in depart}
           q == [proc[r] EXCEPT !.todo = S]
<1>1. /\ UNCHANGED stored /\ faults' = faults /\ proc[r].pc = "drain"
      /\ Become(r, NextDeparture(r, q))
  BY DEF Drain, stored, At
<1>2. /\ q \in Memory /\ q.todo \subseteq AccountIds /\ q.at = proc[r].at
      /\ q.account = proc[r].account /\ q.whose = proc[r].whose
  <2>1. S \subseteq AccountIds
    OBVIOUS
  <2> HIDE DEF S
  <2> QED
    BY <2>1, Facts DEF Memory
<1>3. Acting(proc[r]) /\ job[r].op \in {"verify", "visit", "delete"}
  BY <1>1, Facts DEF Acting, Guests, Truth, Way
<1> HIDE DEF q
<1>4. NextDeparture(r, q) \in Memory /\ Truth(r, NextDeparture(r, q))
  BY <1>2, <1>3, NextTrue
<1> QED
  BY <1>1, <1>4, Facts, QuietStep

(* The rows a request may find are of tokens.                              *)
LEMMA ListingTyped ==
    ASSUME Inv, NEW r \in Requests, Acting(proc[r]), NEW S \in Listing(r)
    PROVE  S \subseteq Listed
<1>1. /\ proc[r].id \in AccountIds \cup {None}
      /\ \A t \in Tokens : device[t].id \in AccountIds \cup {None}
  BY Facts DEF Memory, Inv, Types, ItemTypes, DeviceItems
<1>2. Rows(proc[r].whose) \subseteq Listed
  BY <1>1 DEF Rows, Listed
<1>3. <<job[r].token, proc[r].id>> \in Listed
  BY <1>1, Facts DEF Listed
<1> QED
  BY <1>2, <1>3, Facts DEF Listing

LEMMA ListStep == ASSUME Inv, NEW r \in Requests, ListDevices(r) PROVE Inv'
<1>1. UNCHANGED stored /\ faults' = faults /\ proc[r].pc = "list" /\ Acting(proc[r])
  BY DEF ListDevices, stored, At, Acting, Guests
<1>2. PICK S \in Listing(r) : Become(r, [proc[r] EXCEPT !.pc = "revoke", !.todo = S])
  BY DEF ListDevices
<1>3. S \subseteq Listed
  BY <1>1, ListingTyped
<1> DEFINE q == [proc[r] EXCEPT !.pc = "revoke", !.todo = S]
<1>4. /\ q \in Memory /\ q.pc = "revoke" /\ q.todo = S /\ q.at = proc[r].at
      /\ q.account = proc[r].account /\ q.whose = proc[r].whose
  BY <1>3, Facts, PcsHold DEF Memory
<1>5. Truth(r, q)
  BY <1>1, <1>3, <1>4, Facts
     DEF Truth, Way, Known, Coded, Target, Planned, Ended, Earned, Timely, InTime, Acting,
         Guests, Linking, Pcs, WorkerOnly
<1> QED
  BY <1>1, <1>2, <1>4, <1>5, Facts, QuietStep

LEMMA DeleteAgainStep == ASSUME Inv, NEW r \in Requests, DeleteAgain(r) PROVE Inv'
<1> DEFINE t == job[r].token
           a == Owner(t)
           n == proc[r].tries + 1
           u == As(proc[r], t)
           q == [u EXCEPT !.pc = "delete", !.tries = n]
<1>1. UNCHANGED stored /\ faults' = faults /\ proc[r].pc = "again" /\ n \in Nat
  BY Facts DEF DeleteAgain, stored, At, Memory
<1>2. CASE Answer(r, "unknown_device") \/ Answer(r, "failed")
  BY <1>1, <1>2, AnswerStep DEF Answers
<1>3. CASE Live(a) /\ Become(r, q)
  <2>1. /\ a \in AccountIds /\ device[t].id \in AccountIds \cup {None}
        /\ account[a].email \in Emails \cup {None}
    BY <1>3, Facts DEF Live, Inv, Types, ItemTypes, DeviceItems, AccountItems
  <2>2. /\ q \in Memory /\ q.pc = "delete" /\ q.account = a /\ q.whose = proc[r].whose
        /\ q.at = proc[r].at
    <3>1. a = device[t].account
      BY DEF Owner
    <3>2. u \in Memory /\ u.account = a /\ u.whose = proc[r].whose /\ u.at = proc[r].at
      BY <2>1, <3>1, Facts, ZenonT(60) DEF As, Memory
    <3> HIDE DEF u, n
    <3> QED
      BY <1>1, <3>2, PcsHold DEF Memory
  <2>3. Way(r, q)
    BY <1>1, <2>2, Facts DEF Truth, Way, Linking, Pcs, WorkerOnly
  <2>4. Known(q) /\ Coded(r, q) /\ Target(q) /\ Planned(q) /\ Ended(q) /\ Earned(r, q)
    BY <1>1, <1>3, <2>1, <2>2, LiveFacts, Facts
       DEF Truth, Known, Coded, Target, Planned, Ended, Earned, Guests, Acting
  <2>5. Timely(q)
    BY <1>1, <1>3, <2>1, <2>2, ActsInTime, Facts DEF Truth, Timely, InTime, Acting, Guests
  <2> QED
    BY <1>1, <1>3, <2>2, <2>3, <2>4, <2>5, Facts, QuietStep DEF Truth
<1>4. [As(proc[r], t) EXCEPT !.pc = "delete", !.tries = @ + 1] = q
  BY Facts DEF As, Memory
<1> QED
  BY <1>2, <1>3, <1>4 DEF DeleteAgain

LEMMA ThrowsStep == ASSUME Inv, NEW r \in Requests, Throws(r) PROVE Inv'
<1> DEFINE p == proc[r]
<1>1. UNCHANGED stored /\ faults' \in 0..MaxFaults /\ r # Worker
  BY Facts, CodeAssumption DEF Throws, stored
<1>2. PICK q \in Carried(r) : Become(r, q)
  BY DEF Throws
<1>3. p \in Memory /\ Truth(r, p)
  BY Facts
<1>4. CASE p.pc \in {"drain", "leave", "clear", "depart"}
  <2>1. Acting(p) /\ job[r].op \in {"verify", "visit", "delete"}
    BY <1>3, <1>4 DEF Acting, Guests, Truth, Way
  <2>2. ASSUME NEW u \in Memory, u.todo \subseteq AccountIds, u.at = p.at,
               u.account = p.account, u.whose = p.whose, q = NextDeparture(r, u)
        PROVE  Inv'
    <3>1. q \in Memory /\ Truth(r, q)
      BY <2>1, <2>2, NextTrue
    <3> QED
      BY <1>1, <1>2, <3>1, QuietStep
  <2>3. CASE p.pc \in {"drain", "depart"}
    <3>1. q = Drained(r, [p EXCEPT !.clean = FALSE])
      BY <1>2, <2>3 DEF Carried
    <3>2. \E a \in Answers : q = Done(a)
      BY <1>1, <2>1, <3>1 DEF Drained, Op, Answers
    <3> QED
      BY <1>1, <1>2, <3>2, IdleTyped, DoneTrue, QuietStep
  <2>4. CASE p.pc = "leave"
    <3>1. PICK f \in p.todo :
            q = NextDeparture(r, [p EXCEPT !.todo = @ \ {f}, !.clean = FALSE])
      BY <1>2, <2>4 DEF Carried
    <3> DEFINE u == [p EXCEPT !.todo = @ \ {f}, !.clean = FALSE]
    <3>2. /\ u \in Memory /\ u.todo \subseteq AccountIds /\ u.at = p.at
          /\ u.account = p.account /\ u.whose = p.whose
      BY <1>3, <2>4 DEF Memory, Truth, Way
    <3> HIDE DEF u
    <3> QED
      BY <2>2, <3>1, <3>2 DEF u
  <2>5. CASE p.pc = "clear"
    <3> DEFINE u == [p EXCEPT !.todo = @ \ {p.from}, !.from = None, !.clean = FALSE]
    <3>1. q = NextDeparture(r, u)
      BY <1>2, <2>5 DEF Carried
    <3>2. /\ u \in Memory /\ u.todo \subseteq AccountIds /\ u.at = p.at
          /\ u.account = p.account /\ u.whose = p.whose
      BY <1>3, <2>5 DEF Memory, Truth, Way
    <3> HIDE DEF u
    <3> QED
      BY <2>2, <3>1, <3>2
  <2> QED
    BY <1>4, <2>3, <2>4, <2>5
<1>5. CASE p.pc \in {"list", "revoke"}
  <2>1. q = [p EXCEPT !.pc = "depart", !.todo = {}]
    BY <1>1, <1>2, <1>5 DEF Carried
  <2>2. /\ q \in Memory /\ q.pc = "depart" /\ q.todo = {} /\ q.at = p.at
        /\ q.account = p.account /\ q.whose = p.whose
    BY <1>3, <2>1, PcsHold DEF Memory
  <2>3. Truth(r, q)
    BY <1>3, <1>5, <2>2
       DEF Truth, Way, Known, Coded, Target, Planned, Ended, Earned, Timely, InTime, Acting,
           Guests, Linking, Pcs, WorkerOnly
  <2> QED
    BY <1>1, <1>2, <2>2, <2>3, QuietStep
<1>6. CASE p.pc \in {"credit", "reward"}
  <2>1. PICK x : q = [p EXCEPT !.todo = @ \ {x}]
    BY <1>2, <1>6 DEF Carried
  <2>2. /\ q \in Memory /\ q.pc = p.pc /\ q.todo = p.todo \ {x} /\ q.at = p.at
        /\ q.account = p.account /\ q.whose = p.whose
    BY <1>3, <2>1 DEF Memory
  <2>3. Truth(r, q)
    BY <1>3, <1>6, <2>2
       DEF Truth, Way, Known, Coded, Target, Planned, Ended, Earned, Timely, InTime, Acting,
           Guests, Linking
  <2> QED
    BY <1>1, <1>2, <2>2, <2>3, QuietStep
<1> QED
  <2>1. p.pc \in {"drain", "leave", "clear", "depart", "list", "revoke", "credit", "reward"}
    BY <1>2 DEF Carried
  <2> QED
    BY <1>4, <1>5, <1>6, <2>1

-----------------------------------------------------------------------------
(* The steps of a request that write beside the accounts: devices, sends,  *)
(* departures, memberships, scores, days and profiles.                     *)

(* Nobody acts for an account that is being purged within its own life.    *)
LEMMA StillInTime ==
    ASSUME Inv, NEW r \in Requests, Acting(proc[r]), clock <= proc[r].at + Timeout
    PROVE  ~Cleaned(proc[r].account) /\ ~Cleaned(proc[r].whose)
BY Facts, SettleAssumption DEF Truth, Timely, InTime, Memory

SideTypes ==
    /\ device \in [Tokens -> DeviceItems]
    /\ sends \in [Scopes -> SUBSET SendItems]
    /\ depart \in SUBSET (AccountIds \X AccountIds)
    /\ member \in SUBSET AccountIds
    /\ score \in [AccountIds -> [Slots -> Requests \cup {None}]]
    /\ history \in [AccountIds -> SUBSET Slots]
    /\ profile \in SUBSET AccountIds
    /\ signedOut \in SUBSET AccountIds

core == <<setting, account, binding, challenge, codes, round, purge, clock, faults,
          granted, purged, heir>>

LEMMA SideStep ==
    ASSUME Inv, NEW r \in Requests, NEW q \in Memory, Become(r, q), Truth(r, q),
           UNCHANGED core, SideTypes', HandsOff,
           Accounted', Alone', Erased', NoOrphanAccount', ScoresFound'
    PROVE  Inv'
<1> USE DEF core, setting
<1>1. /\ proc' \in [Procs -> Memory] /\ proc'[r] = q
      /\ \A x \in Procs \ {r} : proc'[x] = proc[x]
      /\ proc'[Worker] = proc[Worker]
  BY Moved, Named DEF Inv, Types, RunTypes
<1>2. Types'
  BY <1>1 DEF Inv, Types, ItemTypes, PlayTypes, JobTypes, GhostTypes, RunTypes, SideTypes
<1>3. Stores'
  <2>1. AddressesAgree' /\ CodesAgree' /\ Buried'
    BY DEF Inv, Stores, AddressesAgree, CodesAgree, Buried, IsDead, Live
  <2> QED
    BY <2>1 DEF Stores
<1>4. \A a : Cleaned(a)' <=> Cleaned(a)
  BY <1>1 DEF Cleaned
<1>5. Onward
  <2>1. clock <= clock
    BY Facts
  <2>2. \A e \in Emails : Len(codes[e]) <= Len(codes[e])
    BY DEF Inv, Types, ItemTypes
  <2> QED
    BY <1>4, <2>1, <2>2 DEF Onward, Born, IsDead, IsSaved, Earns
<1>6. Truth(r, proc[r])'
  <2>1. Truth(r, proc'[r])
    BY <1>1
  <2> QED
    BY <1>4, <2>1, SMTT(30) DEF Truth, Way, Known, Coded, Target, Planned, Ended, Earned, Timely,
        InTime, Acting, Born, IsDead, IsSaved, Fresh, Earns, Live, ScopesOf
<1> QED
  BY <1>1, <1>2, <1>3, <1>5, <1>6, RequestStep

(* The devices stay where they are, and no score appears.                  *)
LEMMA PlainStep ==
    ASSUME Inv, NEW r \in Requests, NEW q \in Memory, Become(r, q), Truth(r, q),
           UNCHANGED <<core, device, score, signedOut>>, SideTypes', HandsOff
    PROVE  Inv'
<1>1. /\ Accounted' /\ Alone' /\ Erased' /\ NoOrphanAccount' /\ ScoresFound'
  BY DEF Inv, Stores, core, Accounted, Alone, Erased, NoOrphanAccount, ScoresFound, Earns,
      Live, Owner, Born, IsDead
<1> QED
  BY <1>1, SideStep

LEMMA SideTyped == ASSUME Inv PROVE SideTypes
BY DEF SideTypes, Inv, Types, ItemTypes, PlayTypes, JobTypes, GhostTypes

LEMMA SpendStep == ASSUME Inv, NEW r \in Requests, SpendSends(r) PROVE Inv'
<1> DEFINE q == [proc[r] EXCEPT !.pc = "put", !.seen = <<>>]
           n == proc[r].tries + 1
           u == [proc[r] EXCEPT !.pc = "sends", !.seen = <<>>, !.tries = n]
<1>1. /\ UNCHANGED <<core, device, score, signedOut, depart, member, history, profile>>
      /\ proc[r].pc = "spend" /\ n \in Nat
  BY Facts DEF SpendSends, At, core, setting, identity, play, jobs, ghosts, Memory
<1>2. HandsOff
  BY <1>1 DEF HandsOff, Owner, core
<1>3. CASE Become(r, q) /\ SendsUnchanged(r)
            /\ sends' = [s \in Scopes |->
                            IF s \in ScopesOf(r)
                            THEN Recent(proc[r].seen[s], proc[r].at) \cup {Sending(r)}
                            ELSE sends[s]]
  <2>1. q \in Memory /\ q.pc = "put" /\ Alike([q EXCEPT !.seen = proc[r].seen], proc[r])
    BY Facts, PcsHold, ViewsHold DEF Memory, Alike
  <2>2. q.at = proc[r].at /\ q.account = proc[r].account /\ q.whose = proc[r].whose
    BY Facts DEF Memory
  <2>3. Truth(r, q)
    BY <1>1, <2>1, <2>2, Facts
       DEF Truth, Way, Known, Coded, Target, Planned, Ended, Earned, Timely, InTime, Acting,
           Guests, Linking, Pcs, WorkerOnly
  <2>4. SideTypes'
    <3>1. \A s \in ScopesOf(r) : Recent(proc[r].seen[s], proc[r].at) \subseteq SendItems
      BY <1>1, Facts DEF Truth, Way, Recent
    <3>2. Sending(r) \in SendItems
      BY Facts DEF Sending, SendItems, Memory
    <3>3. \A s \in Scopes : sends[s] \subseteq SendItems
      BY DEF Inv, Types, ItemTypes
    <3>4. sends' \in [Scopes -> SUBSET SendItems]
      BY <1>3, <3>1, <3>2, <3>3
    <3> QED
      BY <1>1, <3>4, SideTyped DEF SideTypes, core
  <2> QED
    BY <1>1, <1>2, <1>3, <2>1, <2>3, <2>4, PlainStep
<1>4. CASE UNCHANGED sends /\ Become(r, u)
  <2>1. /\ u \in Memory /\ u.pc = "sends" /\ u.at = proc[r].at
        /\ u.account = proc[r].account /\ u.whose = proc[r].whose
    <3> HIDE DEF n
    <3> QED
      BY <1>1, Facts, PcsHold, ViewsHold, ZenonT(60) DEF Memory
  <2>2. Truth(r, u)
    BY <1>1, <2>1, Facts
       DEF Truth, Way, Known, Coded, Target, Planned, Ended, Earned, Timely, InTime, Acting,
           Guests, Linking, Pcs, WorkerOnly
  <2> QED
    BY <1>1, <1>2, <1>4, <2>1, <2>2, PlainStep, SideTyped DEF SideTypes, core
<1>5. CASE UNCHANGED sends /\ Answer(r, "failed")
  <2>1. "failed" \in Answers
    BY DEF Answers
  <2> QED
    BY <1>1, <1>2, <1>5, <2>1, IdleTyped, DoneTrue, PlainStep, SideTyped
       DEF Answer, SideTypes, core
<1>6. [proc[r] EXCEPT !.pc = "sends", !.seen = <<>>, !.tries = @ + 1] = u
  BY Facts DEF Memory
<1> QED
  BY <1>3, <1>4, <1>5, <1>6 DEF SpendSends

LEMMA CreditMovedStep == ASSUME Inv, NEW r \in Requests, CreditMoved(r) PROVE Inv'
<1> DEFINE q == [proc[r] EXCEPT !.pc = "drain"]
<1>1. /\ UNCHANGED <<core, device, score, signedOut, depart, member, sends, profile>>
      /\ proc[r].pc = "credit" /\ clock <= proc[r].at + Timeout
  BY Facts DEF CreditMoved, At, core, setting, identity, mail, jobs, ghosts
<1>2. Acting(proc[r]) /\ To(r) = proc[r].whose /\ To(r) \in AccountIds
  BY <1>1, Facts DEF Acting, Guests, To, Truth, Known
<1>3. CASE UNCHANGED history /\ Become(r, q)
  <2>1. q \in Memory /\ q.pc = "drain" /\ Alike(q, proc[r])
    BY Facts, Going, PcsHold
  <2>2. Truth(r, q)
    BY <1>1, <2>1, Facts
       DEF Alike, Truth, Way, Known, Coded, Target, Planned, Ended, Earned, Timely, InTime,
           Acting, Guests, Linking, Pcs, WorkerOnly
  <2>3. HandsOff
    BY <1>1, <1>3 DEF HandsOff, Owner, core
  <2> QED
    BY <1>1, <1>3, <2>1, <2>2, <2>3, PlainStep, SideTyped DEF SideTypes, core
<1>4. ASSUME NEW s \in proc[r].todo, history' = [history EXCEPT ![To(r)] = @ \cup {s}],
             Become(r, [proc[r] EXCEPT !.todo = @ \ {s}])
      PROVE  Inv'
  <2> DEFINE u == [proc[r] EXCEPT !.todo = @ \ {s}]
  <2>1. /\ u \in Memory /\ u.pc = "credit" /\ u.at = proc[r].at
        /\ u.account = proc[r].account /\ u.whose = proc[r].whose
        /\ u.todo = proc[r].todo \ {s}
    BY <1>1, Facts DEF Memory
  <2>2. Truth(r, u)
    BY <1>1, <2>1, Facts
       DEF Truth, Way, Known, Coded, Target, Planned, Ended, Earned, Timely, InTime, Acting,
           Guests, Linking, Pcs, WorkerOnly
  <2>3. s \in Slots
    BY <1>1, <1>4, Facts DEF Truth, Way
  <2>4. history' \in [AccountIds -> SUBSET Slots]
    BY <1>2, <1>4, <2>3 DEF Inv, Types, PlayTypes
  <2>5. HandsOff
    BY <1>1, <1>2, <1>4, StillInTime DEF HandsOff, Owner, core, Inv, Types, PlayTypes
  <2> QED
    BY <1>1, <1>4, <2>1, <2>2, <2>4, <2>5, PlainStep, SideTyped DEF SideTypes, core
<1> QED
  BY <1>3, <1>4 DEF CreditMoved, Goto

LEMMA LeaveStep == ASSUME Inv, NEW r \in Requests, LeaveOne(r) PROVE Inv'
<1>1. /\ UNCHANGED <<core, device, score, signedOut, depart, sends, history, profile>>
      /\ proc[r].pc = "leave"
  BY Facts DEF LeaveOne, At, core, setting, identity, mail, play, jobs, ghosts
<1>2. PICK f \in proc[r].todo :
        member' = member \ {f} /\ Become(r, [proc[r] EXCEPT !.pc = "clear", !.from = f])
  BY DEF LeaveOne
<1> DEFINE q == [proc[r] EXCEPT !.pc = "clear", !.from = f]
<1>3. f \in AccountIds /\ proc[r].todo \subseteq AccountIds
  BY <1>1, <1>2, Facts DEF Truth, Way
<1>4. /\ q \in Memory /\ q.pc = "clear" /\ q.from = f /\ q.at = proc[r].at
      /\ q.account = proc[r].account /\ q.whose = proc[r].whose /\ q.todo = proc[r].todo
  BY <1>3, Facts, PcsHold DEF Memory
<1>5. Truth(r, q)
  BY <1>1, <1>3, <1>4, Facts
     DEF Truth, Way, Known, Coded, Target, Planned, Ended, Earned, Timely, InTime, Acting,
         Guests, Linking, Pcs, WorkerOnly
<1>6. SideTypes' /\ HandsOff
  BY <1>1, <1>2, SideTyped DEF SideTypes, HandsOff, Owner, core
<1> QED
  BY <1>1, <1>2, <1>4, <1>5, <1>6, PlainStep

LEMMA ClearStep == ASSUME Inv, NEW r \in Requests, ClearDeparture(r) PROVE Inv'
<1> DEFINE f == proc[r].from
           u == [proc[r] EXCEPT !.todo = @ \ {f}, !.from = None]
<1>1. /\ UNCHANGED <<core, device, score, signedOut, member, sends, history, profile>>
      /\ proc[r].pc = "clear" /\ depart' = depart \ {<<proc[r].whose, f>>}
      /\ Become(r, NextDeparture(r, u))
  BY Facts DEF ClearDeparture, At, core, setting, identity, mail, play, ghosts
<1>2. /\ u \in Memory /\ u.todo \subseteq AccountIds /\ u.at = proc[r].at
      /\ u.account = proc[r].account /\ u.whose = proc[r].whose
  BY <1>1, Facts, ZenonT(60) DEF Memory, Truth, Way
<1>3. Acting(proc[r]) /\ job[r].op \in {"verify", "visit", "delete"}
  BY <1>1, Facts DEF Acting, Guests, Truth, Way
<1> HIDE DEF u
<1>4. NextDeparture(r, u) \in Memory /\ Truth(r, NextDeparture(r, u))
  BY <1>2, <1>3, NextTrue
<1>5. SideTypes' /\ HandsOff
  BY <1>1, SideTyped DEF SideTypes, HandsOff, Owner, core
<1> QED
  BY <1>1, <1>4, <1>5, PlainStep

LEMMA DepartStep == ASSUME Inv, NEW r \in Requests, DepartGroups(r) PROVE Inv'
<1> DEFINE q == [proc[r] EXCEPT !.pc = "drain"]
<1>1. /\ UNCHANGED <<core, device, score, signedOut, depart, sends, history, profile>>
      /\ proc[r].pc = "depart" /\ member' = member \ {proc[r].whose} /\ Become(r, q)
  BY Facts DEF DepartGroups, Goto, At, core, setting, identity, mail, play, jobs, ghosts
<1>2. q \in Memory /\ q.pc = "drain" /\ Alike(q, proc[r])
  BY Facts, Going, PcsHold
<1>3. Truth(r, q)
  BY <1>1, <1>2, Facts
     DEF Alike, Truth, Way, Known, Coded, Target, Planned, Ended, Earned, Timely, InTime,
         Acting, Guests, Linking, Pcs, WorkerOnly
<1>4. SideTypes' /\ HandsOff
  BY <1>1, SideTyped DEF SideTypes, HandsOff, Owner, core
<1> QED
  BY <1>1, <1>2, <1>3, <1>4, PlainStep

(* What is left of a reward under way.                                     *)
LEMMA RewardedTrue ==
    ASSUME Inv, NEW r \in Requests, proc[r].pc = "reward", NEW step, Rewarded(r, step)
    PROVE  \E q \in Memory : Become(r, q) /\ Truth(r, q)
<1>1. CASE Answer(r, "solved")
  <2>1. "solved" \in Answers
    BY DEF Answers
  <2> QED
    BY <1>1, <2>1, IdleTyped, DoneTrue DEF Answer
<1>2. CASE Become(r, [proc[r] EXCEPT !.todo = @ \ {step}])
  <2> DEFINE q == [proc[r] EXCEPT !.todo = @ \ {step}]
  <2>1. /\ q \in Memory /\ q.pc = "reward" /\ q.at = proc[r].at
        /\ q.account = proc[r].account /\ q.whose = proc[r].whose
    BY Facts DEF Memory
  <2>2. Truth(r, q)
    BY <2>1, Facts
       DEF Truth, Way, Known, Coded, Target, Planned, Ended, Earned, Timely, InTime, Acting,
           Guests, Linking, Pcs, WorkerOnly
  <2> QED
    BY <1>2, <2>1, <2>2
<1> QED
  BY <1>1, <1>2 DEF Rewarded

LEMMA SubmitStep == ASSUME Inv, NEW r \in Requests, SubmitScore(r) PROVE Inv'
<1> DEFINE a == proc[r].account
           s == job[r].slot
<1>1. /\ UNCHANGED <<core, device, signedOut, depart, member, sends, history, profile>>
      /\ proc[r].pc = "reward" /\ clock <= proc[r].at + Timeout
      /\ score' = [score EXCEPT ![a][s] = IF @ = None THEN r ELSE @]
  BY Facts DEF SubmitScore, At, core, setting, identity, mail, jobs, ghosts
<1>2. PICK q \in Memory : Become(r, q) /\ Truth(r, q)
  BY <1>1, RewardedTrue DEF SubmitScore
<1>3. Acting(proc[r]) /\ a \in AccountIds /\ s \in Slots /\ Earns(a, s)
  BY <1>1, Facts DEF Acting, Guests, Truth, Known, Earned, Jobs
<1>4. score \in [AccountIds -> [Slots -> Requests \cup {None}]]
  BY SideTyped DEF SideTypes
<1>5. /\ score' \in [AccountIds -> [Slots -> Requests \cup {None}]]
      /\ \A b \in AccountIds, x \in Slots : b # a \/ x # s => score'[b][x] = score[b][x]
      /\ \A b \in AccountIds \ {a} : score'[b] = score[b]
  BY <1>1, <1>3, <1>4
<1>6. SideTypes'
  BY <1>1, <1>5, SideTyped DEF SideTypes, core
<1>7. HandsOff
  BY <1>1, <1>3, <1>5, StillInTime, SMTT(30) DEF HandsOff, Owner, core
<1>8. Accounted' /\ Alone' /\ Erased' /\ NoOrphanAccount'
  BY <1>1 DEF Inv, Stores, core, Accounted, Alone, Erased, NoOrphanAccount, Live, Owner,
      Born, IsDead
<1>9. ScoresFound'
  BY <1>1, <1>3, <1>5 DEF Inv, Stores, core, ScoresFound, Earns
<1> QED
  BY <1>1, <1>2, <1>6, <1>7, <1>8, <1>9, SideStep

LEMMA CreditDayStep == ASSUME Inv, NEW r \in Requests, CreditDay(r) PROVE Inv'
<1> DEFINE a == proc[r].account
<1>1. /\ UNCHANGED <<core, device, score, signedOut, depart, member, sends, profile>>
      /\ proc[r].pc = "reward" /\ clock <= proc[r].at + Timeout
      /\ history' = [history EXCEPT ![a] = @ \cup {job[r].slot}]
  BY Facts DEF CreditDay, At, core, setting, identity, mail, jobs, ghosts
<1>2. PICK q \in Memory : Become(r, q) /\ Truth(r, q)
  BY <1>1, RewardedTrue DEF CreditDay
<1>3. Acting(proc[r]) /\ a \in AccountIds /\ job[r].slot \in Slots
  BY <1>1, Facts DEF Acting, Guests, Truth, Known, Jobs
<1>4. /\ history' \in [AccountIds -> SUBSET Slots]
      /\ \A b \in AccountIds \ {a} : history'[b] = history[b]
  BY <1>1, <1>3, SideTyped DEF SideTypes
<1>5. SideTypes'
  BY <1>1, <1>4, SideTyped DEF SideTypes, core
<1>6. HandsOff
  BY <1>1, <1>3, <1>4, StillInTime DEF HandsOff, Owner, core
<1> QED
  BY <1>1, <1>2, <1>5, <1>6, PlainStep

LEMMA ProfileStep == ASSUME Inv, NEW r \in Requests, SaveProfile(r) PROVE Inv'
<1> DEFINE a == proc[r].account
<1>1. /\ UNCHANGED <<core, device, score, signedOut, depart, member, sends, history>>
      /\ proc[r].pc = "profile" /\ clock <= proc[r].at + Timeout
      /\ profile' = profile \cup {a} /\ Answer(r, "saved")
  BY Facts DEF SaveProfile, At, core, setting, identity, mail, jobs, ghosts
<1>2. Acting(proc[r]) /\ a \in AccountIds /\ "saved" \in Answers
  BY <1>1, Facts DEF Acting, Guests, Truth, Known, Answers
<1>3. Become(r, Done("saved")) /\ Done("saved") \in Memory /\ Truth(r, Done("saved"))
  BY <1>1, <1>2, IdleTyped, DoneTrue DEF Answer
<1>4. SideTypes'
  BY <1>1, <1>2, SideTyped DEF SideTypes, core
<1>5. HandsOff
  BY <1>1, <1>2, StillInTime DEF HandsOff, Owner, core
<1> QED
  BY <1>1, <1>3, <1>4, <1>5, PlainStep

LEMMA JoinStep == ASSUME Inv, NEW r \in Requests, JoinGroup(r) PROVE Inv'
<1> DEFINE a == proc[r].account
<1>1. /\ UNCHANGED <<core, device, score, signedOut, depart, profile, sends, history>>
      /\ proc[r].pc = "join"
      /\ \/ Live(a) /\ member' = member \cup {a} /\ Answer(r, "joined")
         \/ member' = member /\ Answer(r, "gone")
  BY Facts DEF JoinGroup, AccountStands, At, core, setting, identity, mail, play, jobs, ghosts
<1>2. "joined" \in Answers /\ "gone" \in Answers
  BY DEF Answers
<1>3. PICK q \in Memory : Become(r, q) /\ Truth(r, q)
  BY <1>1, <1>2, IdleTyped, DoneTrue DEF Answer
<1>4. SideTypes'
  BY <1>1, SideTyped DEF SideTypes, core, Live
<1>5. HandsOff
  BY <1>1, LiveFacts DEF HandsOff, Owner, core, Live
<1> QED
  BY <1>1, <1>3, <1>4, <1>5, PlainStep

-----------------------------------------------------------------------------
(* The steps that move device items.                                       *)

(* A device item of a token is removed, of an account that lives only as   *)
(* the player signs it out.                                                *)
LEMMA SignOutStep ==
    ASSUME Inv, NEW r \in Requests, NEW q \in Memory, Become(r, q), Truth(r, q),
           UNCHANGED <<core, sends, depart, member, score, history, profile>>,
           NEW t \in Tokens,
           device' = [device EXCEPT ![t] = NoDevice],
           signedOut' \in SUBSET AccountIds, signedOut \subseteq signedOut',
           Owner(t) \in signedOut' \/ ~Live(Owner(t))
    PROVE  Inv'
<1>1. /\ device' \in [Tokens -> DeviceItems] /\ device'[t] = NoDevice
      /\ \A u \in Tokens \ {t} : device'[u] = device[u]
      /\ Owner(t)' = None /\ \A u \in Tokens \ {t} : Owner(u)' = Owner(u)
  BY DEF Inv, Types, ItemTypes, NoDevice, DeviceItems, Owner
<1>2. SideTypes'
  BY <1>1, SideTyped DEF SideTypes
<1>3. HandsOff
  BY <1>1, Named DEF HandsOff, core
<1>4. Accounted' /\ Alone' /\ Erased'
  BY <1>1, Named DEF Inv, Stores, core, Accounted, Alone, Erased, Live, Born, IsDead
<1>5. NoOrphanAccount'
  <2> SUFFICES ASSUME NEW a \in AccountIds, Live(a)
               PROVE  \/ \E u \in Tokens : Owner(u)' = a
                      \/ account[a].email # None
                      \/ a \in signedOut'
    BY DEF NoOrphanAccount, Live, core
  <2>1. \/ \E u \in Tokens : Owner(u) = a
        \/ account[a].email # None
        \/ a \in signedOut
    BY DEF Inv, Stores, NoOrphanAccount
  <2> QED
    BY <1>1, <2>1
<1>6. ScoresFound'
  BY DEF Inv, Stores, core, ScoresFound, Earns
<1> QED
  BY <1>2, <1>3, <1>4, <1>5, <1>6, SideStep

LEMMA RevokeStep == ASSUME Inv, NEW r \in Requests, Revoke(r) PROVE Inv'
<1> DEFINE t == job[r].target
           a == proc[r].account
<1>1. /\ UNCHANGED <<core, sends, depart, member, score, history, profile>>
      /\ proc[r].pc = "remove" /\ Answer(r, "listed")
      /\ \/ /\ Owner(t) = a
            /\ device' = [device EXCEPT ![t] = NoDevice]
            /\ signedOut' = signedOut \cup {a}
         \/ UNCHANGED <<device, signedOut>>
  BY DEF Revoke, At, core, setting, mail, play, jobs
<1>2. t \in Tokens /\ "listed" \in Answers /\ a \in AccountIds
  BY <1>1, Facts DEF Jobs, Answers, Truth, Known, Acting, Guests
<1>3. /\ Become(r, Done("listed")) /\ Done("listed") \in Memory /\ Truth(r, Done("listed"))
      /\ signedOut \in SUBSET AccountIds
  BY <1>1, <1>2, IdleTyped, DoneTrue, SideTyped DEF Answer, SideTypes
<1>4. CASE Owner(t) = a /\ device' = [device EXCEPT ![t] = NoDevice]
            /\ signedOut' = signedOut \cup {a}
  BY <1>1, <1>2, <1>3, <1>4, SignOutStep
<1>5. CASE UNCHANGED <<device, signedOut>>
  <2>1. SideTypes' /\ HandsOff
    BY <1>1, <1>5, SideTyped DEF SideTypes, HandsOff, Owner, core
  <2> QED
    BY <1>1, <1>3, <1>5, <2>1, PlainStep
<1> QED
  BY <1>1, <1>4, <1>5

LEMMA RevokeListedStep == ASSUME Inv, NEW r \in Requests, RevokeListed(r) PROVE Inv'
<1> DEFINE w == proc[r].whose
           q == [proc[r] EXCEPT !.pc = "depart"]
<1>1. /\ UNCHANGED <<core, sends, depart, member, score, history, profile, signedOut>>
      /\ proc[r].pc = "revoke"
  BY DEF RevokeListed, At, core, setting, mail, play, jobs, ghosts
<1>2. /\ proc[r].todo \subseteq Listed /\ w \in AccountIds /\ ~Live(w) /\ r # Worker
      /\ signedOut \in SUBSET AccountIds
  BY <1>1, Facts, SideTyped
     DEF Truth, Way, Ended, Known, Acting, Guests, IsDead, Live, SideTypes
<1>3. CASE Become(r, q) /\ UNCHANGED device
  <2>1. q \in Memory /\ q.pc = "depart" /\ Alike(q, proc[r])
    BY Facts, Going, PcsHold
  <2>2. Truth(r, q)
    BY <1>1, <2>1, Facts
       DEF Alike, Truth, Way, Known, Coded, Target, Planned, Ended, Earned, Timely, InTime,
           Acting, Guests, Linking, Pcs, WorkerOnly
  <2>3. SideTypes' /\ HandsOff
    BY <1>1, <1>3, SideTyped DEF SideTypes, HandsOff, Owner, core
  <2> QED
    BY <1>1, <1>3, <2>1, <2>2, <2>3, PlainStep
<1>4. ASSUME NEW row \in proc[r].todo,
             device' = IF StillHolds(row[1], row[2], w)
                       THEN [device EXCEPT ![row[1]] = NoDevice] ELSE device,
             Become(r, [proc[r] EXCEPT !.todo = @ \ {row}])
      PROVE  Inv'
  <2> DEFINE u == [proc[r] EXCEPT !.todo = @ \ {row}]
  <2>1. /\ u \in Memory /\ u.pc = "revoke" /\ u.at = proc[r].at
        /\ u.account = proc[r].account /\ u.whose = w /\ u.todo = proc[r].todo \ {row}
    BY <1>1, Facts DEF Memory
  <2>2. Truth(r, u)
    BY <1>1, <1>2, <2>1, Facts
       DEF Truth, Way, Known, Coded, Target, Planned, Ended, Earned, Timely, InTime,
           Acting, Guests, Linking, Pcs, WorkerOnly
  <2>3. CASE StillHolds(row[1], row[2], w)
    <3>1. row[1] \in Tokens /\ Owner(row[1]) = w
      BY <1>2, <1>4, <2>3 DEF StillHolds, Listed
    <3> HIDE DEF u
    <3> QED
      BY <1>1, <1>2, <1>4, <2>1, <2>2, <2>3, <3>1, SignOutStep DEF u
  <2>4. CASE ~StillHolds(row[1], row[2], w)
    <3>1. SideTypes' /\ HandsOff
      BY <1>1, <1>4, <2>4, SideTyped DEF SideTypes, HandsOff, Owner, core
    <3> QED
      BY <1>1, <1>4, <2>1, <2>2, <2>4, <3>1, PlainStep
  <2> QED
    BY <2>3, <2>4
<1> QED
  BY <1>2, <1>3, <1>4 DEF RevokeListed, Goto

-----------------------------------------------------------------------------
(* The steps that write accounts, addresses, codes and rounds.             *)

LEMMA Doned ==
    ASSUME NEW r \in Requests, clock' \in Nat, NEW a \in Answers
    PROVE  Truth(r, Done(a))'
BY DEF Done, Idle, Truth, Way, Known, Coded, Target, Planned, Ended, Earned, Timely,
    Acting, Guests, Linking, Pcs, WorkerOnly

(* Who is being purged is dead.                                            *)
LEMMA CleanedDead ==
    ASSUME Inv, NEW a \in AccountIds, Cleaned(a)
    PROVE  IsDead(a) /\ ~Live(a) /\ Born(a)
BY DEF Inv, Cleaned, Purging, Stores, Buried, IsDead, Live, Born

LEMMA CreateStep == ASSUME Inv, NEW r \in Requests, Create(r) PROVE Inv'
<1> DEFINE t == job[r].token
           q == [proc[r] EXCEPT !.pc = "raced"]
<1>1. /\ UNCHANGED <<setting, binding, mail, play, jobs, member, clock, faults, ghosts>>
      /\ proc[r].pc = "create" /\ "signed_in" \in Answers /\ "raced" \in Pcs
  BY PcsHold DEF Create, At, Answers
<1>2. CASE Become(r, q) /\ UNCHANGED <<account, device>>
  <2>1. q \in Memory /\ q.pc = "raced" /\ Alike(q, proc[r])
    BY <1>1, Facts, Going
  <2>2. Truth(r, q)
    BY <1>1, <2>1, Facts
       DEF Alike, Truth, Way, Known, Coded, Target, Planned, Ended, Earned, Timely, Acting,
           Guests, Linking, Pcs, WorkerOnly
  <2>3. UNCHANGED stored /\ faults' = faults
    BY <1>1, <1>2 DEF stored, identity
  <2> QED
    BY <1>2, <2>1, <2>2, <2>3, Facts, QuietStep
<1>3. ASSUME NEW a \in AccountIds, TokenUnchanged(r), account[a].status = "unborn",
             account' = [account EXCEPT ![a].status = "live"],
             device' = [device EXCEPT ![t] = [account |-> a, id |-> a]],
             Answer(r, "signed_in")
      PROVE  Inv'
  <2> USE DEF setting, mail, play, jobs, ghosts
  <2>1. Become(r, Done("signed_in")) /\ Done("signed_in") \in Memory
    BY <1>1, <1>3, IdleTyped DEF Answer
  <2>2. /\ proc' \in [Procs -> Memory]
        /\ \A x \in Procs \ {r} : proc'[x] = proc[x]
        /\ proc'[r] = Done("signed_in") /\ proc'[Worker] = proc[Worker]
    BY <2>1, Moved, Named DEF Inv, Types, RunTypes
  <2>3. /\ account \in [AccountIds -> AccountItems] /\ device \in [Tokens -> DeviceItems]
        /\ t \in Tokens /\ account[a].email = None /\ clock' \in Nat
    BY <1>1, <1>3, Facts DEF Inv, Types, ItemTypes, Stores, Accounted
  <2>4. /\ account' \in [AccountIds -> AccountItems] /\ device' \in [Tokens -> DeviceItems]
        /\ account'[a] = [status |-> "live", email |-> None]
        /\ \A x \in AccountIds \ {a} : account'[x] = account[x]
        /\ Owner(t)' = a
        /\ \A u \in Tokens \ {t} : device'[u] = device[u] /\ Owner(u)' = Owner(u)
    <3>1. [account |-> a, id |-> a] \in DeviceItems
      BY DEF DeviceItems
    <3>2. device' \in [Tokens -> DeviceItems] /\ device'[t] = [account |-> a, id |-> a]
      BY <1>3, <2>3, <3>1
    <3>3. \A u \in Tokens \ {t} : device'[u] = device[u]
      BY <1>3, <2>3
    <3>4. Owner(t)' = a /\ \A u \in Tokens \ {t} : Owner(u)' = Owner(u)
      BY <1>1, <3>2, <3>3 DEF Owner
    <3>5. [account[a] EXCEPT !.status = "live"] = [status |-> "live", email |-> None]
      BY <2>3 DEF AccountItems
    <3>6. [status |-> "live", email |-> None] \in AccountItems
      BY DEF AccountItems
    <3>7. account' = [account EXCEPT ![a] = [status |-> "live", email |-> None]]
      BY <1>3, <2>3, <3>5
    <3> QED
      BY <2>3, <3>2, <3>3, <3>4, <3>6, <3>7
  <2>5. /\ ~Live(a) /\ ~Live(a) /\ ~IsDead(a) /\ ~Born(a) /\ ~Live(Owner(t))
        /\ \A u \in Tokens : Owner(u) # a
        /\ \A e \in Emails : binding[e] # a
    <3>1. ~Live(a) /\ ~IsDead(a) /\ ~Born(a)
      BY <1>3 DEF Live, IsDead, Born
    <3>2. ~Live(Owner(t))
      BY <1>1, <1>3, Facts, Named DEF TokenUnchanged, Truth, Known, Live, IsDead
    <3> QED
      BY <3>1, <3>2, Named DEF Inv, Stores, Accounted, AddressesAgree
  <2>6. Types'
    BY <1>1, <2>2, <2>4 DEF Inv, Types, ItemTypes, PlayTypes, JobTypes, GhostTypes, RunTypes
  <2>7. Stores'
    <3>1. Accounted'
      <4>1. \A u \in Tokens : Owner(u) \in AccountIds \cup {None}
        BY <2>3 DEF Owner, DeviceItems
      <4> QED
        BY <1>1, <2>4, <2>5, <4>1 DEF Inv, Stores, Accounted, Born
    <3>6. Alone'
      BY <1>1, <2>4, <2>5 DEF Inv, Stores, Alone, Live
    <3>7. Erased'
      BY <1>1, <2>4, <2>5 DEF Inv, Stores, Erased, IsDead
    <3>2. NoOrphanAccount'
      BY <1>1, <2>3, <2>4, <2>5 DEF Inv, Stores, NoOrphanAccount, Live
    <3>3. AddressesAgree'
      BY <1>1, <2>4, <2>5, Named DEF Inv, Stores, AddressesAgree, Live
    <3>4. Buried'
      BY <1>1, <2>4, <2>5 DEF Inv, Stores, Buried, IsDead
    <3>5. CodesAgree' /\ ScoresFound'
      BY <1>1 DEF Inv, Stores, CodesAgree, ScoresFound, Earns
    <3> QED
      BY <3>1, <3>2, <3>3, <3>4, <3>5, <3>6, <3>7 DEF Stores
  <2>8. Onward
    <3>1. clock <= clock /\ \A e \in Emails : Len(codes[e]) <= Len(codes[e])
      BY Facts DEF Inv, Types, ItemTypes
    <3>2. \A x : Cleaned(x)' <=> Cleaned(x)
      BY <1>1, <2>2 DEF Cleaned
    <3>3. ASSUME NEW x \in AccountIds
          PROVE  (Born(x) => Born(x)') /\ (IsDead(x) => IsDead(x)') /\ (IsSaved(x) => IsSaved(x)')
      BY <2>3, <2>4, <2>5 DEF Born, IsDead, IsSaved
    <3>4. \A x, s : Earns(x, s) => Earns(x, s)'
      BY <1>1 DEF Earns
    <3> QED
      BY <1>1, <3>1, <3>2, <3>3, <3>4 DEF Onward
  <2>9. HandsOff
    BY <1>1, <2>4, <2>5, CleanedDead DEF HandsOff
  <2>10. Truth(r, proc[r])'
    BY <1>1, <2>2, <2>3, Doned
  <2> QED
    BY <1>1, <2>2, <2>6, <2>7, <2>8, <2>9, <2>10, RequestStep
<1> QED
  BY <1>2, <1>3 DEF Create, Goto

LEMMA PutChallengeStep == ASSUME Inv, NEW r \in Requests, PutChallenge(r) PROVE Inv'
<1> USE DEF setting, identity, play, jobs, ghosts
<1> DEFINE e == job[r].email
           n == Len(codes[e]) + 1
           code == [code |-> n, wrong |-> 0, expires |-> proc[r].at + CodeTtl]
<1>1. /\ UNCHANGED <<setting, identity, sends, play, jobs, member, clock, faults, ghosts>>
      /\ codes' = [codes EXCEPT ![e] = Append(codes[e], Sending(r))]
      /\ challenge' = [challenge EXCEPT ![e] = code]
      /\ Become(r, Done("sent")) /\ "sent" \in Answers
  BY DEF PutChallenge, Answer, Answers
<1>2. /\ e \in Emails /\ codes[e] \in Seq(SendItems) /\ n \in Nat
      /\ Sending(r) \in SendItems /\ code \in CodeItems /\ clock' \in Nat
  <2>1. e \in Emails /\ codes[e] \in Seq(SendItems) /\ n \in Nat /\ clock' \in Nat
    BY <1>1, Facts DEF Inv, Types, ItemTypes
  <2>2. Sending(r) \in SendItems /\ proc[r].at + CodeTtl \in Nat
    BY Facts, CodeAssumption, SettleAssumption DEF Sending, SendItems, Memory
  <2>3. code \in CodeItems
    BY <2>1, <2>2 DEF CodeItems
  <2> QED
    BY <2>1, <2>2, <2>3
<1>3. /\ proc' \in [Procs -> Memory] /\ proc'[Worker] = proc[Worker]
      /\ \A x \in Procs \ {r} : proc'[x] = proc[x]
      /\ proc'[r] = Done("sent")
  BY <1>1, IdleTyped, Moved, Named DEF Inv, Types, RunTypes
<1> HIDE DEF code
<1>4. /\ codes' \in [Emails -> Seq(SendItems)] /\ challenge' \in [Emails -> CodeItems]
      /\ Len(codes'[e]) = n /\ challenge'[e] = code
      /\ \A x \in Emails \ {e} : codes'[x] = codes[x] /\ challenge'[x] = challenge[x]
  BY <1>1, <1>2 DEF Inv, Types, ItemTypes
<1>5. Types'
  BY <1>1, <1>3, <1>4 DEF Inv, Types, ItemTypes, PlayTypes, JobTypes, GhostTypes, RunTypes
<1>6. Stores'
  <2>1. Accounted' /\ AddressesAgree' /\ Alone' /\ Erased' /\ NoOrphanAccount'
    BY <1>1 DEF Inv, Stores, Accounted, AddressesAgree, Alone, Erased, NoOrphanAccount, Live,
           Owner, Born, IsDead
  <2>2. ScoresFound' /\ Buried'
    BY <1>1 DEF Inv, Stores, ScoresFound, Earns, Buried, IsDead
  <2>3. ASSUME NEW x \in Emails
        PROVE  /\ challenge'[x].code \in {0, Len(codes'[x])}
               /\ \A i \in 1..Len(granted[x]) :
                    /\ granted[x][i][1] = granted[x][i][2]
                    /\ granted[x][i][1] <= Len(codes'[x])
                    /\ challenge'[x].code # 0 => granted[x][i][1] < challenge'[x].code
               /\ \A i, j \in 1..Len(granted[x]) : i < j => granted[x][i][1] < granted[x][j][1]
    <3>1. CASE x # e
      BY <1>4, <3>1 DEF Inv, Stores, CodesAgree
    <3>2. CASE x = e
      <4>1. granted[x] \in Seq(Nat \X Nat)
        BY DEF Inv, Types, GhostTypes
      <4>2. \A i \in 1..Len(granted[x]) :
                /\ granted[x][i][1] = granted[x][i][2] /\ granted[x][i][1] \in Nat
                /\ granted[x][i][1] <= Len(codes[x])
        BY <4>1 DEF Inv, Stores, CodesAgree
      <4>3. challenge'[x].code = Len(codes[x]) + 1 /\ Len(codes[x]) \in Nat
        BY <1>2, <1>4, <3>2 DEF code
      <4>4. Len(codes'[x]) = Len(codes[x]) + 1
        BY <1>4, <3>2
      <4>5. \A i, j \in 1..Len(granted[x]) : i < j => granted[x][i][1] < granted[x][j][1]
        BY DEF Inv, Stores, CodesAgree
      <4> QED
        BY <4>2, <4>3, <4>4, <4>5
    <3> QED
      BY <3>1, <3>2
  <2>4. CodesAgree'
    BY <1>1, <2>3 DEF CodesAgree
  <2> QED
    BY <2>1, <2>2, <2>4 DEF Stores
<1>7. Onward
  <2>1. \A x : Cleaned(x)' <=> Cleaned(x)
    BY <1>1, <1>3 DEF Cleaned
  <2>2. ASSUME NEW x \in Emails
        PROVE  /\ Len(codes[x]) <= Len(codes'[x])
               /\ \A c \in 1..Len(codes[x]) : challenge'[x].code = c => challenge[x].code = c
    <3>1. Len(codes[x]) \in Nat
      BY DEF Inv, Types, ItemTypes
    <3> QED
      BY <1>2, <1>4, <3>1, SMTT(30) DEF code
  <2>3. clock <= clock
    BY Facts
  <2> QED
    BY <1>1, <2>1, <2>2, <2>3 DEF Onward, Born, IsDead, IsSaved, Earns
<1>8. HandsOff
  BY <1>1 DEF HandsOff, Owner
<1>9. Truth(r, proc[r])'
  BY <1>1, <1>2, <1>3, Doned
<1> QED
  BY <1>1, <1>3, <1>5, <1>6, <1>7, <1>8, <1>9, RequestStep

LEMMA VerifyStep == ASSUME Inv, NEW r \in Requests, Verify(r) PROVE Inv'
<1> USE DEF setting, identity, play, jobs, ghosts
<1> DEFINE e == job[r].email
           q == [proc[r] EXCEPT !.pc = "judge"]
           held == challenge[e]
           code == [held EXCEPT !.wrong = held.wrong + 1]
<1>1. /\ UNCHANGED <<setting, identity, codes, sends, play, jobs, member, clock, faults, ghosts>>
      /\ proc[r].pc = "verify" /\ proc[r].todo = {} /\ "bad_code" \in Answers
  BY Facts DEF Verify, At, Answers, Truth, Way, Linking
<1>2. CASE Become(r, q) /\ UNCHANGED challenge
  <2>1. /\ q \in Memory /\ q.pc = "judge" /\ q.at = proc[r].at /\ q.todo = {}
        /\ q.account = proc[r].account /\ q.whose = proc[r].whose
    BY <1>1, Facts, Going, PcsHold DEF Alike
  <2>2. Coded(r, q) /\ Target(q) /\ Planned(q)
    BY <2>1 DEF Coded, Target, Planned
  <2>3. UNCHANGED stored /\ faults' = faults
    BY <1>1, <1>2 DEF stored, mail
  <2> QED
    BY <1>1, <1>2, <2>1, <2>2, <2>3, LinkStep DEF Linking
<1>3. CASE /\ challenge' = [challenge EXCEPT ![e].wrong = @ + 1] /\ Answer(r, "bad_code")
  <2>1. held \in CodeItems /\ e \in Emails /\ challenge \in [Emails -> CodeItems]
    BY Facts DEF Inv, Types, ItemTypes
  <2>2. code \in CodeItems /\ code.code = held.code
    BY <2>1 DEF CodeItems
  <2>3. challenge' = [challenge EXCEPT ![e] = code]
    BY <1>3, <2>1 DEF CodeItems
  <2>4. /\ challenge' \in [Emails -> CodeItems]
        /\ \A x \in Emails : challenge'[x].code = challenge[x].code
    <3> HIDE DEF code
    <3> QED
      BY <2>1, <2>2, <2>3
  <2>5. Become(r, Done("bad_code"))
    BY <1>3 DEF Answer
  <2>6. /\ proc' \in [Procs -> Memory] /\ proc'[Worker] = proc[Worker]
        /\ \A x \in Procs \ {r} : proc'[x] = proc[x]
        /\ proc'[r] = Done("bad_code")
    BY <1>1, <2>5, IdleTyped, Moved, Named DEF Inv, Types, RunTypes
  <2>7. Types'
    BY <1>1, <2>4, <2>6 DEF Inv, Types, ItemTypes, PlayTypes, JobTypes, GhostTypes, RunTypes
  <2>8. Stores'
    <3>1. Accounted' /\ AddressesAgree' /\ Alone' /\ Erased' /\ NoOrphanAccount'
      BY <1>1 DEF Inv, Stores, Accounted, AddressesAgree, Alone, Erased, NoOrphanAccount,
             Live, Owner, Born, IsDead
    <3>2. CodesAgree' /\ ScoresFound' /\ Buried'
      BY <1>1, <2>4 DEF Inv, Stores, CodesAgree, ScoresFound, Earns, Buried, IsDead
    <3> QED
      BY <3>1, <3>2 DEF Stores
  <2>9. Onward
    <3>1. \A x : Cleaned(x)' <=> Cleaned(x)
      BY <1>1, <2>6 DEF Cleaned
    <3>2. clock <= clock /\ \A x \in Emails : Len(codes[x]) <= Len(codes[x])
      BY Facts DEF Inv, Types, ItemTypes
    <3> QED
      BY <1>1, <2>4, <3>1, <3>2 DEF Onward, Born, IsDead, IsSaved, Earns
  <2>10. HandsOff
    BY <1>1 DEF HandsOff, Owner
  <2>11. Truth(r, proc[r])'
    BY <1>1, <2>6, Facts, Doned
  <2> QED
    BY <1>1, <2>6, <2>7, <2>8, <2>9, <2>10, <2>11, RequestStep
<1> QED
  BY <1>2, <1>3 DEF Verify, Goto

(* One more grant, of a code newer than all before it.                     *)
LEMMA Granting ==
    ASSUME NEW old \in Seq(Nat \X Nat), NEW c \in Nat,
           \A i \in 1..Len(old) : old[i][1] = old[i][2] /\ old[i][1] < c,
           \A i, j \in 1..Len(old) : i < j => old[i][1] < old[j][1]
    PROVE  /\ Append(old, <<c, c>>) \in Seq(Nat \X Nat)
           /\ \A i \in 1..Len(Append(old, <<c, c>>)) :
                /\ Append(old, <<c, c>>)[i][1] = Append(old, <<c, c>>)[i][2]
                /\ Append(old, <<c, c>>)[i][1] <= c
           /\ \A i, j \in 1..Len(Append(old, <<c, c>>)) :
                i < j => Append(old, <<c, c>>)[i][1] < Append(old, <<c, c>>)[j][1]
<1> DEFINE new == Append(old, <<c, c>>)
           m == Len(old)
<1>1. m \in Nat /\ new \in Seq(Nat \X Nat) /\ Len(new) = m + 1
  OBVIOUS
<1>2. ASSUME NEW i \in 1..m PROVE new[i] = old[i] /\ old[i] \in Nat \X Nat
  OBVIOUS
<1>3. new[m + 1] = <<c, c>> /\ <<c, c>>[1] = c /\ <<c, c>>[2] = c
  OBVIOUS
<1>7. \A i \in 1..m : old[i][1] \in Nat
  BY <1>2
<1> HIDE DEF new
<1>4. ASSUME NEW i \in 1..Len(new) PROVE i \in 1..m \/ i = m + 1
  BY <1>1
<1> HIDE DEF m
<1>5. ASSUME NEW i \in 1..Len(new) PROVE new[i][1] = new[i][2] /\ new[i][1] <= c
  <2>1. CASE i \in 1..m
    BY <1>2, <1>7, <2>1, SMTT(30) DEF m
  <2>2. CASE i = m + 1
    BY <1>3, <2>2 DEF m
  <2> QED
    BY <1>4, <2>1, <2>2
<1>6. ASSUME NEW i \in 1..Len(new), NEW j \in 1..Len(new), i < j PROVE new[i][1] < new[j][1]
  <2>1. i \in 1..m
    BY <1>1, <1>4, <1>6
  <2>2. CASE j \in 1..m
    BY <1>2, <1>6, <2>1, <2>2 DEF m
  <2>3. CASE j = m + 1
    BY <1>2, <1>3, <2>1, <2>3 DEF m
  <2> QED
    BY <1>4, <2>2, <2>3
<1> QED
  BY <1>1, <1>5, <1>6 DEF new

(* A code that may be consumed is the latest of its address, and newer     *)
(* than all that were.                                                     *)
LEMMA ConsumeStep ==
    ASSUME Inv, NEW r \in Requests, Consume(r), MayConsume(r), codes' = codes,
           job[r].code \in 1..Len(codes[job[r].email])
    PROVE  /\ challenge' \in [Emails -> CodeItems] /\ granted' \in [Emails -> Seq(Nat \X Nat)]
           /\ CodesAgree'
           /\ challenge'[job[r].email].code = 0
           /\ \A x \in Emails \ {job[r].email} : challenge'[x] = challenge[x]
<1> DEFINE e == job[r].email
           c == job[r].code
           n == Len(codes[e])
           old == granted[e]
<1>1. /\ e \in Emails /\ n \in Nat /\ c \in Nat /\ c = n /\ c # 0 /\ challenge[e].code = c
      /\ challenge \in [Emails -> CodeItems] /\ granted \in [Emails -> Seq(Nat \X Nat)]
      /\ old \in Seq(Nat \X Nat)
  <2>1. /\ e \in Emails /\ challenge \in [Emails -> CodeItems]
        /\ granted \in [Emails -> Seq(Nat \X Nat)] /\ n \in Nat
    BY Facts DEF Inv, Types, ItemTypes, GhostTypes
  <2>2. challenge[e].code = c /\ challenge[e].code \in {0, n}
    BY <2>1 DEF MayConsume, Held, Inv, Stores, CodesAgree
  <2> QED
    BY <2>1, <2>2
<1>2. /\ challenge' \in [Emails -> CodeItems] /\ challenge'[e] = NoCode /\ NoCode.code = 0
      /\ \A x \in Emails \ {e} : challenge'[x] = challenge[x]
  BY <1>1 DEF Consume, NoCode, CodeItems
<1>3. /\ granted' \in [Emails -> Seq(Nat \X Nat)]
      /\ granted'[e] = Append(old, <<c, n>>)
      /\ \A x \in Emails \ {e} : granted'[x] = granted[x]
  <2>1. Append(old, <<c, n>>) \in Seq(Nat \X Nat)
    BY <1>1
  <2>2. granted' = [granted EXCEPT ![e] = Append(old, <<c, n>>)]
    BY DEF Consume
  <2> QED
    BY <1>1, <2>1, <2>2
<1>6. CodesAgree /\ \A x \in Emails : Len(codes[x]) \in Nat
  BY DEF Inv, Stores, Types, ItemTypes
<1>7. /\ \A i \in 1..Len(old) : old[i][1] = old[i][2] /\ old[i][1] < c
      /\ \A i, j \in 1..Len(old) : i < j => old[i][1] < old[j][1]
  BY <1>1, <1>6 DEF CodesAgree
<1>4. ASSUME NEW x \in Emails
      PROVE  /\ challenge'[x].code \in {0, Len(codes[x])}
             /\ \A i \in 1..Len(granted'[x]) :
                  /\ granted'[x][i][1] = granted'[x][i][2]
                  /\ granted'[x][i][1] <= Len(codes[x])
                  /\ challenge'[x].code # 0 => granted'[x][i][1] < challenge'[x].code
             /\ \A i, j \in 1..Len(granted'[x]) :
                  i < j => granted'[x][i][1] < granted'[x][j][1]
  <2>1. CASE x # e
    <3>1. challenge'[x] = challenge[x] /\ granted'[x] = granted[x]
      BY <1>2, <1>3, <2>1
    <3> QED
      BY <1>6, <3>1 DEF CodesAgree
  <2>2. CASE x = e
    <3> DEFINE new == Append(old, <<c, c>>)
    <3>1. granted'[x] = new /\ challenge'[x].code = 0
      BY <1>1, <1>2, <1>3, <2>2
    <3>2. /\ \A i \in 1..Len(new) : new[i][1] = new[i][2] /\ new[i][1] <= c
          /\ \A i, j \in 1..Len(new) : i < j => new[i][1] < new[j][1]
      <4> HIDE DEF old, c
      <4> QED
        BY <1>1, <1>7, Granting
    <3> HIDE DEF new, old
    <3> QED
      BY <1>1, <2>2, <3>1, <3>2
  <2> QED
    BY <2>1, <2>2
<1>5. CodesAgree'
  BY <1>4 DEF CodesAgree
<1> QED
  BY <1>2, <1>3, <1>5

LEMMA BindStep == ASSUME Inv, NEW r \in Requests, Bind(r) PROVE Inv'
<1> USE DEF setting, play, jobs
<1> DEFINE e == job[r].email
           a == proc[r].account
<1>1. /\ UNCHANGED <<setting, device, codes, sends, play, jobs, member, clock, faults,
                     purged, heir, signedOut>>
      /\ proc[r].pc = "bind" /\ {"bound", "code_spent", "account_linked", "unknown_device"} \subseteq Answers
      /\ a \in AccountIds /\ e \in Emails /\ job[r].code \in 1..Len(codes[e])
  BY Facts DEF Bind, At, Answers, Truth, Known, Acting, Guests, Coded
<1>2. ASSUME NEW x \in Answers, Answer(r, x), UNCHANGED <<account, binding, challenge, granted>>
      PROVE  Inv'
  BY <1>1, <1>2, AnswerStep DEF stored, identity, mail, ghosts
<1>3. CASE /\ MayConsume(r) /\ binding[e] = None /\ MayBind(r)
           /\ binding' = [binding EXCEPT ![e] = a]
           /\ account' = [account EXCEPT ![a].email = e]
           /\ Consume(r)
           /\ Answer(r, "bound")
  <2>1. Become(r, Done("bound"))
    BY <1>3 DEF Answer
  <2>2. /\ proc' \in [Procs -> Memory] /\ proc'[Worker] = proc[Worker]
        /\ \A x \in Procs \ {r} : proc'[x] = proc[x]
        /\ proc'[r] = Done("bound")
    BY <1>1, <2>1, IdleTyped, Moved, Named DEF Inv, Types, RunTypes
  <2>3. /\ challenge' \in [Emails -> CodeItems] /\ granted' \in [Emails -> Seq(Nat \X Nat)]
        /\ CodesAgree' /\ challenge'[e].code = 0
        /\ \A x \in Emails \ {e} : challenge'[x] = challenge[x]
    BY <1>1, <1>3, ConsumeStep
  <2>4. /\ account \in [AccountIds -> AccountItems]
        /\ binding \in [Emails -> AccountIds \cup {None}]
        /\ Live(a) /\ account[a].email = None /\ account[a].status = "live"
    BY <1>1, <1>3, Named DEF MayBind, Inv, Types, ItemTypes, Stores, AddressesAgree, Live
  <2>5. /\ account' \in [AccountIds -> AccountItems]
        /\ account'[a] = [status |-> "live", email |-> e]
        /\ \A x \in AccountIds \ {a} : account'[x] = account[x]
        /\ \A x \in AccountIds : account'[x].status = account[x].status
    <3>1. [account[a] EXCEPT !.email = e] = [status |-> "live", email |-> e]
      BY <1>1, <2>4 DEF AccountItems
    <3>2. [status |-> "live", email |-> e] \in AccountItems
      BY <1>1 DEF AccountItems
    <3>3. account' = [account EXCEPT ![a] = [status |-> "live", email |-> e]]
      BY <1>3, <2>4, <3>1
    <3> QED
      BY <1>1, <2>4, <3>2, <3>3
  <2>6. /\ binding' \in [Emails -> AccountIds \cup {None}] /\ binding'[e] = a
        /\ \A x \in Emails \ {e} : binding'[x] = binding[x]
    BY <1>1, <1>3, <2>4
  <2>7. Types'
    BY <1>1, <2>2, <2>3, <2>5, <2>6
       DEF Inv, Types, ItemTypes, PlayTypes, JobTypes, GhostTypes, RunTypes
  <2>8. /\ \A x \in AccountIds : Live(x)' <=> Live(x)
        /\ \A t : Owner(t)' = Owner(t)
        /\ \A x \in AccountIds : IsDead(x)' <=> IsDead(x)
        /\ \A x \in AccountIds : Born(x)' <=> Born(x)
        /\ \A x \in AccountIds : account[x].email # None => account'[x].email # None
    BY <1>1, <2>4, <2>5 DEF Live, Owner, IsDead, Born
  <2>9. Stores'
    <3>1. Accounted'
      <4>1. \A t \in Tokens : Owner(t) \in AccountIds \cup {None}
        BY DEF Owner, DeviceItems, Inv, Types, ItemTypes
      <4> QED
        BY <2>4, <2>5, <2>8, <4>1 DEF Inv, Stores, Accounted
    <3>2. AddressesAgree'
      BY <1>1, <1>3, <2>4, <2>5, <2>6, <2>8, Named DEF Inv, Stores, AddressesAgree
    <3>3. Alone'
      BY <1>1, <2>4, <2>8 DEF Inv, Stores, Alone, Live
    <3>4. Erased' /\ NoOrphanAccount'
      BY <1>1, <2>8 DEF Inv, Stores, Erased, NoOrphanAccount
    <3>5. ScoresFound' /\ Buried'
      BY <1>1, <2>8 DEF Inv, Stores, ScoresFound, Earns, Buried
    <3> QED
      BY <2>3, <3>1, <3>2, <3>3, <3>4, <3>5 DEF Stores
  <2>10. Onward
    <3>1. \A x : Cleaned(x)' <=> Cleaned(x)
      BY <1>1, <2>2 DEF Cleaned
    <3>2. clock <= clock /\ \A x \in Emails : Len(codes[x]) <= Len(codes[x])
      BY Facts DEF Inv, Types, ItemTypes
    <3>3. \A x \in Emails : \A c \in 1..Len(codes[x]) :
            binding'[x] # None /\ challenge'[x].code = c =>
                binding[x] # None /\ challenge[x].code = c
      <4>1. ASSUME NEW x \in Emails, NEW c \in 1..Len(codes[x]), challenge'[x].code = c
            PROVE  x # e
        <5>1. Len(codes[x]) \in Nat
          BY DEF Inv, Types, ItemTypes
        <5> QED
          BY <2>3, <4>1, <5>1
      <4> QED
        BY <2>3, <2>6, <4>1
    <3> QED
      BY <1>1, <2>8, <3>1, <3>2, <3>3 DEF Onward, IsSaved, Earns
  <2>11. HandsOff
    BY <1>1 DEF HandsOff, Owner
  <2>12. Truth(r, proc[r])'
    BY <1>1, <2>2, Facts, Doned
  <2> QED
    BY <1>1, <2>2, <2>7, <2>9, <2>10, <2>11, <2>12, RequestStep
<1> QED
  BY <1>1, <1>2, <1>3 DEF Bind

LEMMA RefuseStep ==
    ASSUME Inv, NEW r \in Requests, proc[r].pc = "adopt", RefuseAdoption(r),
           UNCHANGED <<setting, binding, codes, sends, history, member, clock, faults,
                       purged, signedOut>>
    PROVE  Inv'
<1> DEFINE q == [proc[r] EXCEPT !.pc = "credit", !.seen = <<>>]
           n == proc[r].tries + 1
           u == [proc[r] EXCEPT !.pc = "plan", !.seen = <<>>, !.tries = n]
<1>1. UNCHANGED stored /\ faults' = faults /\ n \in Nat /\ proc[r].todo = {}
  BY Facts DEF RefuseAdoption, stored, identity, mail, play, jobs, ghosts, Truth, Way,
      Linking, Memory
<1>2. CASE Answer(r, "code_spent") \/ Answer(r, "link_changed") \/ Answer(r, "failed")
  BY <1>1, <1>2, AnswerStep DEF Answers
<1>3. CASE Become(r, q)
  <2>1. /\ q \in Memory /\ q.pc = "credit" /\ q.at = proc[r].at /\ q.todo = {}
        /\ q.account = proc[r].account /\ q.whose = proc[r].whose
    BY <1>1, Facts, PcsHold, ViewsHold, ZenonT(60) DEF Memory
  <2>2. Truth(r, q)
    BY <2>1, Facts
       DEF Truth, Way, Known, Coded, Target, Planned, Ended, Earned, Timely, InTime, Acting,
           Guests, Linking, Pcs, WorkerOnly
  <2> QED
    BY <1>1, <1>3, <2>1, <2>2, Facts, QuietStep
<1>4. CASE Become(r, u)
  <2>1. /\ u \in Memory /\ u.pc = "plan" /\ u.at = proc[r].at /\ u.todo = {}
        /\ u.account = proc[r].account /\ u.whose = proc[r].whose
    <3> HIDE DEF n
    <3> QED
      BY <1>1, Facts, PcsHold, ViewsHold, ZenonT(60) DEF Memory
  <2>2. Coded(r, u) /\ Target(u) /\ Planned(u)
    BY <2>1, Facts DEF Truth, Coded, Target, Planned
  <2> QED
    BY <1>1, <1>4, <2>1, <2>2, LinkStep DEF Linking
<1>5. [proc[r] EXCEPT !.pc = "plan", !.seen = <<>>, !.tries = @ + 1] = u
  BY Facts DEF Memory
<1> QED
  BY <1>2, <1>3, <1>4, <1>5 DEF RefuseAdoption

(* What is known when a switch commits.                                    *)
LEMMA Switching ==
    ASSUME Inv, NEW r \in Requests, At(r, "adopt"), CommitAdoption(r),
           codes' = codes
    PROVE  /\ From(r) \in AccountIds /\ To(r) \in AccountIds /\ From(r) # To(r)
           /\ Live(From(r)) /\ Live(To(r)) /\ account[To(r)].email # None
           /\ Owner(job[r].token) = From(r)
           /\ Erases(r) <=> account[From(r)].email = None
           /\ proc[r].seen \in Plans
           /\ clock <= proc[r].at + Timeout /\ proc[r].at <= clock
           /\ challenge' \in [Emails -> CodeItems] /\ granted' \in [Emails -> Seq(Nat \X Nat)]
           /\ CodesAgree'
           /\ challenge'[job[r].email].code = 0
           /\ \A x \in Emails \ {job[r].email} : challenge'[x] = challenge[x]
<1>1. /\ From(r) \in AccountIds /\ To(r) \in AccountIds /\ From(r) # To(r)
      /\ job[r].code \in 1..Len(codes[job[r].email]) /\ proc[r].seen \in Plans
      /\ clock <= proc[r].at + Timeout /\ proc[r].at <= clock /\ IsSaved(To(r))
  BY Facts DEF At, From, To, Truth, Known, Acting, Guests, Target, Coded, Way
<1>2. /\ Live(From(r)) /\ Live(To(r)) /\ Owner(job[r].token) = From(r)
      /\ Erases(r) <=> account[From(r)].email = None
      /\ MayConsume(r) /\ Consume(r)
  BY DEF CommitAdoption, SourceStands, DeviceStands
<1>3. account[To(r)].email # None
  BY <1>1, <1>2 DEF IsSaved, IsDead, Live
<1> QED
  BY <1>1, <1>2, <1>3, ConsumeStep

(* The device of a switch is the adopter's.                                *)
LEMMA DeviceMoves ==
    ASSUME Inv, NEW t \in Tokens, NEW w \in AccountIds,
           device' = [device EXCEPT ![t].account = w], job' = job
    PROVE  /\ device' \in [Tokens -> DeviceItems]
           /\ Owner(t)' = w
           /\ \A u \in Tokens \ {t} : device'[u] = device[u] /\ Owner(u)' = Owner(u)
<1>1. device \in [Tokens -> DeviceItems]
  BY DEF Inv, Types, ItemTypes
<1>2. device' \in [Tokens -> DeviceItems]
  BY <1>1 DEF DeviceItems
<1>3. device'[t].account = w
  BY <1>1 DEF DeviceItems
<1>4. \A u \in Tokens \ {t} : device'[u] = device[u]
  BY <1>1
<1> QED
  BY <1>2, <1>3, <1>4 DEF Owner

(* What a switch keeps in memory.                                          *)
LEMMA Switched ==
    ASSUME Inv, NEW r \in Requests, At(r, "adopt"), CommitAdoption(r)
    PROVE  /\ proc' \in [Procs -> Memory] /\ proc'[Worker] = proc[Worker]
           /\ \A x \in Procs \ {r} : proc'[x] = proc[x]
           /\ proc'[r].pc = "credit" /\ proc'[r].at = proc[r].at
           /\ proc'[r].account = From(r) /\ proc'[r].whose = To(r)
           /\ proc'[r].todo \subseteq Slots
<1> DEFINE S == {s \in Slots : RoundMoves(r, s) /\ proc[r].seen.from[s].solved}
           q == [proc[r] EXCEPT !.pc = "credit", !.seen = <<>>, !.todo = S]
<1>1. S \subseteq Slots /\ Become(r, q)
  BY DEF CommitAdoption
<1> HIDE DEF S
<1>2. /\ q \in Memory /\ q.pc = "credit" /\ q.at = proc[r].at /\ q.todo = S
      /\ q.account = proc[r].account /\ q.whose = proc[r].whose
  BY <1>1, Facts, PcsHold, ViewsHold DEF Memory
<1> HIDE DEF q
<1> QED
  BY <1>1, <1>2, Facts, Moved, Named DEF Inv, Types, RunTypes, From, To

(* A saved account is left behind: only the device moves.                  *)
LEMMA LeftBehindStep ==
    ASSUME Inv, NEW r \in Requests, At(r, "adopt"), CommitAdoption(r), ~Erases(r),
           UNCHANGED <<setting, binding, codes, sends, history, member, clock, faults,
                       purged, signedOut>>
    PROVE  Inv'
<1> USE DEF setting
<1> DEFINE t == job[r].token
           f == From(r)
           w == To(r)
           e == job[r].email
<1>1. UNCHANGED <<job, horizon, account, profile, purge, depart, round, score, heir>>
  BY DEF CommitAdoption
<1>2. /\ f \in AccountIds /\ w \in AccountIds /\ f # w /\ Live(f) /\ Live(w)
      /\ account[w].email # None /\ account[f].email # None /\ Owner(t) = f
      /\ challenge' \in [Emails -> CodeItems] /\ granted' \in [Emails -> Seq(Nat \X Nat)]
      /\ CodesAgree' /\ challenge'[e].code = 0
      /\ \A x \in Emails \ {e} : challenge'[x] = challenge[x]
  BY Switching
<1>3. /\ proc' \in [Procs -> Memory] /\ proc'[Worker] = proc[Worker]
      /\ \A x \in Procs \ {r} : proc'[x] = proc[x]
      /\ proc'[r].pc = "credit" /\ proc'[r].at = proc[r].at
      /\ proc'[r].account = f /\ proc'[r].whose = w /\ proc'[r].todo \subseteq Slots
  BY Switched
<1>4. /\ t \in Tokens /\ device' \in [Tokens -> DeviceItems] /\ Owner(t)' = w
      /\ \A u \in Tokens \ {t} : device'[u] = device[u] /\ Owner(u)' = Owner(u)
  <2>1. device' = [device EXCEPT ![t].account = w]
    BY DEF CommitAdoption
  <2> QED
    BY <1>1, <1>2, <2>1, Facts, DeviceMoves
<1> HIDE DEF f, w
<1>5. Types'
  BY <1>1, <1>2, <1>3, <1>4 DEF Inv, Types, ItemTypes, PlayTypes, JobTypes, GhostTypes, RunTypes
<1>6. Stores'
  <2>1. Accounted'
    <3>1. Born(w) /\ \A x : Born(x)' <=> Born(x)
      BY <1>1, <1>2, LiveFacts DEF Born
    <3>2. \A u \in Tokens : Owner(u)' # None => Born(Owner(u)')
      BY <1>4, <3>1 DEF Inv, Stores, Accounted
    <3>3. \A u \in Tokens : Owner(u)' # None => Born(Owner(u))'
      BY <1>1, <3>2 DEF Born
    <3> QED
      BY <1>1, <3>3 DEF Inv, Stores, Accounted
  <2>2. AddressesAgree' /\ ScoresFound' /\ Buried'
    BY <1>1 DEF Inv, Stores, AddressesAgree, Live, ScoresFound, Earns, Buried, IsDead
  <2>3. Alone'
    BY <1>1, <1>2, <1>4 DEF Inv, Stores, Alone, Live
  <2>4. Erased'
    BY <1>1, <1>2, <1>4, LiveFacts DEF Inv, Stores, Erased, IsDead
  <2>5. NoOrphanAccount'
    BY <1>1, <1>2, <1>4 DEF Inv, Stores, NoOrphanAccount, Live
  <2> QED
    BY <1>2, <2>1, <2>2, <2>3, <2>4, <2>5 DEF Stores
<1>7. Onward
  <2>1. \A x : Cleaned(x)' <=> Cleaned(x)
    BY <1>3 DEF Cleaned
  <2>2. clock <= clock /\ \A x \in Emails : Len(codes[x]) <= Len(codes[x])
    BY Facts DEF Inv, Types, ItemTypes
  <2>3. \A x \in Emails : \A c \in 1..Len(codes[x]) : challenge'[x].code = c => challenge[x].code = c
    <3>1. ASSUME NEW x \in Emails, NEW c \in 1..Len(codes[x]), challenge'[x].code = c
          PROVE  x # e
      <4>1. Len(codes[x]) \in Nat
        BY DEF Inv, Types, ItemTypes
      <4> QED
        BY <1>2, <3>1, <4>1
    <3> QED
      BY <1>2, <3>1
  <2> QED
    BY <1>1, <2>1, <2>2, <2>3 DEF Onward, Born, IsDead, IsSaved, Earns
<1>8. HandsOff
  BY <1>1, <1>2, <1>4, CleanedDead DEF HandsOff
<1>9. Truth(r, proc[r])'
  <2>1. job[r].op = "verify" /\ proc[r].at <= clock
    BY Facts DEF At, Truth, Way, Linking
  <2>2. Way(r, proc[r])'
    BY <1>1, <1>3, <2>1 DEF Way, Linking, Pcs, WorkerOnly
  <2>3. Known(proc[r])' /\ Coded(r, proc[r])' /\ Target(proc[r])' /\ Planned(proc[r])'
    BY <1>1, <1>2, <1>3, LiveFacts
       DEF Known, Coded, Target, Planned, Born, Acting, Guests
  <2>4. Ended(proc[r])' /\ Earned(r, proc[r])'
    BY <1>3 DEF Ended, Earned
  <2>5. Timely(proc[r])'
    BY <1>1, <1>2, <1>3, LiveFacts DEF Timely, InTime, Cleaned
  <2> QED
    BY <2>2, <2>3, <2>4, <2>5 DEF Truth
<1> QED
  BY <1>1, <1>3, <1>5, <1>6, <1>7, <1>8, <1>9, RequestStep

(* What an erasing switch makes of the rounds and scores of the two.       *)
LEMMA RoundsMove ==
    ASSUME Inv, NEW r \in Requests, Erases(r), PlanStands(r), proc[r].seen \in Plans,
           From(r) \in AccountIds, To(r) \in AccountIds, From(r) # To(r),
           round' = MovedRounds(r), score' = MovedScores(r)
    PROVE  /\ round' \in [AccountIds -> [Slots -> RoundItems]]
           /\ score' \in [AccountIds -> [Slots -> Requests \cup {None}]]
           /\ \A a \in AccountIds \ {From(r), To(r)} :
                round'[a] = round[a] /\ score'[a] = score[a]
           /\ \A s \in Slots :
                /\ ~RoundMoves(r, s) =>
                    /\ round'[From(r)][s] = round[From(r)][s]
                    /\ round'[To(r)][s] = round[To(r)][s]
                    /\ score'[From(r)][s] = score[From(r)][s]
                    /\ score'[To(r)][s] = score[To(r)][s]
                /\ RoundMoves(r, s) =>
                    /\ round'[From(r)][s] = NoRound
                    /\ round'[To(r)][s] =
                        [proc[r].seen.from[s] EXCEPT !.version = round[To(r)][s].version + 1]
                    /\ round'[To(r)][s].version = round[To(r)][s].version + 1
<1> DEFINE f == From(r)
           w == To(r)
           v == proc[r].seen
           away == [s \in Slots |-> IF RoundMoves(r, s) THEN NoRound ELSE round[f][s]]
           here == [s \in Slots |->
                        IF RoundMoves(r, s)
                        THEN [v.from[s] EXCEPT !.version = v.to[s].version + 1]
                        ELSE round[w][s]]
           lost == [s \in Slots |-> IF ScoreMoves(r, s) THEN None ELSE score[f][s]]
           won == [s \in Slots |-> IF ScoreMoves(r, s) THEN v.fromScore[s] ELSE score[w][s]]
<1>1. /\ round \in [AccountIds -> [Slots -> RoundItems]]
      /\ score \in [AccountIds -> [Slots -> Requests \cup {None}]]
      /\ v.from \in [Slots -> RoundItems] /\ v.to \in [Slots -> RoundItems]
      /\ v.fromScore \in [Slots -> Requests \cup {None}]
      /\ \A s \in Slots : round[w][s].version = v.to[s].version
  BY DEF Inv, Types, PlayTypes, Plans, PlanStands
<1>2. /\ round' = [round EXCEPT ![f] = away, ![w] = here]
      /\ score' = [score EXCEPT ![f] = lost, ![w] = won]
  BY <1>1 DEF MovedRounds, MovedScores
<1>3. NoRound \in RoundItems
  BY DEF NoRound, RoundItems
<1>4. ASSUME NEW s \in Slots
      PROVE  /\ [v.from[s] EXCEPT !.version = v.to[s].version + 1] \in RoundItems
             /\ [v.from[s] EXCEPT !.version = v.to[s].version + 1].version = v.to[s].version + 1
  <2>1. v.from[s] \in RoundItems /\ v.to[s].version \in Nat
    BY <1>1 DEF RoundItems
  <2> HIDE DEF v
  <2> QED
    BY <2>1 DEF RoundItems
<1>5. away \in [Slots -> RoundItems] /\ here \in [Slots -> RoundItems]
  <2> HIDE DEF f, w, v
  <2> QED
    BY <1>1, <1>3, <1>4 DEF f, w
<1>6. lost \in [Slots -> Requests \cup {None}] /\ won \in [Slots -> Requests \cup {None}]
  <2> HIDE DEF f, w, v
  <2> QED
    BY <1>1 DEF f, w
<1>7. /\ \A s \in Slots : RoundMoves(r, s) =>
            /\ away[s] = NoRound
            /\ here[s] = [v.from[s] EXCEPT !.version = v.to[s].version + 1]
      /\ \A s \in Slots : ~RoundMoves(r, s) =>
            /\ away[s] = round[f][s] /\ here[s] = round[w][s]
            /\ lost[s] = score[f][s] /\ won[s] = score[w][s]
  BY DEF ScoreMoves
<1> HIDE DEF away, here, lost, won
<1>8. /\ round' \in [AccountIds -> [Slots -> RoundItems]]
      /\ score' \in [AccountIds -> [Slots -> Requests \cup {None}]]
      /\ round'[f] = away /\ round'[w] = here /\ score'[f] = lost /\ score'[w] = won
      /\ \A a \in AccountIds \ {f, w} : round'[a] = round[a] /\ score'[a] = score[a]
  BY <1>1, <1>2, <1>5, <1>6, ZenonT(60)
<1>9. ASSUME NEW s \in Slots, RoundMoves(r, s)
      PROVE  /\ round'[f][s] = NoRound
             /\ round'[w][s] = [v.from[s] EXCEPT !.version = round[w][s].version + 1]
             /\ round'[w][s].version = round[w][s].version + 1
  <2>1. /\ round'[f][s] = NoRound
        /\ round'[w][s] = [v.from[s] EXCEPT !.version = v.to[s].version + 1]
    BY <1>7, <1>8, <1>9
  <2>2. [v.from[s] EXCEPT !.version = v.to[s].version + 1].version = v.to[s].version + 1
    BY <1>4
  <2>3. v.to[s].version = round[w][s].version
    BY <1>1
  <2> HIDE DEF f, w, v
  <2> QED
    BY <2>1, <2>2, <2>3
<1> QED
  BY <1>7, <1>8, <1>9

(* An account saved nowhere dies with its device, and its rounds follow    *)
(* its player.                                                             *)
LEMMA EraseStep ==
    ASSUME Inv, NEW r \in Requests, At(r, "adopt"), CommitAdoption(r), Erases(r),
           UNCHANGED <<setting, binding, codes, sends, history, member, clock, faults,
                       purged, signedOut>>
    PROVE  Inv'
<1> USE DEF setting
<1>0. PICK f, w, t, e :
        f = From(r) /\ w = To(r) /\ t = job[r].token /\ e = job[r].email
  OBVIOUS
<1> DEFINE took == [to |-> w, rounds |-> {s \in Slots : RoundMoves(r, s)}]
<1>1. /\ account' = Dead(f) /\ profile' = profile \ {f}
      /\ purge' = [purge EXCEPT ![f] = proc[r].at]
      /\ depart' = depart \cup {<<w, f>>}
      /\ round' = MovedRounds(r) /\ score' = MovedScores(r)
      /\ heir' = [heir EXCEPT ![f] = took]
      /\ PlanStands(r)
  BY <1>0 DEF CommitAdoption, Erase
<1>2. /\ f \in AccountIds /\ w \in AccountIds /\ f # w /\ Live(f) /\ Live(w)
      /\ account[w].email # None /\ account[f].email = None /\ Owner(t) = f
      /\ challenge' \in [Emails -> CodeItems] /\ granted' \in [Emails -> Seq(Nat \X Nat)]
      /\ CodesAgree' /\ challenge'[e].code = 0
      /\ \A x \in Emails \ {e} : challenge'[x] = challenge[x]
      /\ clock <= proc[r].at + Timeout /\ proc[r].at <= clock
  BY <1>0, Switching
<1>3. /\ proc' \in [Procs -> Memory] /\ proc'[Worker] = proc[Worker]
      /\ \A x \in Procs \ {r} : proc'[x] = proc[x]
      /\ proc'[r].pc = "credit" /\ proc'[r].at = proc[r].at
      /\ proc'[r].account = f /\ proc'[r].whose = w /\ proc'[r].todo \subseteq Slots
  BY <1>0, Switched
<1>4. /\ t \in Tokens /\ device' \in [Tokens -> DeviceItems] /\ Owner(t)' = w
      /\ \A u \in Tokens \ {t} : device'[u] = device[u] /\ Owner(u)' = Owner(u)
  <2>1. device' = [device EXCEPT ![t].account = w]
    BY <1>0 DEF CommitAdoption
  <2> QED
    BY <1>0, <1>2, <2>1, Facts, DeviceMoves
<1>5. /\ round' \in [AccountIds -> [Slots -> RoundItems]]
      /\ score' \in [AccountIds -> [Slots -> Requests \cup {None}]]
      /\ \A a \in AccountIds \ {f, w} : round'[a] = round[a] /\ score'[a] = score[a]
      /\ \A s \in Slots :
            /\ ~RoundMoves(r, s) =>
                /\ round'[f][s] = round[f][s] /\ round'[w][s] = round[w][s]
                /\ score'[f][s] = score[f][s] /\ score'[w][s] = score[w][s]
            /\ RoundMoves(r, s) =>
                /\ round'[f][s] = NoRound
                /\ round'[w][s].version = round[w][s].version + 1
  <2>1. proc[r].seen \in Plans
    BY Switching
  <2>2. From(r) \in AccountIds /\ To(r) \in AccountIds /\ From(r) # To(r)
    BY <1>0, <1>2
  <2>3. /\ round' \in [AccountIds -> [Slots -> RoundItems]]
        /\ score' \in [AccountIds -> [Slots -> Requests \cup {None}]]
        /\ \A a \in AccountIds \ {From(r), To(r)} :
                round'[a] = round[a] /\ score'[a] = score[a]
        /\ \A s \in Slots :
            /\ ~RoundMoves(r, s) =>
                /\ round'[From(r)][s] = round[From(r)][s]
                /\ round'[To(r)][s] = round[To(r)][s]
                /\ score'[From(r)][s] = score[From(r)][s]
                /\ score'[To(r)][s] = score[To(r)][s]
            /\ RoundMoves(r, s) =>
                /\ round'[From(r)][s] = NoRound
                /\ round'[To(r)][s].version = round[To(r)][s].version + 1
    BY <1>1, <2>1, <2>2, RoundsMove
  <2> QED
    BY <1>0, <2>3
<1>6. /\ account' \in [AccountIds -> AccountItems]
      /\ account'[f] = [status |-> "dead", email |-> None]
      /\ \A x \in AccountIds \ {f} : account'[x] = account[x]
  <2>1. [status |-> "dead", email |-> None] \in AccountItems
    BY DEF AccountItems
  <2> QED
    BY <1>1, <1>2, <2>1 DEF Dead, Inv, Types, ItemTypes
<1>7. /\ purge' \in [AccountIds -> 0..MaxClock \cup {None}] /\ purge'[f] = proc[r].at
      /\ \A x \in AccountIds \ {f} : purge'[x] = purge[x]
      /\ proc[r].at \in Nat
  BY <1>1, <1>2, Facts DEF Memory, Inv, Types, JobTypes
<1>8. /\ heir' \in [AccountIds -> Heirs] /\ heir'[f].to = w
      /\ heir'[f].rounds = {s \in Slots : RoundMoves(r, s)}
      /\ \A x \in AccountIds \ {f} : heir'[x] = heir[x]
  <2>1. took \in Heirs /\ took.to = w /\ took.rounds = {s \in Slots : RoundMoves(r, s)}
    BY <1>2 DEF Heirs
  <2> HIDE DEF took
  <2> QED
    BY <1>1, <1>2, <2>1 DEF Inv, Types, GhostTypes
<1> HIDE DEF took
<1>9. /\ Born(f) /\ Born(w) /\ ~IsDead(f) /\ ~IsDead(w) /\ purge[f] = None /\ purge[w] = None
      /\ ~Cleaned(f) /\ ~Cleaned(w) /\ heir[f].to = None /\ heir[f].rounds = {}
      /\ f \notin purged
  BY <1>2, LiveFacts DEF Cleaned
<1>10. /\ \A u \in Tokens : Owner(u)' # f
       /\ \A u \in Tokens \ {t} : Owner(u) # f
  BY <1>2, <1>4 DEF Inv, Stores, Alone
<1>11. /\ IsDead(f)' /\ ~Live(f)' /\ Born(f)' /\ account'[f].email = None
       /\ \A x \in AccountIds \ {f} : /\ Live(x)' <=> Live(x)
                                      /\ Born(x)' <=> Born(x)
                                      /\ IsDead(x)' <=> IsDead(x)
  BY <1>6 DEF IsDead, Live, Born
<1>12. ASSUME NEW x \in AccountIds, NEW s \in Slots
       PROVE  /\ round'[x][s].version \in Nat /\ round[x][s].version \in Nat
              /\ Live(x)' => \/ round'[x][s] = round[x][s]
                             \/ round[x][s].version < round'[x][s].version
              /\ Earns(x, s) => Earns(x, s)'
              /\ score'[x][s] # None => Earns(x, s)'
              /\ round'[x][s].version = 0 => round'[x][s] = NoRound
  <2>1. round'[x][s].version \in Nat /\ round[x][s].version \in Nat
    BY <1>5 DEF RoundItems, Inv, Types, PlayTypes
  <2>2. /\ round[x][s].version = 0 => round[x][s] = NoRound
        /\ score[x][s] # None => Earns(x, s)
        /\ NoRound.version = 0
    BY DEF Inv, Types, PlayTypes, Stores, ScoresFound, NoRound
  <2>3. CASE x = f
    BY <1>5, <1>8, <1>9, <1>11, <2>1, <2>2, <2>3 DEF Earns
  <2>4. CASE x = w
    BY <1>2, <1>5, <1>8, <2>1, <2>2, <2>4 DEF Earns
  <2>5. CASE x # f /\ x # w
    BY <1>5, <1>8, <2>1, <2>2, <2>5 DEF Earns
  <2> QED
    BY <2>1, <2>3, <2>4, <2>5
<1>13. Types'
  <2>1. PlayTypes'
    BY <1>1, <1>5, <1>12 DEF Inv, Types, PlayTypes
  <2>2. JobTypes'
    BY <1>1, <1>2, <1>7 DEF Inv, Types, JobTypes
  <2>3. ItemTypes' /\ GhostTypes' /\ RunTypes'
    BY <1>2, <1>3, <1>4, <1>6, <1>8 DEF Inv, Types, ItemTypes, GhostTypes, RunTypes
  <2> QED
    BY <2>1, <2>2, <2>3 DEF Types
<1>14. Stores'
  <2>1. Accounted'
    <3>1. \A u \in Tokens : Owner(u)' # None => Owner(u)' \in AccountIds /\ Born(Owner(u)')
      <4>1. \A u \in Tokens : Owner(u) # None => Owner(u) \in AccountIds /\ Born(Owner(u))
        BY DEF Owner, DeviceItems, Inv, Types, ItemTypes, Stores, Accounted
      <4> QED
        BY <1>2, <1>4, <1>9, <4>1
    <3>2. \A u \in Tokens : Owner(u)' # None => Born(Owner(u))'
      BY <1>10, <1>11, <3>1 DEF Born
    <3>3. \A x \in AccountIds : account'[x].status # "live" => account'[x].email = None
      BY <1>6, <1>11 DEF Inv, Stores, Accounted
    <3> QED
      BY <3>2, <3>3 DEF Accounted
  <2>2. AddressesAgree'
    <3>1. ASSUME NEW m \in Emails, NEW x \in AccountIds
          PROVE  binding[m] = x <=> (Live(x)' /\ account'[x].email = m)
      <4>1. binding[m] = x <=> (Live(x) /\ account[x].email = m)
        BY DEF Inv, Stores, AddressesAgree
      <4>2. CASE x = f
        BY <1>2, <1>11, <4>1, <4>2, Named
      <4>3. CASE x # f
        BY <1>6, <1>11, <4>1, <4>3
      <4> QED
        BY <4>2, <4>3
    <3>2. binding' = binding
      OBVIOUS
    <3> QED
      BY <3>1, <3>2 DEF AddressesAgree
  <2>3. Alone'
    BY <1>2, <1>4, <1>6, <1>10, <1>11 DEF Inv, Stores, Alone, Live
  <2>4. Erased'
    BY <1>2, <1>4, <1>8, <1>9, <1>10, <1>11, Named DEF Inv, Stores, Erased
  <2>5. NoOrphanAccount'
    BY <1>2, <1>4, <1>6, <1>11, ZenonT(60) DEF Inv, Stores, NoOrphanAccount
  <2>6. ScoresFound'
    BY <1>12 DEF ScoresFound
  <2>7. Buried'
    BY <1>2, <1>7, <1>9, <1>11 DEF Inv, Stores, Buried
  <2> QED
    BY <1>2, <2>1, <2>2, <2>3, <2>4, <2>5, <2>6, <2>7 DEF Stores
<1>15. Onward
  <2>1. \A x : Cleaned(x)' <=> Cleaned(x)
    BY <1>3 DEF Cleaned
  <2>2. clock <= clock /\ \A x \in Emails : Len(codes[x]) <= Len(codes[x])
    BY Facts DEF Inv, Types, ItemTypes
  <2>3. \A x \in Emails : \A c \in 1..Len(codes[x]) : challenge'[x].code = c => challenge[x].code = c
    <3>1. ASSUME NEW x \in Emails, NEW c \in 1..Len(codes[x]), challenge'[x].code = c
          PROVE  x # e
      <4>1. Len(codes[x]) \in Nat
        BY DEF Inv, Types, ItemTypes
      <4> QED
        BY <1>2, <3>1, <4>1
    <3> QED
      BY <1>2, <3>1
  <2>4. ASSUME NEW x \in AccountIds
        PROVE  /\ Born(x) => Born(x)'
               /\ IsDead(x) => IsDead(x)'
               /\ IsSaved(x) => IsSaved(x)'
               /\ purge'[x] # None => \/ purge'[x] = purge[x]
                                      \/ clock <= purge'[x] + Timeout
    BY <1>2, <1>6, <1>7, <1>9, <1>11 DEF IsSaved
  <2> QED
    BY <1>12, <2>1, <2>2, <2>3, <2>4 DEF Onward
<1>16. HandsOff
  <2>1. ASSUME NEW x \in AccountIds, Cleaned(x) PROVE x # f /\ x # w
    BY <1>9, <2>1
  <2> QED
    BY <1>1, <1>4, <1>5, <1>7, <2>1 DEF HandsOff
<1>17. Truth(r, proc[r])'
  <2>1. job[r].op = "verify"
    BY Facts DEF At, Truth, Way, Linking
  <2>2. Way(r, proc[r])'
    BY <1>2, <1>3, <2>1 DEF Way, Linking, Pcs, WorkerOnly
  <2>3. Known(proc[r])' /\ Coded(r, proc[r])' /\ Target(proc[r])' /\ Planned(proc[r])'
    BY <1>2, <1>3, <1>9, <1>11 DEF Known, Coded, Target, Planned, Acting, Guests
  <2>4. Ended(proc[r])' /\ Earned(r, proc[r])'
    BY <1>3 DEF Ended, Earned
  <2>5. ~Cleaned(f)' /\ ~Cleaned(w)'
    BY <1>3, <1>9 DEF Cleaned
  <2>6. Timely(proc[r])'
    BY <1>2, <1>3, <1>7, <1>9, <2>5, SettleAssumption DEF Timely, InTime
  <2> QED
    BY <2>2, <2>3, <2>4, <2>6 DEF Truth
<1> QED
  BY <1>3, <1>13, <1>14, <1>15, <1>16, <1>17, RequestStep

LEMMA AdoptStep == ASSUME Inv, NEW r \in Requests, Adopt(r) PROVE Inv'
<1>1. CASE RefuseAdoption(r)
  BY <1>1, RefuseStep DEF Adopt, At
<1>2. CASE CommitAdoption(r)
  BY <1>2, LeftBehindStep, EraseStep DEF Adopt
<1> QED
  BY <1>1, <1>2 DEF Adopt

LEMMA DeleteStep == ASSUME Inv, NEW r \in Requests, Delete(r) PROVE Inv'
<1> USE DEF setting
<1>0. PICK a, e : a = proc[r].account /\ e = proc[r].email
  OBVIOUS
<1>1. /\ UNCHANGED <<setting, device, mail, round, score, history, depart, member, clock,
                     faults, ghosts>>
      /\ proc[r].pc = "delete" /\ clock <= proc[r].at + Timeout /\ proc[r].at <= clock
      /\ proc[r].at \in 0..MaxClock /\ job[r].op = "delete" /\ a \in AccountIds
      /\ "account_changed" \in Answers
  BY <1>0, Facts DEF Delete, At, Truth, Way, Known, Acting, Guests, Memory, Answers
<1>2. CASE /\ Answer(r, "account_changed")
           /\ UNCHANGED <<account, binding, profile, purge>>
  BY <1>1, <1>2, AnswerStep DEF stored, identity, play, jobs
<1>3. CASE Goto(r, "again") /\ UNCHANGED <<account, binding, profile, purge>>
  <2> DEFINE q == [proc[r] EXCEPT !.pc = "again"]
  <2>1. q \in Memory /\ q.pc = "again" /\ Alike(q, proc[r])
    BY Facts, Going, PcsHold
  <2>2. Truth(r, q)
    BY <1>1, <2>1, Facts
       DEF Alike, Truth, Way, Known, Coded, Target, Planned, Ended, Earned, Timely, InTime,
           Acting, Guests, Linking, Pcs, WorkerOnly
  <2>3. UNCHANGED stored /\ faults' = faults /\ Become(r, q)
    BY <1>1, <1>3 DEF stored, identity, play, jobs, Goto
  <2> QED
    BY <2>1, <2>2, <2>3, Facts, QuietStep
<1>4. CASE /\ MayDelete(r)
           /\ account' = Dead(a)
           /\ profile' = profile \ {a}
           /\ purge' = [purge EXCEPT ![a] = proc[r].at]
           /\ binding' = IF e = None THEN binding ELSE [binding EXCEPT ![e] = None]
           /\ Become(r, [proc[r] EXCEPT !.pc = "list", !.whose = a])
  <2> USE DEF mail, ghosts
  <2> DEFINE q == [proc[r] EXCEPT !.pc = "list", !.whose = a]
             t == job[r].token
  <2>1. /\ Live(a) /\ account[a].email = e /\ Owner(t) = a /\ e \in Emails \cup {None}
        /\ t \in Tokens
    BY <1>0, <1>4, Facts DEF MayDelete, Memory
  <2>2. /\ q \in Memory /\ q.pc = "list" /\ q.at = proc[r].at /\ q.account = a /\ q.whose = a
    BY <1>0, <1>1, Facts, PcsHold, ZenonT(60) DEF Memory
  <2> HIDE DEF q
  <2>3. /\ proc' \in [Procs -> Memory] /\ proc'[Worker] = proc[Worker]
        /\ \A x \in Procs \ {r} : proc'[x] = proc[x]
        /\ proc'[r] = q
    BY <1>4, <2>2, Moved, Named DEF Inv, Types, RunTypes, q
  <2>4. /\ account' \in [AccountIds -> AccountItems]
        /\ account'[a] = [status |-> "dead", email |-> None]
        /\ \A x \in AccountIds \ {a} : account'[x] = account[x]
    <3>1. [status |-> "dead", email |-> None] \in AccountItems
      BY DEF AccountItems
    <3> QED
      BY <1>1, <1>4, <3>1 DEF Dead, Inv, Types, ItemTypes
  <2>5. /\ binding' \in [Emails -> AccountIds \cup {None}]
        /\ \A x \in Emails : binding'[x] = IF x = e THEN None ELSE binding[x]
    BY <1>4, <2>1, Named DEF Inv, Types, ItemTypes
  <2>6. /\ purge' \in [AccountIds -> 0..MaxClock \cup {None}] /\ purge'[a] = proc[r].at
        /\ \A x \in AccountIds \ {a} : purge'[x] = purge[x]
    BY <1>1, <1>4 DEF Inv, Types, JobTypes
  <2>7. /\ Born(a) /\ ~IsDead(a) /\ purge[a] = None /\ ~Cleaned(a) /\ heir[a].to = None
        /\ a \notin purged
    BY <1>1, <2>1, LiveFacts DEF Cleaned
  <2>8. /\ IsDead(a)' /\ ~Live(a)' /\ Born(a)' /\ account'[a].email = None
        /\ \A x \in AccountIds \ {a} : /\ Live(x)' <=> Live(x)
                                       /\ Born(x)' <=> Born(x)
                                       /\ IsDead(x)' <=> IsDead(x)
    BY <2>4 DEF IsDead, Live, Born
  <2>9. \A u : Owner(u)' = Owner(u)
    BY <1>1 DEF Owner
  <2>10. Types'
    <3>1. PlayTypes' /\ JobTypes'
      BY <1>1, <1>4, <2>6 DEF Inv, Types, PlayTypes, JobTypes
    <3>2. ItemTypes' /\ GhostTypes' /\ RunTypes'
      BY <1>1, <2>3, <2>4, <2>5 DEF Inv, Types, ItemTypes, GhostTypes, RunTypes
    <3> QED
      BY <3>1, <3>2 DEF Types
  <2>11. Stores'
    <3>1. Accounted'
      <4>1. \A u \in Tokens : Owner(u) # None => Owner(u) \in AccountIds /\ Born(Owner(u))
        BY DEF Owner, DeviceItems, Inv, Types, ItemTypes, Stores, Accounted
      <4>2. \A u \in Tokens : Owner(u)' # None => Born(Owner(u)')
        BY <2>9, <4>1
      <4>3. \A u \in Tokens : Owner(u)' # None => Born(Owner(u))'
        BY <2>8, <2>9, <4>1 DEF Born
      <4>4. \A x \in AccountIds : account'[x].status # "live" => account'[x].email = None
        BY <2>4, <2>8 DEF Inv, Stores, Accounted
      <4> QED
        BY <4>3, <4>4 DEF Accounted
    <3>2. AddressesAgree'
      BY <1>1, <2>1, <2>4, <2>5, <2>8, Named DEF Inv, Stores, AddressesAgree
    <3>3. Alone'
      BY <2>4, <2>8, <2>9 DEF Inv, Stores, Alone, Live
    <3>4. Erased'
      BY <1>1, <2>7, <2>8, <2>9 DEF Inv, Stores, Erased
    <3>5. NoOrphanAccount'
      BY <1>1, <2>4, <2>8, <2>9 DEF Inv, Stores, NoOrphanAccount
    <3>6. Buried'
      BY <1>1, <2>6, <2>7, <2>8 DEF Inv, Stores, Buried
    <3>7. CodesAgree' /\ ScoresFound'
      BY <1>1 DEF Inv, Stores, CodesAgree, ScoresFound, Earns
    <3> QED
      BY <3>1, <3>2, <3>3, <3>4, <3>5, <3>6, <3>7 DEF Stores
  <2>12. Onward
    <3>1. \A x : Cleaned(x)' <=> Cleaned(x)
      BY <1>1, <2>3 DEF Cleaned
    <3>2. clock <= clock /\ \A x \in Emails : Len(codes[x]) <= Len(codes[x])
      BY Facts DEF Inv, Types, ItemTypes
    <3>3. ASSUME NEW x \in AccountIds
          PROVE  /\ Born(x) => Born(x)'
                 /\ IsDead(x) => IsDead(x)'
                 /\ IsSaved(x) => IsSaved(x)'
                 /\ purge'[x] # None => \/ purge'[x] = purge[x]
                                        \/ clock <= purge'[x] + Timeout
      BY <1>1, <2>4, <2>6, <2>7, <2>8 DEF IsSaved
    <3>4. \A x \in Emails : binding'[x] # None => binding[x] # None
      BY <2>5
    <3> QED
      BY <1>1, <3>1, <3>2, <3>3, <3>4 DEF Onward, Earns
  <2>13. HandsOff
    <3>1. ASSUME NEW x \in AccountIds, Cleaned(x) PROVE x # a
      BY <2>7, <3>1
    <3> QED
      BY <1>1, <1>4, <2>6, <3>1 DEF HandsOff
  <2>14. Truth(r, proc[r])'
    <3>1. Way(r, proc[r])' /\ Coded(r, proc[r])' /\ Target(proc[r])' /\ Planned(proc[r])'
      BY <1>1, <2>2, <2>3 DEF Way, Coded, Target, Planned, Linking, Pcs, WorkerOnly
    <3>2. Known(proc[r])' /\ Ended(proc[r])' /\ Earned(r, proc[r])'
      BY <1>1, <2>2, <2>3, <2>8 DEF Known, Ended, Earned, Acting, Guests
    <3>3. ~Cleaned(a)'
      BY <1>1, <2>3, <2>7 DEF Cleaned
    <3>4. proc[r].at <= proc[r].at + Timeout
      BY <1>1, SettleAssumption
    <3>5. Timely(proc[r])'
      BY <2>2, <2>3, <2>6, <3>3, <3>4 DEF Timely, InTime
    <3> QED
      BY <3>1, <3>2, <3>5 DEF Truth
  <2> QED
    BY <1>1, <2>3, <2>10, <2>11, <2>12, <2>13, <2>14, RequestStep
<1> QED
  BY <1>0, <1>1, <1>2, <1>3, <1>4 DEF Delete

LEMMA AppendStep == ASSUME Inv, NEW r \in Requests, AppendGuess(r) PROVE Inv'
<1> USE DEF setting, identity, mail, jobs, ghosts
<1>0. PICK a, s : a = proc[r].account /\ s = job[r].slot
  OBVIOUS
<1>1. /\ UNCHANGED <<setting, identity, mail, score, history, profile, jobs, member, clock,
                     faults, ghosts>>
      /\ proc[r].pc = "append" /\ clock <= proc[r].at + Timeout
      /\ a \in AccountIds /\ s \in Slots /\ Born(a)
      /\ "round_solved" \in Answers /\ "appended" \in Answers
  BY <1>0, Facts DEF AppendGuess, At, Answers, Truth, Known, Acting, Guests, Jobs
<1>2. CASE Answer(r, "round_solved") /\ UNCHANGED round
  BY <1>1, <1>2, AnswerStep DEF stored, play
<1> DEFINE item == [plays |-> round[a][s].plays \cup {r}, solved |-> job[r].solves,
                    version |-> round[a][s].version + 1]
           q == [proc[r] EXCEPT !.pc = "reward", !.todo = {"score", "day"}]
<1>3. CASE /\ round' = [round EXCEPT ![a][s] =
                [plays |-> @.plays \cup {r}, solved |-> job[r].solves, version |-> @.version + 1]]
           /\ Become(r, q) \/ Answer(r, "appended")
  <2>1. round \in [AccountIds -> [Slots -> RoundItems]] /\ job[r].solves \in BOOLEAN
    BY Facts DEF Inv, Types, PlayTypes, Jobs
  <2>2. item \in RoundItems /\ item.version = round[a][s].version + 1 /\ item.version > 0
    BY <1>1, <2>1 DEF RoundItems
  <2>3. round' = [round EXCEPT ![a][s] = item]
    BY <1>1, <1>3, <2>1
  <2> HIDE DEF item
  <2>4. /\ round' \in [AccountIds -> [Slots -> RoundItems]]
        /\ round'[a][s] = item
        /\ \A x \in AccountIds, y \in Slots : x # a \/ y # s => round'[x][y] = round[x][y]
        /\ \A x \in AccountIds \ {a} : round'[x] = round[x]
    BY <1>1, <2>1, <2>2, <2>3
  <2>5. /\ q \in Memory /\ q.pc = "reward" /\ q.at = proc[r].at /\ q.account = a
        /\ q.whose = proc[r].whose
    BY <1>0, Facts, PcsHold DEF Memory
  <2>6. PICK m \in Memory : Become(r, m) /\ (m = q \/ m = Done("appended"))
    BY <1>1, <1>3, <2>5, IdleTyped DEF Answer
  <2>7. /\ proc' \in [Procs -> Memory] /\ proc'[Worker] = proc[Worker]
        /\ \A x \in Procs \ {r} : proc'[x] = proc[x]
        /\ proc'[r] = m
    BY <2>6, Moved, Named DEF Inv, Types, RunTypes
  <2>8. ASSUME NEW x \in AccountIds, NEW y \in Slots
        PROVE  /\ round'[x][y].version = 0 => round'[x][y] = NoRound
               /\ Earns(x, y) => Earns(x, y)'
               /\ round'[x][y] = round[x][y] \/ round[x][y].version < round'[x][y].version
    <3>1. round[x][y].version \in Nat
      BY <2>1 DEF RoundItems
    <3>2. CASE x = a /\ y = s
      BY <1>1, <2>2, <2>4, <3>1, <3>2 DEF Earns
    <3>3. CASE ~(x = a /\ y = s)
      BY <1>1, <2>4, <3>3 DEF Earns, Inv, Types, PlayTypes
    <3> QED
      BY <3>2, <3>3
  <2>9. Types'
    <3>1. PlayTypes'
      BY <1>1, <2>4, <2>8 DEF Inv, Types, PlayTypes
    <3> QED
      BY <1>1, <2>7, <3>1 DEF Inv, Types, ItemTypes, JobTypes, GhostTypes, RunTypes
  <2>10. Stores'
    <3>1. Accounted' /\ AddressesAgree' /\ Alone' /\ Erased' /\ NoOrphanAccount'
      BY <1>1 DEF Inv, Stores, Accounted, AddressesAgree, Alone, Erased, NoOrphanAccount,
             Live, Owner, Born, IsDead
    <3>2. CodesAgree' /\ Buried'
      BY <1>1 DEF Inv, Stores, CodesAgree, Buried, IsDead
    <3>3. ScoresFound'
      BY <1>1, <2>8 DEF Inv, Stores, ScoresFound
    <3> QED
      BY <3>1, <3>2, <3>3 DEF Stores
  <2>11. \A x : Cleaned(x)' <=> Cleaned(x)
    BY <1>1, <2>7 DEF Cleaned
  <2>12. Onward
    <3>1. clock <= clock /\ \A x \in Emails : Len(codes[x]) <= Len(codes[x])
      BY Facts DEF Inv, Types, ItemTypes
    <3> QED
      BY <1>1, <2>8, <2>11, <3>1 DEF Onward, Born, IsDead, IsSaved
  <2>13. HandsOff
    <3>1. ~Cleaned(a)
      BY <1>0, <1>1, StillInTime DEF Acting, Guests
    <3> QED
      BY <1>1, <2>4, <3>1 DEF HandsOff, Owner
  <2>14. Truth(r, proc[r])'
    <3>1. CASE m = Done("appended")
      BY <1>1, <2>7, <3>1, Facts, Doned
    <3>2. CASE m = q
      <4>1. Earns(a, s)'
        BY <1>1, <2>2, <2>4 DEF Earns
      <4>2. proc'[r].pc = "reward" /\ proc'[r].account = a /\ proc'[r].at = proc[r].at
            /\ proc'[r].whose = proc[r].whose
        BY <2>5, <2>7, <3>2
      <4> HIDE DEF q
      <4>3. Way(r, proc[r])' /\ Coded(r, proc[r])' /\ Target(proc[r])' /\ Planned(proc[r])'
        BY <1>1, <4>2, Facts DEF Truth, Way, Coded, Target, Planned, Linking, Pcs, WorkerOnly
      <4>4. Known(proc[r])' /\ Ended(proc[r])'
        BY <1>0, <1>1, <4>2, Facts DEF Truth, Known, Ended, Acting, Guests, Born
      <4>5. Earned(r, proc[r])'
        BY <1>0, <1>1, <4>1, <4>2 DEF Earned
      <4>6. Timely(proc[r])'
        BY <1>0, <1>1, <2>11, <4>2, Facts DEF Truth, Timely, InTime, Acting, Guests
      <4> QED
        BY <4>3, <4>4, <4>5, <4>6 DEF Truth
    <3> QED
      BY <2>6, <3>1, <3>2
  <2> QED
    BY <1>1, <2>7, <2>9, <2>10, <2>12, <2>13, <2>14, RequestStep
<1> QED
  BY <1>0, <1>2, <1>3 DEF AppendGuess

LEMMA RequestsKeep ==
    ASSUME Inv, NEW r \in Requests,
           \/ Arrive(r) \/ Authenticate(r) \/ Link(r) \/ Devices(r) \/ Plays(r)
           \/ Departs(r) \/ Throws(r)
    PROVE  Inv'
<1>1. CASE Arrive(r) \/ Authenticate(r) \/ Throws(r)
  BY <1>1, ArriveStep, AuthenticateStep, ThrowsStep
<1>2. CASE Link(r)
  BY <1>2, ReadSendsStep, SpendStep, PutChallengeStep, VerifyStep, JudgeStep, ReadBindingStep,
     BindStep, ConfirmStep, PlanStep, AdoptStep, CreditMovedStep DEF Link
<1>3. CASE Devices(r)
  BY <1>3, ResolveStep, ExistsStep, CreateStep, RacedStep, RevokeStep, DeleteStep,
     DeleteAgainStep DEF Devices
<1>4. CASE Plays(r)
  BY <1>4, AppendStep, SubmitStep, CreditDayStep, ProfileStep, JoinStep DEF Plays
<1>5. CASE Departs(r)
  BY <1>5, DrainStep, LeaveStep, ClearStep, DepartStep, ListStep, RevokeListedStep DEF Departs
<1> QED
  BY <1>1, <1>2, <1>3, <1>4, <1>5

-----------------------------------------------------------------------------
(* The purge worker.                                                       *)

LEMMA WorkerFacts ==
    ASSUME Inv, proc[Worker].pc # "idle"
    PROVE  /\ Purging(proc[Worker]) /\ proc[Worker].whose \in AccountIds
           /\ Swept(proc[Worker], proc[Worker].whose)
           /\ purge[proc[Worker].whose] # None
           /\ IsDead(proc[Worker].whose) /\ Cleaned(proc[Worker].whose)
BY DEF Inv, Purging, Stores, Buried, Cleaned

LEMMA WorkerMemory ==
    ASSUME Inv
    PROVE  /\ proc[Worker] \in Memory /\ Worker \notin Requests
           /\ faults \in 0..MaxFaults /\ MaxFaults \in Nat /\ clock \in Nat
BY Named, CodeAssumption, SettleAssumption DEF Inv, Types, RunTypes

(* What the purge of a dead account may take from the stores.              *)
Removes(a) ==
    /\ \A x \in AccountIds \ {a} :
        round'[x] = round[x] /\ score'[x] = score[x] /\ history'[x] = history[x]
    /\ \A s \in Slots :
        round'[a][s] \in {round[a][s], NoRound} /\ score'[a][s] \in {score[a][s], None}
    /\ history'[a] \subseteq history[a]
    /\ member' \subseteq member /\ profile' \subseteq profile /\ depart' \subseteq depart
    /\ \A t \in Tokens : device'[t] = device[t] \/ (Owner(t) = a /\ device'[t] = NoDevice)

WorkTypes ==
    /\ device \in [Tokens -> DeviceItems]
    /\ round \in [AccountIds -> [Slots -> RoundItems]]
    /\ score \in [AccountIds -> [Slots -> Requests \cup {None}]]
    /\ history \in [AccountIds -> SUBSET Slots]

kept == <<setting, account, binding, mail, purge, clock, purged, heir, granted, signedOut>>

LEMMA WorkStep ==
    ASSUME Inv, NEW q \in Memory, Become(Worker, q), Purging(q)', UNCHANGED kept,
           faults' \in 0..MaxFaults, NEW a \in AccountIds, IsDead(a),
           q.pc # "idle" => q.whose = a,
           \/ Cleaned(a)
           \/ purge[a] # None /\ clock >= purge[a] + Settle /\ round' = round,
           Removes(a), WorkTypes', ScoresFound'
    PROVE  Inv'
<1> USE DEF kept, setting, mail
<1>1. /\ proc' \in [Procs -> Memory] /\ proc'[Worker] = q
      /\ \A x \in Requests : proc'[x] = proc[x]
  BY Moved, Named DEF Inv, Types, RunTypes
<1>2. ASSUME NEW x \in AccountIds, NEW s \in Slots
      PROVE  /\ round'[x][s] = round[x][s] \/ (x = a /\ round'[x][s] = NoRound)
             /\ round'[x][s].version = 0 => round'[x][s] = NoRound
             /\ round[x][s].version = 0 => round'[x][s].version = 0
  <2>1. round[x][s].version = 0 => round[x][s] = NoRound
    BY DEF Inv, Types, PlayTypes
  <2>2. NoRound.version = 0
    BY DEF NoRound
  <2>3. round'[x][s] = round[x][s] \/ (x = a /\ round'[x][s] = NoRound)
    BY DEF Removes
  <2> QED
    BY <2>1, <2>2, <2>3
<1>3. Types'
  <2>1. PlayTypes'
    BY <1>2 DEF Removes, WorkTypes, Inv, Types, PlayTypes
  <2> QED
    BY <1>1, <2>1 DEF Removes, WorkTypes, Inv, Types, ItemTypes, JobTypes, GhostTypes, RunTypes
<1>4. ASSUME NEW t \in Tokens
      PROVE  Owner(t)' = Owner(t) \/ (Owner(t) = a /\ Owner(t)' = None)
  BY DEF Removes, Owner, NoDevice
<1>5. ~Live(a)
  BY DEF IsDead, Live
<1>6. Stores'
  <2>1. Accounted'
    BY <1>4 DEF Inv, Stores, Accounted, Born
  <2>2. AddressesAgree' /\ CodesAgree' /\ Buried'
    BY DEF Inv, Stores, AddressesAgree, CodesAgree, Buried, IsDead, Live
  <2>3. Alone'
    BY <1>4, <1>5, Named DEF Inv, Stores, Alone, Live
  <2>4. Erased'
    BY <1>4, Named DEF Inv, Stores, Erased, IsDead
  <2>5. NoOrphanAccount'
    BY <1>4, <1>5, Named DEF Inv, Stores, NoOrphanAccount, Live
  <2> QED
    BY <2>1, <2>2, <2>3, <2>4, <2>5 DEF Stores
<1>7. Onward
  <2>1. clock <= clock /\ \A e \in Emails : Len(codes[e]) <= Len(codes[e])
    BY Facts, WorkerMemory DEF Inv, Types, ItemTypes
  <2>2. ASSUME NEW x \in AccountIds, Cleaned(x)'
        PROVE  Cleaned(x) \/ (purge[x] # None /\ clock >= purge[x] + Settle)
    BY <1>1, <2>2 DEF Cleaned
  <2>3. ASSUME NEW x \in AccountIds, NEW s \in Slots
        PROVE  /\ Live(x) => round'[x][s] = round[x][s]
               /\ Earns(x, s) => Earns(x, s)' \/ Cleaned(x)
    <3>1. CASE x = a
      BY <1>5, <3>1 DEF Earns
    <3>2. CASE x # a
      BY <1>2, <3>2 DEF Earns
    <3> QED
      BY <3>1, <3>2
  <2> QED
    BY <2>1, <2>2, <2>3 DEF Onward, Born, IsDead, IsSaved
<1>8. \A x \in Requests : Truth(x, proc[x])'
  BY <1>1, <1>3, <1>7, OthersKeep
<1>9. Purging(proc[Worker])'
  BY <1>1 DEF Purging, Swept, NoDeparture, NoDeviceOn, Owner
<1>10. ASSUME NEW x \in purged' PROVE Clean(x)'
  <2>1. x \in AccountIds /\ Clean(x)
    BY <1>10 DEF Inv, Types, GhostTypes
  <2>2. history'[x] \subseteq history[x]
    BY <2>1 DEF Removes
  <2>3. NoDeviceOn(x)'
    BY <1>4, <2>1, Named DEF Clean, NoDeviceOn
  <2>4. NoDeparture(x)' /\ x \notin member' \cup profile'
    BY <2>1 DEF Clean, NoDeparture, Removes
  <2> QED
    BY <1>2, <2>1, <2>2, <2>3, <2>4 DEF Clean
<1> QED
  BY <1>3, <1>6, <1>8, <1>9, <1>10 DEF Inv

(* The worker that leaves the stores alone.                                *)
LEMMA WorkQuietly ==
    ASSUME Inv, NEW q \in Memory, Become(Worker, q), Purging(q), UNCHANGED stored,
           faults' \in 0..MaxFaults, NEW a \in AccountIds,
           q.pc # "idle" => q.whose = a,
           IsDead(a),
           Cleaned(a) \/ (purge[a] # None /\ clock >= purge[a] + Settle)
    PROVE  Inv'
<1> USE DEF stored, setting, identity, mail, play, jobs, ghosts
<1>1. UNCHANGED kept /\ UNCHANGED <<device, round, score, history, member, profile, depart>>
  BY DEF kept
<1>2. Purging(q)'
  BY DEF Purging, Swept, NoDeparture, NoDeviceOn, Owner
<1>3. Removes(a) /\ WorkTypes' /\ ScoresFound'
  BY DEF Removes, WorkTypes, ScoresFound, Earns, Inv, Types, ItemTypes, PlayTypes, Stores
<1> QED
  BY <1>1, <1>2, <1>3, WorkStep

LEMMA IdlePurges == Idle \in Memory /\ Idle.pc = "idle" /\ Purging(Idle)
BY IdleTyped DEF Idle, Purging, WorkerPcs

LEMMA TakeJobStep == ASSUME Inv, TakeJob PROVE Inv'
<1>1. PICK a \in AccountIds :
        /\ purge[a] # None /\ Settled(a)
        /\ Become(Worker, [Idle EXCEPT !.pc = "depart", !.whose = a])
  BY DEF TakeJob
<1> DEFINE q == [Idle EXCEPT !.pc = "depart", !.whose = a]
<1>2. q \in Memory /\ q.pc = "depart" /\ q.whose = a
  BY IdlePurges, PcsHold DEF Memory
<1>3. Purging(q)
  BY <1>1, <1>2 DEF Purging, Swept, WorkerPcs, WorkerOnly
<1>4. purge[a] \in Nat /\ clock \in Nat /\ Settle \in Nat
  BY <1>1, WorkerMemory, SettleAssumption DEF Inv, Types, JobTypes
<1>5. clock >= purge[a] + Settle /\ IsDead(a)
  BY <1>1, <1>4 DEF Settled, Inv, Stores, Buried
<1>6. UNCHANGED stored /\ faults' \in 0..MaxFaults
  BY WorkerMemory DEF TakeJob, stored
<1> QED
  BY <1>1, <1>2, <1>3, <1>5, <1>6, WorkQuietly

(* The worker goes on to a departure, to the devices, or puts the job down.*)
LEMMA NextPurges ==
    ASSUME NEW q \in Memory, NEW a \in AccountIds, q.whose = a, q.todo \subseteq AccountIds,
           purge[a] # None, a \notin member,
           q.clean => \A b \in AccountIds : <<a, b>> \in depart => b \in q.todo
    PROVE  /\ NextDeparture(Worker, q) \in Memory /\ Purging(NextDeparture(Worker, q))
           /\ NextDeparture(Worker, q).pc # "idle" => NextDeparture(Worker, q).whose = a
<1>1. CASE q.todo = {} /\ ~q.clean
  BY <1>1, IdlePurges DEF NextDeparture, Drained
<1>2. CASE q.todo = {} /\ q.clean
  <2> DEFINE u == [q EXCEPT !.pc = "list", !.todo = {}]
  <2>1. u \in Memory /\ u.pc = "list" /\ u.whose = a
    BY PcsHold DEF Memory
  <2>2. NextDeparture(Worker, q) = u
    BY <1>2 DEF NextDeparture, Drained
  <2>3. NoDeparture(a)
    BY <1>2 DEF NoDeparture
  <2>4. Purging(u)
    BY <2>1, <2>3 DEF Purging, Swept, WorkerPcs, WorkerOnly
  <2> QED
    BY <2>1, <2>2, <2>4
<1>3. CASE q.todo # {}
  <2> DEFINE u == [q EXCEPT !.pc = "leave"]
  <2>1. u \in Memory /\ u.pc = "leave" /\ Alike(u, q)
    BY Going, PcsHold
  <2>2. NextDeparture(Worker, q) = u
    BY <1>3 DEF NextDeparture
  <2>3. Purging(u)
    BY <2>1 DEF Alike, Purging, Swept, WorkerPcs, WorkerOnly
  <2> QED
    BY <2>1, <2>2, <2>3 DEF Alike
<1> QED
  BY <1>1, <1>2, <1>3

LEMMA DrainWork == ASSUME Inv, Drain(Worker) PROVE Inv'
<1>0. PICK a : a = proc[Worker].whose
  OBVIOUS
<1> DEFINE S == {f \in AccountIds : <<a, f>> \in depart}
           q == [proc[Worker] EXCEPT !.todo = S]
<1>1. /\ UNCHANGED stored /\ faults' = faults /\ proc[Worker].pc = "drain"
      /\ Become(Worker, NextDeparture(Worker, q))
  BY <1>0 DEF Drain, stored, At
<1>2. /\ a \in AccountIds /\ purge[a] # None /\ IsDead(a) /\ Cleaned(a) /\ a \notin member
  BY <1>0, <1>1, WorkerFacts DEF Swept
<1>3. /\ q \in Memory /\ q.todo \subseteq AccountIds /\ q.whose = a
      /\ \A b \in AccountIds : <<a, b>> \in depart => b \in q.todo
  <2>1. S \subseteq AccountIds /\ \A b \in AccountIds : <<a, b>> \in depart => b \in S
    OBVIOUS
  <2> HIDE DEF S
  <2> QED
    BY <1>0, <2>1, WorkerMemory DEF Memory
<1> HIDE DEF q
<1>4. /\ NextDeparture(Worker, q) \in Memory /\ Purging(NextDeparture(Worker, q))
      /\ NextDeparture(Worker, q).pc # "idle" => NextDeparture(Worker, q).whose = a
  BY <1>2, <1>3, NextPurges
<1> QED
  BY <1>1, <1>2, <1>4, WorkerMemory, WorkQuietly

LEMMA DepartWork == ASSUME Inv, DepartGroups(Worker) PROVE Inv'
<1>0. PICK a, q : a = proc[Worker].whose /\ q = [proc[Worker] EXCEPT !.pc = "drain"]
  OBVIOUS
<1>1. /\ UNCHANGED <<kept, device, round, score, history, profile, depart, faults>>
      /\ proc[Worker].pc = "depart" /\ member' = member \ {a} /\ Become(Worker, q)
  BY <1>0 DEF DepartGroups, Goto, At, kept, identity, mail, play, jobs, ghosts
<1>2. a \in AccountIds /\ purge[a] # None /\ IsDead(a) /\ Cleaned(a)
  BY <1>0, <1>1, WorkerFacts
<1>3. q \in Memory /\ q.pc = "drain" /\ Alike(q, proc[Worker])
  BY <1>0, WorkerMemory, Going, PcsHold
<1>4. Purging(q)'
  BY <1>0, <1>1, <1>2, <1>3 DEF Alike, Purging, Swept, WorkerPcs, WorkerOnly, kept
<1>5. Removes(a) /\ WorkTypes' /\ ScoresFound'
  BY <1>1 DEF Removes, WorkTypes, ScoresFound, Earns, Inv, Types, ItemTypes, PlayTypes,
      Stores, kept
<1> QED
  BY <1>0, <1>1, <1>2, <1>3, <1>4, <1>5, WorkerMemory, WorkStep DEF Alike

LEMMA LeaveWork == ASSUME Inv, LeaveOne(Worker) PROVE Inv'
<1>0. PICK a : a = proc[Worker].whose
  OBVIOUS
<1>1. /\ UNCHANGED <<kept, device, round, score, history, profile, depart, faults>>
      /\ proc[Worker].pc = "leave"
  BY DEF LeaveOne, At, kept, identity, mail, play, jobs, ghosts
<1>2. PICK f \in proc[Worker].todo :
        /\ member' = member \ {f}
        /\ Become(Worker, [proc[Worker] EXCEPT !.pc = "clear", !.from = f])
  BY DEF LeaveOne
<1>7. PICK q : q = [proc[Worker] EXCEPT !.pc = "clear", !.from = f]
  OBVIOUS
<1>3. /\ a \in AccountIds /\ purge[a] # None /\ IsDead(a) /\ Cleaned(a)
      /\ Swept(proc[Worker], a) /\ f \in AccountIds
  BY <1>0, <1>1, <1>2, WorkerFacts DEF Swept
<1>4. /\ q \in Memory /\ q.pc = "clear" /\ q.from = f /\ q.whose = a
      /\ q.todo = proc[Worker].todo /\ q.clean = proc[Worker].clean
  BY <1>0, <1>3, <1>7, WorkerMemory, PcsHold DEF Memory
<1>5. Purging(q)'
  BY <1>1, <1>2, <1>3, <1>4 DEF Purging, Swept, WorkerPcs, WorkerOnly, kept
<1>6. Removes(a) /\ WorkTypes' /\ ScoresFound'
  BY <1>1, <1>2 DEF Removes, WorkTypes, ScoresFound, Earns, Inv, Types, ItemTypes, PlayTypes,
      Stores, kept
<1> QED
  BY <1>1, <1>2, <1>3, <1>4, <1>5, <1>6, <1>7, WorkerMemory, WorkStep

LEMMA ClearWork == ASSUME Inv, ClearDeparture(Worker) PROVE Inv'
<1>0. PICK a, f : a = proc[Worker].whose /\ f = proc[Worker].from
  OBVIOUS
<1>7. PICK u : u = [proc[Worker] EXCEPT !.todo = @ \ {f}, !.from = None]
  OBVIOUS
<1>8. PICK q : q = NextDeparture(Worker, u)
  OBVIOUS
<1>1. /\ UNCHANGED <<kept, device, round, score, history, profile, member, faults>>
      /\ proc[Worker].pc = "clear" /\ depart' = depart \ {<<a, f>>} /\ Become(Worker, q)
  BY <1>0, <1>7, <1>8 DEF ClearDeparture, At, kept, identity, mail, play, ghosts
<1>2. /\ a \in AccountIds /\ purge[a] # None /\ IsDead(a) /\ Cleaned(a)
      /\ Swept(proc[Worker], a) /\ f \in AccountIds
  BY <1>0, <1>1, WorkerFacts DEF Swept
<1>3. /\ u \in Memory /\ u.whose = a /\ u.todo = proc[Worker].todo \ {f}
      /\ u.clean = proc[Worker].clean
  BY <1>0, <1>7, WorkerMemory DEF Memory
<1>4. /\ u.todo \subseteq AccountIds /\ a \notin member
      /\ u.clean => \A b \in AccountIds : <<a, b>> \in depart' => b \in u.todo
  BY <1>1, <1>2, <1>3 DEF Swept
<1>5. q \in Memory /\ Purging(q)' /\ (q.pc # "idle" => q.whose = a)
  <2>1. CASE u.todo = {} /\ ~u.clean
    BY <1>8, <2>1, IdlePurges DEF NextDeparture, Drained, Idle, Purging, WorkerPcs
  <2>2. CASE u.todo = {} /\ u.clean
    <3> DEFINE v == [u EXCEPT !.pc = "list", !.todo = {}]
    <3>1. v \in Memory /\ v.pc = "list" /\ v.whose = a
      BY <1>3, PcsHold DEF Memory
    <3>2. q = v
      BY <1>8, <2>2 DEF NextDeparture, Drained
    <3>3. NoDeparture(a)'
      BY <1>4, <2>2 DEF NoDeparture
    <3> HIDE DEF v
    <3>4. Purging(v)'
      BY <1>1, <1>2, <1>4, <3>1, <3>3 DEF Purging, Swept, WorkerPcs, WorkerOnly, kept
    <3>5. Purging(q)'
      BY <3>2, <3>4
    <3> QED
      BY <3>1, <3>2, <3>5
  <2>3. CASE u.todo # {}
    <3> DEFINE v == [u EXCEPT !.pc = "leave"]
    <3>1. v \in Memory /\ v.pc = "leave" /\ Alike(v, u)
      BY <1>3, Going, PcsHold
    <3>2. q = v
      BY <1>8, <2>3 DEF NextDeparture
    <3> HIDE DEF v
    <3>3. Purging(v)'
      BY <1>1, <1>2, <1>3, <1>4, <3>1 DEF Alike, Purging, Swept, WorkerPcs, WorkerOnly, kept
    <3>4. Purging(q)'
      BY <3>2, <3>3
    <3> QED
      BY <1>3, <3>1, <3>2, <3>4 DEF Alike
  <2> QED
    BY <2>1, <2>2, <2>3
<1>6. Removes(a) /\ WorkTypes' /\ ScoresFound'
  BY <1>1 DEF Removes, WorkTypes, ScoresFound, Earns, Inv, Types, ItemTypes, PlayTypes,
      Stores, kept
<1> QED
  BY <1>1, <1>2, <1>5, <1>6, WorkerMemory, WorkStep

LEMMA ListWork == ASSUME Inv, ListDevices(Worker) PROVE Inv'
<1>0. PICK a : a = proc[Worker].whose
  OBVIOUS
<1> DEFINE S == Rows(a)
           q == [proc[Worker] EXCEPT !.pc = "revoke", !.todo = S]
<1>1. /\ UNCHANGED stored /\ faults' = faults /\ proc[Worker].pc = "list" /\ Become(Worker, q)
  BY <1>0 DEF ListDevices, Listing, stored, At
<1>2. /\ a \in AccountIds /\ purge[a] # None /\ IsDead(a) /\ Cleaned(a)
      /\ Swept(proc[Worker], a)
  BY <1>0, <1>1, WorkerFacts
<1>3. S \subseteq Listed /\ \A t \in Tokens : Owner(t) = a => <<t, device[t].id>> \in S
  BY DEF Rows, Listed, Inv, Types, ItemTypes, DeviceItems
<1> HIDE DEF S
<1>4. q \in Memory /\ q.pc = "revoke" /\ q.todo = S /\ q.whose = a
  BY <1>0, <1>3, WorkerMemory, PcsHold DEF Memory
<1> HIDE DEF q
<1>5. Purging(q)
  BY <1>1, <1>2, <1>3, <1>4 DEF Purging, Swept, WorkerPcs, WorkerOnly
<1> QED
  BY <1>1, <1>2, <1>4, <1>5, WorkerMemory, WorkQuietly

LEMMA RevokeWork == ASSUME Inv, RevokeListed(Worker) PROVE Inv'
<1>0. PICK a : a = proc[Worker].whose
  OBVIOUS
<1> DEFINE q == [proc[Worker] EXCEPT !.pc = "keys"]
<1>1. /\ UNCHANGED <<kept, round, score, history, profile, member, depart, faults>>
      /\ proc[Worker].pc = "revoke"
  BY DEF RevokeListed, At, kept, mail, play, jobs, ghosts
<1>2. /\ a \in AccountIds /\ purge[a] # None /\ IsDead(a) /\ Cleaned(a)
      /\ Swept(proc[Worker], a) /\ proc[Worker].todo \subseteq Listed
      /\ \A t \in Tokens : Owner(t) = a => <<t, device[t].id>> \in proc[Worker].todo
  BY <1>0, <1>1, WorkerFacts DEF Swept
<1>3. ScoresFound'
  BY <1>1 DEF ScoresFound, Earns, Inv, Stores, kept
<1>4. CASE proc[Worker].todo = {} /\ Become(Worker, q) /\ UNCHANGED device
  <2>1. q \in Memory /\ q.pc = "keys" /\ Alike(q, proc[Worker])
    BY WorkerMemory, Going, PcsHold
  <2>2. NoDeviceOn(a)
    BY <1>2, <1>4 DEF NoDeviceOn
  <2> HIDE DEF q
  <2>3. Purging(q)
    BY <1>0, <1>1, <1>2, <2>1, <2>2 DEF Alike, Purging, Swept, WorkerPcs, WorkerOnly
  <2>4. UNCHANGED stored /\ faults' = faults
    BY <1>1, <1>4 DEF stored, kept, identity, play, jobs, ghosts
  <2> QED
    BY <1>0, <1>2, <1>4, <2>1, <2>3, <2>4, WorkerMemory, WorkQuietly DEF Alike
<1>5. ASSUME NEW row \in proc[Worker].todo,
             device' = IF StillHolds(row[1], row[2], a)
                       THEN [device EXCEPT ![row[1]] = NoDevice] ELSE device,
             Become(Worker, [proc[Worker] EXCEPT !.todo = @ \ {row}])
      PROVE  Inv'
  <2>0. PICK u : u = [proc[Worker] EXCEPT !.todo = @ \ {row}]
    OBVIOUS
  <2>1. /\ u \in Memory /\ u.pc = "revoke" /\ u.whose = a
        /\ u.todo = proc[Worker].todo \ {row}
    BY <1>0, <1>1, <2>0, WorkerMemory DEF Memory
  <2>2. row \in Listed /\ row[1] \in Tokens /\ row = <<row[1], row[2]>>
    BY <1>2 DEF Listed
  <2>3. /\ device' \in [Tokens -> DeviceItems]
        /\ \A t \in Tokens :
            \/ device'[t] = device[t]
            \/ t = row[1] /\ Owner(t) = a /\ device'[t] = NoDevice
        /\ StillHolds(row[1], row[2], a) => Owner(row[1])' = None
    <3>1. NoDevice \in DeviceItems /\ NoDevice.account = None
      BY DEF NoDevice, DeviceItems
    <3>2. device \in [Tokens -> DeviceItems]
      BY DEF Inv, Types, ItemTypes
    <3>3. CASE StillHolds(row[1], row[2], a)
      BY <1>5, <2>2, <3>1, <3>2, <3>3 DEF StillHolds, Owner
    <3>4. CASE ~StillHolds(row[1], row[2], a)
      BY <1>5, <3>2, <3>4
    <3> QED
      BY <3>3, <3>4
  <2>4. ASSUME NEW t \in Tokens, Owner(t)' = a PROVE <<t, device'[t].id>> \in u.todo
    <3>1. device'[t] = device[t] /\ Owner(t) = a
      BY <1>2, <2>3, <2>4, Named DEF Owner, NoDevice
    <3>2. <<t, device[t].id>> \in proc[Worker].todo
      BY <1>2, <3>1
    <3>3. <<t, device[t].id>> # row
      <4>1. SUFFICES ASSUME <<t, device[t].id>> = row PROVE FALSE
        OBVIOUS
      <4>2. row[1] = t /\ row[2] = device[t].id
        BY <4>1
      <4>3. StillHolds(row[1], row[2], a)
        BY <3>1, <4>2 DEF StillHolds
      <4> QED
        BY <1>2, <2>3, <2>4, <4>2, <4>3, Named
    <3> QED
      BY <2>1, <3>1, <3>2, <3>3
  <2>5. Purging(u)'
    <3>1. u.todo \subseteq Listed
      BY <1>2, <2>1
    <3> QED
      BY <1>1, <1>2, <2>1, <2>4, <3>1
         DEF Purging, Swept, WorkerPcs, WorkerOnly, kept, NoDeparture
  <2>6. Removes(a) /\ WorkTypes'
    BY <1>1, <2>3 DEF Removes, WorkTypes, Inv, Types, PlayTypes
  <2> QED
    BY <1>1, <1>2, <1>3, <1>5, <2>0, <2>1, <2>5, <2>6, WorkerMemory,
       WorkStep
<1> QED
  BY <1>0, <1>4, <1>5 DEF RevokeListed, Goto

LEMMA ListRoundsWork == ASSUME Inv, ListRounds PROVE Inv'
<1>0. PICK a : a = proc[Worker].whose
  OBVIOUS
<1> DEFINE keys == {s \in Slots : round[a][s].version > 0}
           q == [proc[Worker] EXCEPT !.todo = keys,
                                     !.pc = IF keys = {} THEN "sweep" ELSE "score"]
<1>1. /\ UNCHANGED stored /\ faults' = faults /\ proc[Worker].pc = "keys" /\ Become(Worker, q)
  BY <1>0 DEF ListRounds, stored, At
<1>2. /\ a \in AccountIds /\ purge[a] # None /\ IsDead(a) /\ Cleaned(a)
      /\ Swept(proc[Worker], a)
  BY <1>0, <1>1, WorkerFacts
<1>3. keys \subseteq Slots /\ \A s \in Slots : round[a][s].version > 0 => s \in keys
  OBVIOUS
<1> HIDE DEF keys
<1>4. /\ q \in Memory /\ q.pc = (IF keys = {} THEN "sweep" ELSE "score") /\ q.todo = keys
      /\ q.whose = a
  <2> DEFINE pc == IF keys = {} THEN "sweep" ELSE "score"
  <2>1. pc \in Pcs
    BY PcsHold
  <2> HIDE DEF pc
  <2>2. /\ [proc[Worker] EXCEPT !.todo = keys, !.pc = pc] \in Memory
        /\ [proc[Worker] EXCEPT !.todo = keys, !.pc = pc].pc = pc
        /\ [proc[Worker] EXCEPT !.todo = keys, !.pc = pc].todo = keys
        /\ [proc[Worker] EXCEPT !.todo = keys, !.pc = pc].whose = a
    BY <1>0, <1>3, <2>1, WorkerMemory DEF Memory
  <2> QED
    BY <2>2 DEF pc
<1> HIDE DEF q
<1>5. keys = {} => \A s \in Slots : round[a][s].version = 0
  BY <1>2, <1>3 DEF Inv, Types, PlayTypes, RoundItems
<1>6. Purging(q)
  BY <1>1, <1>2, <1>3, <1>4, <1>5 DEF Purging, Swept, WorkerPcs, WorkerOnly
<1> QED
  BY <1>1, <1>2, <1>4, <1>6, WorkerMemory, WorkQuietly

LEMMA RemoveScoreWork == ASSUME Inv, RemoveScore PROVE Inv'
<1>0. PICK a : a = proc[Worker].whose
  OBVIOUS
<1>1. /\ UNCHANGED <<kept, device, round, history, profile, member, depart, faults>>
      /\ proc[Worker].pc = "score"
  BY DEF RemoveScore, At, kept, identity, jobs, ghosts
<1>2. PICK s \in proc[Worker].todo :
        /\ score' = [score EXCEPT ![a][s] = None]
        /\ Become(Worker, [proc[Worker] EXCEPT !.pc = "round", !.from = s])
  BY <1>0 DEF RemoveScore
<1>3. PICK q : q = [proc[Worker] EXCEPT !.pc = "round", !.from = s]
  OBVIOUS
<1>4. /\ a \in AccountIds /\ purge[a] # None /\ IsDead(a) /\ Cleaned(a)
      /\ Swept(proc[Worker], a) /\ s \in Slots
  BY <1>0, <1>1, <1>2, WorkerFacts DEF Swept
<1>5. /\ q \in Memory /\ q.pc = "round" /\ q.from = s /\ q.whose = a
      /\ q.todo = proc[Worker].todo
  BY <1>0, <1>3, <1>4, WorkerMemory, PcsHold DEF Memory
<1>6. /\ score' \in [AccountIds -> [Slots -> Requests \cup {None}]]
      /\ score'[a][s] = None
      /\ \A x \in AccountIds \ {a} : score'[x] = score[x]
      /\ \A x \in AccountIds, y \in Slots : score'[x][y] \in {score[x][y], None}
  BY <1>2, <1>4 DEF Inv, Types, PlayTypes
<1>7. Purging(q)'
  BY <1>1, <1>4, <1>5, <1>6 DEF Purging, Swept, WorkerPcs, WorkerOnly, kept, NoDeparture,
      NoDeviceOn, Owner
<1>8. Removes(a) /\ WorkTypes'
  <2>1. Removes(a)
    BY <1>1, <1>4, <1>6 DEF Removes
  <2> QED
    BY <1>1, <1>6, <2>1 DEF WorkTypes, Inv, Types, ItemTypes, PlayTypes
<1>9. ScoresFound'
  BY <1>1, <1>6 DEF ScoresFound, Earns, Inv, Stores, kept
<1> QED
  BY <1>1, <1>2, <1>3, <1>4, <1>5, <1>7, <1>8, <1>9, WorkerMemory, WorkStep

LEMMA RemoveRoundWork == ASSUME Inv, RemoveRound PROVE Inv'
<1>0. PICK a, s : a = proc[Worker].whose /\ s = proc[Worker].from
  OBVIOUS
<1>1. PICK pc : pc = IF proc[Worker].todo = {s} THEN "sweep" ELSE "score"
  OBVIOUS
<1>2. PICK q : q = [proc[Worker] EXCEPT !.todo = @ \ {s}, !.from = None, !.pc = pc]
  OBVIOUS
<1>3. /\ UNCHANGED <<kept, device, score, history, profile, member, depart, faults>>
      /\ proc[Worker].pc = "round" /\ round' = [round EXCEPT ![a][s] = NoRound]
      /\ Become(Worker, q)
  BY <1>0, <1>1, <1>2 DEF RemoveRound, At, kept, identity, jobs, ghosts
<1>4. /\ a \in AccountIds /\ purge[a] # None /\ IsDead(a) /\ Cleaned(a)
      /\ Swept(proc[Worker], a) /\ s \in Slots /\ score[a][s] = None
      /\ proc[Worker].todo \subseteq Slots
      /\ \A y \in Slots : round[a][y].version > 0 => y \in proc[Worker].todo
  BY <1>0, <1>3, WorkerFacts DEF Swept
<1>5. /\ q \in Memory /\ q.pc = pc /\ q.whose = a /\ q.todo = proc[Worker].todo \ {s}
  <2>1. pc \in Pcs
    BY <1>1, PcsHold
  <2> QED
    BY <1>0, <1>2, <2>1, WorkerMemory DEF Memory
<1>6. /\ round' \in [AccountIds -> [Slots -> RoundItems]]
      /\ round'[a][s] = NoRound /\ NoRound.version = 0
      /\ \A x \in AccountIds \ {a} : round'[x] = round[x]
      /\ \A x \in AccountIds, y \in Slots : x # a \/ y # s => round'[x][y] = round[x][y]
  <2>1. NoRound \in RoundItems /\ NoRound.version = 0
    BY DEF NoRound, RoundItems
  <2> QED
    BY <1>3, <1>4, <2>1 DEF Inv, Types, PlayTypes
<1>7. /\ \A y \in Slots : round'[a][y].version > 0 => y \in q.todo
      /\ pc = "sweep" => \A y \in Slots : round'[a][y].version = 0
  <2>1. ASSUME NEW y \in Slots, round'[a][y].version > 0 PROVE y \in q.todo
    BY <1>4, <1>5, <1>6, <2>1
  <2>2. ASSUME pc = "sweep", NEW y \in Slots PROVE round'[a][y].version = 0
    <3>1. q.todo = {} /\ round'[a][y].version \in Nat
      BY <1>1, <1>4, <1>5, <1>6, <2>2 DEF RoundItems
    <3> QED
      BY <2>1, <3>1
  <2> QED
    BY <2>1, <2>2
<1>8. Purging(q)'
  BY <1>1, <1>3, <1>4, <1>5, <1>7 DEF Purging, Swept, WorkerPcs, WorkerOnly, kept,
      NoDeparture, NoDeviceOn, Owner
<1>9. Removes(a) /\ WorkTypes'
  BY <1>3, <1>4, <1>6 DEF Removes, WorkTypes, Inv, Types, ItemTypes, PlayTypes
<1>10. ScoresFound'
  <2>1. ASSUME NEW x \in AccountIds, NEW y \in Slots, score[x][y] # None PROVE Earns(x, y)'
    <3>1. Earns(x, y) /\ ~(x = a /\ y = s)
      BY <1>4, <2>1 DEF Inv, Stores, ScoresFound
    <3> QED
      BY <1>3, <1>6, <3>1 DEF Earns, kept
  <2> QED
    BY <1>3, <2>1 DEF ScoresFound
<1> QED
  BY <1>3, <1>4, <1>5, <1>8, <1>9, <1>10, WorkerMemory, WorkStep

LEMMA SweepWork == ASSUME Inv, Sweep PROVE Inv'
<1>0. PICK a, q : a = proc[Worker].whose /\ q = [proc[Worker] EXCEPT !.pc = "finish"]
  OBVIOUS
<1>1. /\ UNCHANGED <<kept, device, round, score, member, depart, faults>>
      /\ proc[Worker].pc = "sweep" /\ history' = [history EXCEPT ![a] = {}]
      /\ profile' = profile \ {a} /\ Become(Worker, q)
  BY <1>0 DEF Sweep, Goto, At, kept, identity, jobs, ghosts
<1>2. /\ a \in AccountIds /\ purge[a] # None /\ IsDead(a) /\ Cleaned(a)
      /\ Swept(proc[Worker], a)
  BY <1>0, <1>1, WorkerFacts
<1>3. q \in Memory /\ q.pc = "finish" /\ Alike(q, proc[Worker])
  BY <1>0, WorkerMemory, Going, PcsHold
<1>4. /\ history' \in [AccountIds -> SUBSET Slots] /\ history'[a] = {}
      /\ \A x \in AccountIds \ {a} : history'[x] = history[x]
  BY <1>1, <1>2 DEF Inv, Types, PlayTypes
<1>5. Purging(q)'
  BY <1>0, <1>1, <1>2, <1>3, <1>4 DEF Alike, Purging, Swept, WorkerPcs, WorkerOnly, kept,
      NoDeparture, NoDeviceOn, Owner
<1>6. Removes(a) /\ WorkTypes' /\ ScoresFound'
  BY <1>1, <1>4 DEF Removes, WorkTypes, ScoresFound, Earns, Inv, Types, ItemTypes, PlayTypes,
      Stores, kept
<1> QED
  BY <1>0, <1>1, <1>2, <1>3, <1>5, <1>6, WorkerMemory, WorkStep DEF Alike

LEMMA ThrowsWork == ASSUME Inv, Throws(Worker) PROVE Inv'
<1>0. PICK a : a = proc[Worker].whose
  OBVIOUS
<1> DEFINE p == proc[Worker]
<1>1. UNCHANGED stored /\ faults' \in 0..MaxFaults /\ p.pc # "idle"
  BY WorkerMemory DEF Throws, stored
<1>2. PICK q \in Carried(Worker) : Become(Worker, q)
  BY DEF Throws
<1>3. /\ a \in AccountIds /\ purge[a] # None /\ IsDead(a) /\ Cleaned(a)
      /\ Swept(p, a) /\ Purging(p)
  BY <1>0, <1>1, WorkerFacts
<1>4. q \in Memory /\ Purging(q) /\ (q.pc # "idle" => q.whose = a)
  <2>1. CASE p.pc \in {"drain", "depart"}
    <3> DEFINE u == [p EXCEPT !.clean = FALSE]
    <3>1. q = Drained(Worker, u) /\ u.clean = FALSE
      BY <1>2, <2>1, WorkerMemory DEF Carried, Memory
    <3>2. q = Idle
      BY <3>1 DEF Drained
    <3> QED
      BY <3>2, IdlePurges
  <2>2. ASSUME NEW u \in Memory, u.todo \subseteq AccountIds, u.whose = a, u.clean = FALSE,
               q = NextDeparture(Worker, u), a \notin member
        PROVE  q \in Memory /\ Purging(q) /\ (q.pc # "idle" => q.whose = a)
    BY <1>3, <2>2, NextPurges
  <2>3. CASE p.pc = "leave"
    <3>1. PICK f \in p.todo :
            q = NextDeparture(Worker, [p EXCEPT !.todo = @ \ {f}, !.clean = FALSE])
      BY <1>2, <2>3 DEF Carried
    <3> DEFINE u == [p EXCEPT !.todo = @ \ {f}, !.clean = FALSE]
    <3>2. /\ u \in Memory /\ u.todo \subseteq AccountIds /\ u.whose = a /\ u.clean = FALSE
          /\ a \notin member
      BY <1>0, <1>3, <2>3, WorkerMemory DEF Memory, Swept
    <3> HIDE DEF u
    <3> QED
      BY <2>2, <3>1, <3>2 DEF u
  <2>4. CASE p.pc = "clear"
    <3> DEFINE u == [p EXCEPT !.todo = @ \ {p.from}, !.from = None, !.clean = FALSE]
    <3>1. q = NextDeparture(Worker, u)
      BY <1>2, <2>4 DEF Carried
    <3>2. /\ u \in Memory /\ u.todo \subseteq AccountIds /\ u.whose = a /\ u.clean = FALSE
          /\ a \notin member
      BY <1>0, <1>3, <2>4, WorkerMemory DEF Memory, Swept
    <3> HIDE DEF u
    <3> QED
      BY <2>2, <3>1, <3>2
  <2>5. p.pc \in {"drain", "depart", "leave", "clear"}
    BY <1>1, <1>2, <1>3 DEF Carried, Purging, WorkerPcs, WorkerOnly
  <2> QED
    BY <2>1, <2>3, <2>4, <2>5
<1> QED
  BY <1>1, <1>2, <1>3, <1>4, WorkQuietly

LEMMA StopsWork == ASSUME Inv, WorkerStops PROVE Inv'
<1>0. PICK a : a = proc[Worker].whose
  OBVIOUS
<1>1. /\ UNCHANGED stored /\ faults' \in 0..MaxFaults /\ proc[Worker].pc # "idle"
      /\ Become(Worker, Idle)
  BY WorkerMemory DEF WorkerStops, stored
<1>2. a \in AccountIds /\ IsDead(a) /\ Cleaned(a)
  BY <1>0, <1>1, WorkerFacts
<1> QED
  BY <1>1, <1>2, IdlePurges, WorkQuietly

(* The job is cleared: nothing was left, and nothing will appear.          *)
LEMMA ClearPurgeStep == ASSUME Inv, ClearPurge PROVE Inv'
<1> USE DEF setting, identity, mail, play
<1>0. PICK a : a = proc[Worker].whose
  OBVIOUS
<1>1. /\ UNCHANGED <<setting, identity, mail, play, depart, member, clock, faults,
                     granted, heir, signedOut>>
      /\ proc[Worker].pc = "finish" /\ purge' = [purge EXCEPT ![a] = None]
      /\ purged' = purged \cup {a} /\ Become(Worker, Idle)
  BY <1>0 DEF ClearPurge, At
<1>2. /\ a \in AccountIds /\ purge[a] # None /\ IsDead(a) /\ Cleaned(a)
      /\ Swept(proc[Worker], a)
  BY <1>0, <1>1, WorkerFacts
<1>3. /\ proc' \in [Procs -> Memory] /\ proc'[Worker] = Idle
      /\ \A x \in Requests : proc'[x] = proc[x]
  BY <1>1, IdlePurges, Moved, Named DEF Inv, Types, RunTypes
<1>4. /\ purge' \in [AccountIds -> 0..MaxClock \cup {None}] /\ purge'[a] = None
      /\ \A x \in AccountIds \ {a} : purge'[x] = purge[x]
  BY <1>1, <1>2 DEF Inv, Types, JobTypes
<1>5. Clean(a)
  BY <1>1, <1>2 DEF Swept, Clean, WorkerOnly
<1>6. Types'
  BY <1>1, <1>2, <1>3, <1>4
     DEF Inv, Types, ItemTypes, PlayTypes, JobTypes, GhostTypes, RunTypes
<1>7. Stores'
  <2>1. Accounted' /\ AddressesAgree' /\ Alone' /\ Erased' /\ NoOrphanAccount'
    BY <1>1 DEF Inv, Stores, Accounted, AddressesAgree, Alone, Erased, NoOrphanAccount, Live,
           Owner, Born, IsDead
  <2>2. CodesAgree' /\ ScoresFound'
    BY <1>1 DEF Inv, Stores, CodesAgree, ScoresFound, Earns
  <2>3. Buried'
    BY <1>1, <1>2, <1>4 DEF Inv, Stores, Buried, IsDead
  <2> QED
    BY <2>1, <2>2, <2>3 DEF Stores
<1>8. \A x \in AccountIds : Cleaned(x)' => Cleaned(x)
  BY <1>1, <1>2, <1>3, IdlePurges DEF Cleaned
<1>9. Onward
  <2>1. clock <= clock /\ \A e \in Emails : Len(codes[e]) <= Len(codes[e])
    BY WorkerMemory DEF Inv, Types, ItemTypes
  <2>2. \A x \in AccountIds : purge'[x] # None => purge'[x] = purge[x]
    BY <1>4
  <2> QED
    BY <1>1, <1>8, <2>1, <2>2 DEF Onward, Born, IsDead, IsSaved, Earns
<1>10. \A x \in Requests : Truth(x, proc[x])'
  BY <1>3, <1>6, <1>9, OthersKeep
<1>11. Purging(proc[Worker])'
  BY <1>3, IdlePurges DEF Purging, WorkerPcs
<1>12. ASSUME NEW x \in purged' PROVE Clean(x)'
  <2>1. Clean(x)
    BY <1>1, <1>5, <1>12 DEF Inv
  <2> QED
    BY <1>1, <2>1 DEF Clean, NoDeviceOn, NoDeparture, Owner
<1> QED
  BY <1>6, <1>7, <1>10, <1>11, <1>12 DEF Inv

LEMMA TickStep == ASSUME Inv, Tick PROVE Inv'
<1> USE DEF setting, identity, mail, play, jobs, ghosts
<1>1. /\ UNCHANGED <<setting, identity, mail, play, jobs, member, proc, faults, ghosts>>
      /\ clock < horizon /\ clock' = clock + 1
  BY DEF Tick
<1>2. clock \in Nat /\ clock' \in 0..MaxClock /\ clock <= clock' /\ clock' <= horizon
  BY <1>1, SettleAssumption DEF Inv, Types, RunTypes
<1>3. Types'
  BY <1>1, <1>2 DEF Inv, Types, ItemTypes, PlayTypes, JobTypes, GhostTypes, RunTypes
<1>4. Stores'
  <2>1. Accounted' /\ AddressesAgree' /\ Alone' /\ Erased' /\ NoOrphanAccount'
    BY <1>1 DEF Inv, Stores, Accounted, AddressesAgree, Alone, Erased, NoOrphanAccount, Live,
           Owner, Born, IsDead
  <2>2. CodesAgree' /\ ScoresFound'
    BY <1>1 DEF Inv, Stores, CodesAgree, ScoresFound, Earns
  <2>3. Buried'
    <3>1. ASSUME NEW x \in AccountIds, purge[x] # None PROVE IsDead(x) /\ purge[x] <= clock'
      <4>1. IsDead(x) /\ purge[x] <= clock /\ purge[x] \in Nat
        BY <3>1, SettleAssumption DEF Inv, Types, JobTypes, Stores, Buried
      <4> QED
        BY <1>1, <1>2, <4>1
    <3> QED
      BY <1>1, <3>1 DEF Inv, Stores, Buried, IsDead
  <2> QED
    BY <2>1, <2>2, <2>3 DEF Stores
<1>5. \A x : Cleaned(x)' <=> Cleaned(x)
  BY <1>1 DEF Cleaned
<1>6. Onward
  <2>1. \A e \in Emails : Len(codes[e]) <= Len(codes[e])
    BY DEF Inv, Types, ItemTypes
  <2> QED
    BY <1>1, <1>2, <1>5, <2>1 DEF Onward, Born, IsDead, IsSaved, Earns
<1>7. \A x \in Requests : Truth(x, proc[x])'
  BY <1>1, <1>3, <1>6, OthersKeep
<1>8. Purging(proc[Worker])'
  BY <1>1 DEF Inv, Purging, Swept, NoDeparture, NoDeviceOn, Owner
<1>9. \A x \in purged' : Clean(x)'
  BY <1>1 DEF Inv, Clean, NoDeviceOn, NoDeparture, Owner
<1> QED
  BY <1>3, <1>4, <1>7, <1>8, <1>9 DEF Inv

-----------------------------------------------------------------------------
(* A run begins in the invariant, and every step keeps it.                 *)

LEMMA InitHolds == Init => Inv
<1> SUFFICES ASSUME Init PROVE Inv
  OBVIOUS
<1>1. PICK s \in Starts :
        /\ job = s.job /\ horizon = s.horizon /\ account = s.account /\ device = s.device
        /\ binding = s.binding /\ challenge = s.challenge /\ codes = s.codes
        /\ sends = s.sends /\ round = s.round /\ member = s.member
  BY DEF Init
<1>2. Startable(s)
  BY StartsAssumption
<1>3. /\ depart = {} /\ purge = [a \in AccountIds |-> None]
      /\ score = [a \in AccountIds |-> [x \in Slots |-> None]]
      /\ history = [a \in AccountIds |-> {}] /\ profile = {}
      /\ proc = [p \in Procs |-> Idle] /\ clock = 0 /\ faults = 0
      /\ granted = [e \in Emails |-> <<>>] /\ purged = {} /\ signedOut = {}
      /\ heir = [a \in AccountIds |-> [to |-> None, rounds |-> {}]]
  BY DEF Init
<1>4. Types
  <2>1. ItemTypes
    BY <1>1, <1>2 DEF Startable, ItemTypes
  <2>2. PlayTypes
    BY <1>1, <1>2, <1>3 DEF Startable, PlayTypes
  <2>3. JobTypes
    BY <1>1, <1>2, <1>3 DEF Startable, JobTypes
  <2>4. GhostTypes
    BY <1>3 DEF GhostTypes, Heirs
  <2>5. RunTypes
    BY <1>1, <1>2, <1>3, IdleTyped, SettleAssumption, CodeAssumption DEF Startable, RunTypes
  <2> QED
    BY <2>1, <2>2, <2>3, <2>4, <2>5 DEF Types
<1>5. Stores
  <2>1. AddressesAgree
    BY <1>1, <1>2 DEF Startable, AddressesAgree, Live
  <2>2. Accounted
    <3>1. \A t \in Tokens : Owner(t) \in AccountIds \cup {None}
      BY <1>4 DEF Types, ItemTypes, DeviceItems, Owner
    <3> QED
      BY <1>1, <1>2, <3>1 DEF Startable, Accounted, Born, Owner
  <2>3. Alone
    <3> SUFFICES ASSUME NEW t \in Tokens, NEW u \in Tokens, Owner(t) = Owner(u),
                        Live(Owner(t)), account[Owner(t)].email = None
                 PROVE  t = u
      BY DEF Alone
    <3>1. PICK v \in Tokens : \A y \in Tokens : s.device[y].account = Owner(t) <=> y = v
      BY <1>1, <1>2 DEF Startable, Live
    <3> QED
      BY <1>1, <3>1 DEF Owner
  <2>4. Erased
    BY <1>3 DEF Erased
  <2>5. NoOrphanAccount
    <3> SUFFICES ASSUME NEW a \in AccountIds, Live(a), account[a].email = None
                 PROVE  \E t \in Tokens : Owner(t) = a
      BY DEF NoOrphanAccount
    <3>1. PICK v \in Tokens : \A y \in Tokens : s.device[y].account = a <=> y = v
      BY <1>1, <1>2 DEF Startable, Live
    <3> QED
      BY <1>1, <3>1 DEF Owner
  <2>6. CodesAgree
    BY <1>1, <1>2, <1>3 DEF Startable, CodesAgree
  <2>7. ScoresFound /\ Buried
    BY <1>3 DEF ScoresFound, Buried
  <2> QED
    BY <2>1, <2>2, <2>3, <2>4, <2>5, <2>6, <2>7 DEF Stores
<1>6. ASSUME NEW r \in Requests PROVE Truth(r, proc[r])
  BY <1>3, Named DEF Idle, Truth, Way, Known, Coded, Target, Planned, Ended, Earned, Timely,
      Acting, Guests, Linking, Pcs, WorkerOnly
<1>7. Purging(proc[Worker])
  BY <1>3, Named, IdlePurges
<1> QED
  BY <1>3, <1>4, <1>5, <1>6, <1>7 DEF Inv

LEMMA NextKeeps == Inv /\ [Next]_vars => Inv'
<1> SUFFICES ASSUME Inv, [Next]_vars PROVE Inv'
  OBVIOUS
<1>1. CASE UNCHANGED vars
  <2>1. /\ UNCHANGED <<job, horizon, account, device, binding, challenge, codes, sends>>
        /\ UNCHANGED <<depart, purge, round, score, history, profile, member, proc, clock>>
        /\ UNCHANGED <<faults, granted, purged, heir, signedOut>>
    BY <1>1 DEF vars, setting, identity, mail, play, jobs, ghosts
  <2>2. Types' /\ Stores'
    BY <2>1 DEF Inv, Types, ItemTypes, PlayTypes, JobTypes, GhostTypes, RunTypes, Stores,
        Accounted, AddressesAgree, Alone, Erased, NoOrphanAccount, CodesAgree, ScoresFound,
        Buried, Live, Owner, Born, IsDead, Earns
  <2>3. \A x : Cleaned(x)' <=> Cleaned(x)
    BY <2>1 DEF Cleaned
  <2>4. Onward
    <3>1. clock <= clock /\ \A e \in Emails : Len(codes[e]) <= Len(codes[e])
      BY WorkerMemory DEF Inv, Types, ItemTypes
    <3> QED
      BY <2>1, <2>3, <3>1 DEF Onward, Born, IsDead, IsSaved, Earns
  <2>5. \A x \in Requests : Truth(x, proc[x])'
    BY <2>1, <2>2, <2>4, OthersKeep
  <2>6. Purging(proc[Worker])' /\ \A x \in purged' : Clean(x)'
    BY <2>1 DEF Inv, Purging, Swept, Clean, NoDeparture, NoDeviceOn, Owner
  <2> QED
    BY <2>2, <2>5, <2>6 DEF Inv
<1>2. ASSUME NEW r \in Requests,
             \/ Arrive(r) \/ Authenticate(r) \/ Link(r) \/ Devices(r) \/ Plays(r)
             \/ Departs(r) \/ Throws(r)
      PROVE  Inv'
  BY <1>2, RequestsKeep
<1>3. CASE Departs(Worker) \/ Throws(Worker)
  BY <1>3, DrainWork, LeaveWork, ClearWork, DepartWork, ListWork, RevokeWork, ThrowsWork
     DEF Departs
<1>4. CASE Purges \/ WorkerStops \/ Tick
  BY <1>4, TakeJobStep, ListRoundsWork, RemoveScoreWork, RemoveRoundWork, SweepWork,
     ClearPurgeStep, StopsWork, TickStep DEF Purges
<1> QED
  BY <1>1, <1>2, <1>3, <1>4 DEF Next, Procs

(* Everything the stores, the requests and the worker rely on holds in     *)
(* every state.                                                            *)
THEOREM Invariance == Spec => []Inv
<1>1. Init => Inv
  BY InitHolds
<1>2. Inv /\ [Next]_vars => Inv'
  BY NextKeeps
<1> QED
  BY <1>1, <1>2, PTL DEF Spec

(* Devices, accounts, addresses and whoever plays on them stay together,   *)
(* whatever requests interleave, throw or stop (dynamoDeviceStore.ts,      *)
(* dynamoLinkStore.ts, devices.ts).                                        *)
THEOREM Reachable == Spec => []AccountsReachable
<1>1. Inv => AccountsReachable
  <2> SUFFICES ASSUME Inv PROVE AccountsReachable
    OBVIOUS
  <2>1. TypeOK
    <3>1. DOMAIN proc = Procs /\ \A p \in Procs : proc[p] \in Memory
      BY DEF Inv, Types, RunTypes
    <3>2. \A p \in Procs : /\ proc[p].pc \in Pcs
                           /\ proc[p].account \in AccountIds \cup {None}
                           /\ proc[p].whose \in AccountIds \cup {None}
      BY <3>1 DEF Memory
    <3> QED
      BY <3>1, <3>2 DEF TypeOK, Inv, Types, ItemTypes, PlayTypes, JobTypes, GhostTypes, RunTypes
  <2>2. NoDeviceStranded
    BY DEF NoDeviceStranded, Inv, Stores, Erased
  <2>3. NoOrphanAccount
    BY DEF Inv, Stores
  <2>4. NotTaken
    BY DEF NotTaken, MayConsume, Held, Inv, Truth, Coded
  <2>5. BindingConsistent
    BY <2>4 DEF BindingConsistent, Inv, Stores, AddressesAgree
  <2> QED
    BY <2>1, <2>2, <2>3, <2>5 DEF AccountsReachable
<1> QED
  BY <1>1, Invariance, PTL

(* Nothing of a deleted account is left once its purge ended, and nothing  *)
(* appears later, for every length of a request's life and every settling  *)
(* time more than twice as long (purge.ts, PURGE_SETTLE_MS).               *)
THEOREM PurgedStaysClean == Spec => []PurgedClean
<1>1. Inv => PurgedClean
  <2> SUFFICES ASSUME Inv, NEW a \in purged
               PROVE  /\ a \notin member \cup profile
                      /\ \A t \in Tokens : Owner(t) # a
                      /\ history[a] = {}
                      /\ \A b \in AccountIds : <<a, b>> \notin depart
                      /\ \A s \in Slots : /\ round[a][s] = NoRound
                                          /\ score[a][s] # None => s \in heir[a].rounds
    BY DEF PurgedClean
  <2>1. Clean(a) /\ a \in AccountIds
    BY DEF Inv, Types, GhostTypes
  <2>2. \A s \in Slots : /\ round[a][s] = NoRound
                         /\ score[a][s] # None => s \in heir[a].rounds
    BY <2>1 DEF Clean, Inv, Types, PlayTypes, Stores, ScoresFound, Earns
  <2> QED
    BY <2>1, <2>2 DEF Clean, NoDeviceOn, NoDeparture
<1> QED
  BY <1>1, Invariance, PTL

-----------------------------------------------------------------------------
(* The allowance of an inbox.                                              *)

(* The sends of an address that were counted: the codes it got, and those  *)
(* about to be put.                                                        *)
Putting(r, e) == proc[r].pc = "put" /\ job[r].email = e

Spent(e) ==
    {codes[e][i] : i \in 1..Len(codes[e])}
        \cup {Sending(r) : r \in {r \in Requests : Putting(r, e)}}

Span == SendWindow - Timeout

Within(S, lo) == {x \in S : lo < x.at /\ x.at <= lo + Span}

(* Every send of a code counts until its window has passed, no two codes   *)
(* are one send, and what a spend goes by has room for one more.           *)
Counted ==
    \A e \in Emails :
        /\ IsFiniteSet(sends[e]) /\ IsFiniteSet(Spent(e))
        /\ \A x \in Spent(e) : x.at > clock - SendWindow => x \in sends[e]
        /\ \A lo \in Int : Cardinality(Within(Spent(e), lo)) <= Limit[e]

Distinct ==
    \A e \in Emails :
        /\ \A i \in 1..Len(codes[e]) :
            \/ codes[e][i].by = e
            \/ \E r \in Requests : codes[e][i].by = r /\ proc[r].pc = "done"
        /\ \A i, j \in 1..Len(codes[e]) : codes[e][i] = codes[e][j] => i = j

Room ==
    \A r \in Requests : proc[r].pc = "spend" =>
        Cardinality(Recent(proc[r].seen[job[r].email], proc[r].at)) < Limit[job[r].email]

Spending == Counted /\ Distinct /\ Room

(* A step in which no request spends a send, or puts a code.               *)
Elsewhere ==
    /\ UNCHANGED <<codes, sends, job>> /\ clock <= clock'
    /\ \A r \in Requests :
        \/ proc'[r] = proc[r]
        \/ proc[r].pc \notin {"put", "done"} /\ proc'[r].pc \notin {"put", "spend"}

LEMMA SpentTyped ==
    ASSUME Inv, NEW e \in Emails
    PROVE  Spent(e) \subseteq SendItems /\ SendItems \subseteq [by : Requests \cup Emails, at : Nat]
<1>1. \A r \in Requests : Sending(r) \in SendItems
  BY Facts DEF Sending, SendItems, Memory
<1>2. \A i \in 1..Len(codes[e]) : codes[e][i] \in SendItems
  BY DEF Inv, Types, ItemTypes
<1> QED
  BY <1>1, <1>2, SettleAssumption DEF Spent, SendItems

LEMMA ElsewhereSpends ==
    ASSUME Inv, Spending, Elsewhere, clock' \in Nat
    PROVE  Spending'
<1>1. \A r \in Requests, e \in Emails :
        /\ Putting(r, e) <=> Putting(r, e)'
        /\ Putting(r, e) => Sending(r)' = Sending(r)
  BY DEF Elsewhere, Putting, Sending
<1>2. ASSUME NEW e \in Emails PROVE Spent(e)' = Spent(e)
  BY <1>1 DEF Spent, Elsewhere
<1>3. Counted'
  <2> SUFFICES ASSUME NEW e \in Emails
               PROVE  /\ IsFiniteSet(sends'[e]) /\ IsFiniteSet(Spent(e)')
                      /\ \A x \in Spent(e)' : x.at > clock' - SendWindow => x \in sends'[e]
                      /\ \A lo \in Int : Cardinality(Within(Spent(e)', lo)) <= Limit[e]
    BY DEF Counted, Within
  <2>1. sends' = sends /\ clock <= clock' /\ clock \in Nat /\ SendWindow \in Nat
    BY CodeAssumption, SettleAssumption DEF Elsewhere, Inv, Types, RunTypes
  <2>2. \A x \in Spent(e) : x.at \in Nat
    BY SpentTyped
  <2>3. \A x \in Spent(e) : x.at > clock' - SendWindow => x.at > clock - SendWindow
    BY <2>1, <2>2
  <2> QED
    BY <1>2, <2>1, <2>3 DEF Spending, Counted
<1>4. Distinct'
  BY DEF Elsewhere, Spending, Distinct
<1>5. Room'
  BY DEF Elsewhere, Spending, Room, Recent
<1> QED
  BY <1>3, <1>4, <1>5 DEF Spending

LEMMA Passing ==
    ASSUME Inv, NEW r \in Requests, NEW q, Become(r, q),
           UNCHANGED <<codes, sends, job, clock>>,
           proc[r].pc \notin {"put", "done"}, q.pc \notin {"put", "spend"}
    PROVE  Elsewhere
<1>1. proc'[r] = q /\ \A x \in Requests \ {r} : proc'[x] = proc[x]
  BY Facts DEF Become, Inv, Types, RunTypes, Procs
<1>2. clock <= clock'
  BY Facts
<1> QED
  BY <1>1, <1>2 DEF Elsewhere

LEMMA Answering ==
    ASSUME Inv, NEW r \in Requests, NEW a, Answer(r, a),
           UNCHANGED <<codes, sends, job, clock>>, proc[r].pc \notin {"put", "done"}
    PROVE  Elsewhere
<1>1. Done(a).pc = "done"
  BY DEF Done, Idle
<1> QED
  BY <1>1, Passing DEF Answer

LEMMA ReadSpends ==
    ASSUME Inv, Spending, NEW r \in Requests, ReadSends(r)
    PROVE  Spending'
<1> DEFINE e == job[r].email
           q == [proc[r] EXCEPT !.pc = "spend", !.seen = [s \in ScopesOf(r) |-> sends[s]]]
<1>1. /\ UNCHANGED <<codes, sends, job, clock>> /\ proc[r].pc = "sends"
      /\ e \in Emails /\ e \in ScopesOf(r) /\ r \in Procs
  BY Facts DEF ReadSends, At, setting, mail, ScopesOf
<1>2. clock' \in Nat /\ clock <= clock'
  BY <1>1, Facts
<1>3. CASE Answer(r, "too_many_codes")
  <2>1. Elsewhere
    BY <1>1, <1>3, Answering
  <2> QED
    BY <1>2, <2>1, ElsewhereSpends
<1>4. CASE /\ Become(r, q)
           /\ ~(Cardinality(Recent(sends[e], proc[r].at)) >= Limit[e])
  <2>1. /\ \A x \in Requests \ {r} : proc'[x] = proc[x]
        /\ proc'[r] = q
    BY <1>1, <1>4 DEF Become, Inv, Types, RunTypes, Procs
  <2>2. q.pc = "spend" /\ q.at = proc[r].at /\ q.seen[e] = sends[e]
    BY <1>1, Facts DEF Memory
  <2> HIDE DEF q
  <2>3. \A x \in Requests, d \in Emails :
          /\ Putting(x, d) <=> Putting(x, d)'
          /\ Putting(x, d) => Sending(x)' = Sending(x)
    BY <1>1, <2>1, <2>2 DEF Putting, Sending
  <2>4. \A d \in Emails : Spent(d)' = Spent(d)
    BY <1>1, <2>3 DEF Spent
  <2>5. Counted'
    BY <1>1, <2>4 DEF Spending, Counted, Within
  <2>6. Distinct'
    BY <1>1, <2>1, <2>2 DEF Spending, Distinct
  <2>7. Cardinality(Recent(sends[e], proc[r].at)) < Limit[e]
    <3>1. IsFiniteSet(sends[e]) /\ Recent(sends[e], proc[r].at) \in SUBSET sends[e]
      BY <1>1 DEF Spending, Counted, Recent
    <3>2. Cardinality(Recent(sends[e], proc[r].at)) \in Nat
      BY <3>1, FS_Subset, FS_CardinalityType
    <3> QED
      BY <1>1, <1>4, <3>2, CodeAssumption
  <2>8. Room'
    BY <1>1, <2>1, <2>2, <2>7 DEF Spending, Room, Recent
  <2> QED
    BY <2>5, <2>6, <2>8 DEF Spending
<1> QED
  BY <1>1, <1>3, <1>4 DEF ReadSends

(* A spend counts one more send, within the room that was read.            *)
LEMMA SpendSpends ==
    ASSUME Inv, Spending, NEW r \in Requests, SpendSends(r)
    PROVE  Spending'
<1>0. PICK e \in Emails : e = job[r].email
  BY Facts
<1> DEFINE q == [proc[r] EXCEPT !.pc = "put", !.seen = <<>>]
           u == [proc[r] EXCEPT !.pc = "sends", !.seen = <<>>, !.tries = @ + 1]
<1>1. /\ UNCHANGED <<codes, job, clock>> /\ proc[r].pc = "spend"
      /\ clock <= proc[r].at + Timeout /\ proc[r].at <= clock
      /\ e \in Emails /\ e \in ScopesOf(r) /\ e \in Scopes /\ r \in Procs
      /\ proc[r].at \in Nat /\ clock \in Nat
  <2>1. /\ UNCHANGED <<codes, job, clock>> /\ proc[r].pc = "spend"
        /\ clock <= proc[r].at + Timeout
    BY Facts DEF SpendSends, At, setting
  <2>2. proc[r].at <= clock /\ proc[r].at \in Nat /\ clock \in Nat
    BY Facts, SettleAssumption DEF Truth, Way, Memory
  <2>3. e \in Emails /\ e \in ScopesOf(r) /\ e \in Scopes /\ r \in Procs
    BY <1>0, Facts DEF ScopesOf, Scopes
  <2> QED
    BY <2>1, <2>2, <2>3
<1>2. CASE UNCHANGED sends /\ (Answer(r, "failed") \/ Become(r, u))
  <2>1. u.pc = "sends" /\ clock' \in Nat
    BY <1>1, Facts DEF Memory
  <2>2. Elsewhere
    BY <1>1, <1>2, <2>1, Answering, Passing
  <2> QED
    BY <2>1, <2>2, ElsewhereSpends
<1>3. CASE /\ SendsUnchanged(r) /\ Become(r, q)
           /\ sends' = [s \in Scopes |->
                            IF s \in ScopesOf(r)
                            THEN Recent(proc[r].seen[s], proc[r].at) \cup {Sending(r)}
                            ELSE sends[s]]
  <2>1. /\ \A x \in Requests \ {r} : proc'[x] = proc[x]
        /\ proc'[r] = q
    BY <1>1, <1>3 DEF Become, Inv, Types, RunTypes, Procs
  <2>2. q.pc = "put" /\ q.at = proc[r].at
    BY <1>1, Facts DEF Memory
  <2> HIDE DEF q
  <2> DEFINE x == Sending(r)
  <2>3. /\ sends'[e] = Recent(sends[e], proc[r].at) \cup {x}
        /\ \A d \in Emails \ {e} : sends'[d] = sends[d]
    <3>1. \A d \in Emails \ {e} : d \in Scopes /\ d \notin ScopesOf(r)
      BY <1>0, Named DEF Scopes, ScopesOf
    <3> QED
      BY <1>1, <1>3, <3>1 DEF SendsUnchanged
  <2>4. x.at = proc[r].at /\ x' = x
    BY <2>1, <2>2 DEF Sending
  <2>5. Spent(e)' = Spent(e) \cup {x} /\ \A d \in Emails \ {e} : Spent(d)' = Spent(d)
    <3>1. \A y \in Requests, d \in Emails :
            /\ Putting(y, d)' <=> Putting(y, d) \/ (y = r /\ d = e)
            /\ Putting(y, d) => Sending(y)' = Sending(y)
      BY <1>0, <1>1, <2>1, <2>2 DEF Putting, Sending
    <3>2. \A d \in Emails \ {e} : Spent(d)' = Spent(d)
      BY <1>1, <3>1 DEF Spent
    <3>3. {Sending(y)' : y \in {y \in Requests : Putting(y, e)'}}
            = {Sending(y) : y \in {y \in Requests : Putting(y, e)}} \cup {x}
      BY <1>1, <2>4, <3>1
    <3> QED
      BY <1>1, <3>2, <3>3 DEF Spent
  <2>6. IsFiniteSet(sends[e]) /\ IsFiniteSet(Spent(e))
    BY <1>1 DEF Spending, Counted
  <2> DEFINE R == Recent(sends[e], proc[r].at)
  <2>7. R \in SUBSET sends[e] /\ IsFiniteSet(R) /\ Cardinality(R) \in Nat
    <3>1. R \in SUBSET sends[e]
      BY DEF Recent
    <3> QED
      BY <2>6, <3>1, FS_Subset, FS_CardinalityType
  <2>8. Cardinality(R) < Limit[e] /\ Limit[e] \in Nat
    <3>1. proc[r].seen[e] = sends[e]
      BY <1>1, <1>3 DEF SendsUnchanged
    <3> QED
      BY <1>0, <1>1, <3>1, CodeAssumption DEF Spending, Room, Recent
  <2>9. \A z \in Spent(e) : z.at > proc[r].at - SendWindow /\ z.at > clock - SendWindow => z \in R
    BY <1>1 DEF Spending, Counted, Recent
  <2>10. ASSUME NEW lo \in Int
         PROVE  Cardinality(Within(Spent(e) \cup {x}, lo)) <= Limit[e]
    <3> DEFINE W == Within(Spent(e), lo)
    <3>1. W \in SUBSET Spent(e) /\ IsFiniteSet(W) /\ Cardinality(W) <= Limit[e]
          /\ Cardinality(W) \in Nat
      <4>1. W \in SUBSET Spent(e)
        BY DEF Within
      <4> QED
        BY <1>1, <2>6, <4>1, FS_Subset, FS_CardinalityType DEF Spending, Counted
    <3>2. CASE ~(lo < x.at /\ x.at <= lo + Span)
      <4>1. Within(Spent(e) \cup {x}, lo) = W
        BY <3>2 DEF Within
      <4> QED
        BY <3>1, <4>1
    <3>3. CASE lo < x.at /\ x.at <= lo + Span
      <4>1. Within(Spent(e) \cup {x}, lo) = W \cup {x}
        BY <3>3 DEF Within
      <4>2. ASSUME NEW z \in W PROVE z \in R
        <5>1. z \in Spent(e) /\ lo < z.at /\ z.at \in Nat
          BY <1>1, SpentTyped DEF Within
        <5>2. proc[r].at <= lo + (SendWindow - Timeout)
          BY <2>4, <3>3 DEF Span
        <5>3. z.at > proc[r].at - SendWindow /\ z.at > clock - SendWindow
          BY <1>1, <5>1, <5>2, CodeAssumption, SettleAssumption
        <5> QED
          BY <2>9, <5>1, <5>3
      <4>3. Cardinality(W) <= Cardinality(R)
        BY <2>7, <4>2, FS_Subset
      <4> HIDE DEF W, R, x
      <4>4. Cardinality(W \cup {x}) = IF x \in W THEN Cardinality(W) ELSE Cardinality(W) + 1
        BY <3>1, FS_AddElement
      <4>5. Cardinality(W \cup {x}) <= Limit[e]
        BY <2>7, <2>8, <3>1, <4>3, <4>4
      <4> QED
        BY <4>1, <4>5
    <3> QED
      BY <3>2, <3>3
  <2>11. Counted'
    <3>1. ASSUME NEW d \in Emails, d # e
          PROVE  /\ IsFiniteSet(sends'[d]) /\ IsFiniteSet(Spent(d)')
                 /\ \A z \in Spent(d)' : z.at > clock' - SendWindow => z \in sends'[d]
                 /\ \A lo \in Int : Cardinality(Within(Spent(d)', lo)) <= Limit[d]
      BY <1>1, <2>3, <2>5, <3>1 DEF Spending, Counted
    <3>2. IsFiniteSet(sends'[e]) /\ IsFiniteSet(Spent(e)')
      <4>1. IsFiniteSet(Spent(e) \cup {x})
        BY <2>6, FS_AddElement
      <4>2. IsFiniteSet(R \cup {x})
        BY <2>7, FS_AddElement
      <4> QED
        BY <2>3, <2>5, <4>1, <4>2
    <3>3. ASSUME NEW z \in Spent(e)', z.at > clock' - SendWindow PROVE z \in sends'[e]
      <4>1. CASE z = x
        BY <2>3, <4>1
      <4>2. CASE z \in Spent(e)
        <5>1. z.at \in Nat /\ z.at > clock - SendWindow
          BY <1>1, <3>3, <4>2, SpentTyped
        <5>2. z.at > proc[r].at - SendWindow
          BY <1>1, <5>1, CodeAssumption
        <5> QED
          BY <2>3, <2>9, <4>2, <5>1, <5>2
      <4> QED
        BY <2>5, <4>1, <4>2
    <3>4. \A lo \in Int : Cardinality(Within(Spent(e)', lo)) <= Limit[e]
      BY <2>5, <2>10
    <3>5. ASSUME NEW d \in Emails
          PROVE  /\ IsFiniteSet(sends'[d]) /\ IsFiniteSet(Spent(d)')
                 /\ \A z \in Spent(d)' : z.at > clock' - SendWindow => z \in sends'[d]
                 /\ \A lo \in Int : Cardinality(Within(Spent(d)', lo)) <= Limit[d]
      <4>1. CASE d # e
        BY <3>1, <4>1
      <4>2. CASE d = e
        BY <3>2, <3>3, <3>4, <4>2
      <4> QED
        BY <4>1, <4>2
    <3> QED
      BY <3>5 DEF Counted, Within
  <2>12. Distinct' /\ Room'
    BY <1>1, <2>1, <2>2 DEF Spending, Distinct, Room, Recent
  <2> QED
    BY <2>11, <2>12 DEF Spending
<1> QED
  BY <1>1, <1>2, <1>3 DEF SpendSends

(* A code put was counted before, and is of a request of its own.          *)
LEMMA PutSpends ==
    ASSUME Inv, Spending, NEW r \in Requests, PutChallenge(r)
    PROVE  Spending'
<1>0. PICK e \in Emails : e = job[r].email
  BY Facts
<1> DEFINE q == Done("sent")
<1>1. /\ UNCHANGED <<sends, job, clock>> /\ proc[r].pc = "put" /\ e \in Emails /\ r \in Procs
      /\ codes' = [codes EXCEPT ![e] = Append(codes[e], Sending(r))]
      /\ codes \in [Emails -> Seq(SendItems)] /\ Sending(r) \in SendItems
      /\ Become(r, q)
  BY <1>0, Facts DEF PutChallenge, At, setting, Answer, Sending, SendItems, Memory, Inv, Types, ItemTypes
<1>2. q.pc = "done"
  BY DEF Done, Idle
<1> HIDE DEF q
<1>3. /\ \A x \in Requests \ {r} : proc'[x] = proc[x]
      /\ proc'[r] = q
  BY <1>1 DEF Become, Inv, Types, RunTypes, Procs
<1>4. /\ Len(codes'[e]) = Len(codes[e]) + 1 /\ Len(codes[e]) \in Nat
      /\ \A i \in 1..Len(codes[e]) : codes'[e][i] = codes[e][i]
      /\ codes'[e][Len(codes[e]) + 1] = Sending(r)
      /\ \A d \in Emails \ {e} : codes'[d] = codes[d]
  BY <1>1
<1>5. \A d \in Emails : Spent(d)' = Spent(d)
  <2>1. \A y \in Requests, d \in Emails :
          /\ Putting(y, d) <=> Putting(y, d)' \/ (y = r /\ d = e)
          /\ Putting(y, d)' => Sending(y)' = Sending(y)
          /\ ~Putting(r, d)'
    BY <1>0, <1>1, <1>2, <1>3 DEF Putting, Sending
  <2>2. \A d \in Emails \ {e} : Spent(d)' = Spent(d)
    BY <1>4, <2>1 DEF Spent
  <2>3. {codes'[e][i] : i \in 1..Len(codes'[e])}
          = {codes[e][i] : i \in 1..Len(codes[e])} \cup {Sending(r)}
    <3> DEFINE n == Len(codes[e])
    <3>1. n \in Nat /\ 1..Len(codes'[e]) = (1..n) \cup {n + 1}
      BY <1>4
    <3>2. /\ \A i \in 1..n : codes'[e][i] = codes[e][i]
          /\ codes'[e][n + 1] = Sending(r)
      BY <1>4
    <3> HIDE DEF n
    <3>3. {codes'[e][i] : i \in 1..Len(codes'[e])} = {codes'[e][i] : i \in (1..n) \cup {n + 1}}
      BY <3>1
    <3>4. @ = {codes'[e][i] : i \in 1..n} \cup {codes'[e][n + 1]}
      OBVIOUS
    <3>5. {codes'[e][i] : i \in 1..n} = {codes[e][i] : i \in 1..n}
      BY <3>2
    <3> QED
      BY <3>2, <3>3, <3>4, <3>5 DEF n
  <2>4. {Sending(y) : y \in {y \in Requests : Putting(y, e)}}
          = {Sending(y)' : y \in {y \in Requests : Putting(y, e)'}} \cup {Sending(r)}
    BY <1>0, <1>1, <2>1 DEF Putting
  <2>5. Spent(e)' = Spent(e)
    BY <2>3, <2>4 DEF Spent
  <2> QED
    BY <2>2, <2>5
<1>6. Counted'
  BY <1>1, <1>5 DEF Spending, Counted, Within
<1>7. Distinct'
  <2>1. ASSUME NEW d \in Emails, NEW i \in 1..Len(codes[d])
        PROVE  \/ codes[d][i].by = d
               \/ \E x \in Requests : codes[d][i].by = x /\ proc'[x].pc = "done"
    BY <1>2, <1>3 DEF Spending, Distinct
  <2>2. Sending(r).by = r /\ \A d \in Emails : r # d
    BY NoneAssumption DEF Sending
  <2>3. \A i \in 1..Len(codes[e]) : codes[e][i] # Sending(r)
    BY <1>1, <2>2 DEF Spending, Distinct
  <2>4. ASSUME NEW i \in 1..Len(codes'[e])
        PROVE  \/ codes'[e][i].by = e
               \/ \E x \in Requests : codes'[e][i].by = x /\ proc'[x].pc = "done"
    <3>1. CASE i \in 1..Len(codes[e])
      BY <1>1, <1>4, <2>1, <3>1
    <3>2. CASE i = Len(codes[e]) + 1
      BY <1>2, <1>3, <1>4, <2>2, <3>2
    <3> QED
      BY <1>4, <3>1, <3>2
  <2>5. ASSUME NEW i \in 1..Len(codes'[e]), NEW j \in 1..Len(codes'[e]), codes'[e][i] = codes'[e][j]
        PROVE  i = j
    <3>1. \A k \in 1..Len(codes'[e]) : k \in 1..Len(codes[e]) \/ k = Len(codes[e]) + 1
      BY <1>4
    <3> QED
      BY <1>1, <1>4, <2>3, <2>5, <3>1 DEF Spending, Distinct
  <2>6. \A d \in Emails \ {e} : codes'[d] = codes[d]
    BY <1>4
  <2> QED
    BY <1>1, <2>1, <2>4, <2>5, <2>6 DEF Spending, Distinct
<1>8. Room'
  BY <1>1, <1>2, <1>3 DEF Spending, Room, Recent
<1> QED
  BY <1>6, <1>7, <1>8 DEF Spending

(* No other step spends or puts.                                           *)
LEMMA LinkElsewhere ==
    ASSUME Inv, NEW r \in Requests,
           \/ Verify(r) \/ Judge(r) \/ ReadBinding(r) \/ Bind(r) \/ Confirm(r)
           \/ PlanMoves(r) \/ Adopt(r) \/ CreditMoved(r)
    PROVE  Elsewhere
<1>1. UNCHANGED <<codes, sends, job, clock>> /\ proc[r].pc \notin {"put", "done"}
  BY DEF Verify, Judge, ReadBinding, Bind, Confirm, PlanMoves, Adopt, CreditMoved, At,
         setting, mail
<1>2. ASSUME NEW pc \in Pcs \ {"put", "spend"}, Goto(r, pc) PROVE Elsewhere
  <2>1. [proc[r] EXCEPT !.pc = pc].pc = pc
    BY Facts, Going
  <2> QED
    BY <1>1, <1>2, <2>1, Passing DEF Goto
<1>3. ASSUME NEW a, Answer(r, a) PROVE Elsewhere
  BY <1>1, <1>3, Answering
<1>4. CASE Verify(r) \/ ReadBinding(r) \/ Bind(r) \/ Confirm(r)
  <2>1. ASSUME NEW target, Reaches(r, target) PROVE Elsewhere
    <3> DEFINE q == [proc[r] EXCEPT !.pc = "confirm", !.whose = target, !.tries = 0]
    <3>1. q.pc = "confirm"
      BY Facts DEF Memory
    <3> HIDE DEF q
    <3>2. CASE Become(r, q)
      BY <1>1, <3>1, <3>2, Passing
    <3> QED
      BY <1>3, <2>1, <3>2 DEF Reaches, q
  <2> QED
    BY <1>2, <1>3, <1>4, <2>1, PcsHold DEF Verify, ReadBinding, Bind, Confirm
<1>5. CASE Judge(r)
  <2> DEFINE q == [proc[r] EXCEPT !.pc = "verify", !.tries = @ + 1]
  <2>1. q.pc = "verify"
    BY Facts DEF Memory
  <2> HIDE DEF q
  <2>2. CASE Become(r, q)
    BY <1>1, <2>1, <2>2, Passing
  <2> QED
    BY <1>2, <1>3, <1>5, <2>2, PcsHold DEF Judge, q
<1>6. CASE PlanMoves(r)
  <2> DEFINE v == [from |-> round[From(r)], to |-> round[To(r)],
                   fromScore |-> score[From(r)], toScore |-> score[To(r)]]
             q == [proc[r] EXCEPT !.pc = "adopt", !.seen = v]
  <2>1. q.pc = "adopt"
    BY Facts DEF Memory
  <2> HIDE DEF q
  <2> QED
    BY <1>1, <1>6, <2>1, Passing DEF PlanMoves, q
<1>7. CASE Adopt(r)
  <2>1. ASSUME NEW S, Become(r, [proc[r] EXCEPT !.pc = "credit", !.seen = <<>>, !.todo = S])
        PROVE  Elsewhere
    <3> DEFINE q == [proc[r] EXCEPT !.pc = "credit", !.seen = <<>>, !.todo = S]
    <3>1. q.pc = "credit"
      BY Facts DEF Memory
    <3> HIDE DEF q
    <3> QED
      BY <1>1, <2>1, <3>1, Passing DEF q
  <2>2. ASSUME Become(r, [proc[r] EXCEPT !.pc = "credit", !.seen = <<>>]) PROVE Elsewhere
    <3> DEFINE q == [proc[r] EXCEPT !.pc = "credit", !.seen = <<>>]
    <3>1. q.pc = "credit"
      BY Facts DEF Memory
    <3> HIDE DEF q
    <3> QED
      BY <1>1, <2>2, <3>1, Passing DEF q
  <2>3. ASSUME Become(r, [proc[r] EXCEPT !.pc = "plan", !.seen = <<>>, !.tries = @ + 1])
        PROVE  Elsewhere
    <3> DEFINE q == [proc[r] EXCEPT !.pc = "plan", !.seen = <<>>, !.tries = @ + 1]
    <3>1. q.pc = "plan"
      BY Facts DEF Memory
    <3> HIDE DEF q
    <3> QED
      BY <1>1, <2>3, <3>1, Passing DEF q
  <2> QED
    BY <1>3, <1>7, <2>1, <2>2, <2>3 DEF Adopt, CommitAdoption, RefuseAdoption
<1>8. CASE CreditMoved(r)
  <2>1. ASSUME NEW S, Become(r, [proc[r] EXCEPT !.todo = S]) PROVE Elsewhere
    <3> DEFINE q == [proc[r] EXCEPT !.todo = S]
    <3>1. q.pc = "credit"
      BY <1>8, Facts DEF Memory, CreditMoved, At
    <3> HIDE DEF q
    <3> QED
      BY <1>1, <2>1, <3>1, Passing DEF q
  <2>2. \A x : [proc[r] EXCEPT !.todo = @ \ {x}] = [proc[r] EXCEPT !.todo = proc[r].todo \ {x}]
    BY Facts DEF Memory
  <2> QED
    BY <1>2, <1>8, <2>1, <2>2, PcsHold DEF CreditMoved
<1> QED
  BY <1>4, <1>5, <1>6, <1>7, <1>8

LEMMA RequestElsewhere ==
    ASSUME Inv, NEW r \in Requests, Arrive(r) \/ Authenticate(r) \/ Devices(r) \/ Plays(r)
    PROVE  Elsewhere
<1>1. UNCHANGED <<codes, sends, job, clock>> /\ proc[r].pc \notin {"put", "done"}
  BY DEF Arrive, Authenticate, Devices, Resolve, Exists, Create, Raced, Revoke, Delete,
         DeleteAgain, Plays, AppendGuess, SubmitScore, CreditDay, SaveProfile, JoinGroup, At,
         setting, mail
<1>2. ASSUME NEW pc \in Pcs \ {"put", "spend"}, Goto(r, pc) PROVE Elsewhere
  <2>1. [proc[r] EXCEPT !.pc = pc].pc = pc
    BY Facts, Going
  <2> QED
    BY <1>1, <1>2, <2>1, Passing DEF Goto
<1>3. ASSUME NEW a, Answer(r, a) PROVE Elsewhere
  BY <1>1, <1>3, Answering
<1>4. CASE Arrive(r)
  <2> DEFINE pc == IF job[r].op = "bootstrap" THEN "resolve" ELSE "auth"
             q == [Idle EXCEPT !.at = clock, !.pc = pc]
  <2>1. q.pc = pc
    BY DEF Idle
  <2>2. pc \notin {"put", "spend"}
    OBVIOUS
  <2> HIDE DEF q
  <2> QED
    BY <1>1, <1>4, <2>1, <2>2, Passing DEF Arrive, q
<1>5. CASE Authenticate(r)
  <2> DEFINE t == job[r].token
             q == [As(proc[r], t) EXCEPT !.pc = FirstStep(job[r].op), !.whose = Owner(t)]
  <2>1. q.pc = FirstStep(job[r].op)
    BY Facts DEF Memory, As
  <2>2. job[r].op \in {"send", "verify", "visit", "delete", "revoke", "play", "profile", "join"}
    BY <1>5, Facts DEF Authenticate, At, Truth, Way, Jobs
  <2>3. FirstStep(job[r].op) \notin {"put", "spend"}
    BY <2>2 DEF FirstStep
  <2> HIDE DEF q
  <2> QED
    BY <1>1, <1>3, <1>5, <2>1, <2>3, Passing DEF Authenticate, q
<1>6. CASE Resolve(r)
  <2> DEFINE found == Owner(job[r].token)
             pc == IF found = None THEN "create" ELSE "exists"
             q == [proc[r] EXCEPT !.account = found, !.id = device[job[r].token].id, !.pc = pc]
  <2>1. q.pc = pc
    BY Facts DEF Memory
  <2>2. pc \notin {"put", "spend"}
    OBVIOUS
  <2> HIDE DEF q
  <2> QED
    BY <1>1, <1>6, <2>1, <2>2, Passing DEF Resolve, q
<1>7. CASE Exists(r) \/ Create(r) \/ Raced(r) \/ Revoke(r) \/ SaveProfile(r) \/ JoinGroup(r)
  BY <1>2, <1>3, <1>7, PcsHold DEF Exists, Create, Raced, Revoke, SaveProfile, JoinGroup
<1>8. CASE Delete(r)
  <2> DEFINE q == [proc[r] EXCEPT !.pc = "list", !.whose = proc[r].account]
  <2>1. q.pc = "list"
    BY Facts DEF Memory
  <2> HIDE DEF q
  <2> QED
    BY <1>1, <1>2, <1>3, <1>8, <2>1, PcsHold, Passing DEF Delete, q
<1>9. CASE DeleteAgain(r)
  <2> DEFINE q == [As(proc[r], job[r].token) EXCEPT !.pc = "delete", !.tries = @ + 1]
  <2>1. q.pc = "delete"
    BY Facts DEF Memory, As
  <2> HIDE DEF q
  <2> QED
    BY <1>1, <1>3, <1>9, <2>1, Passing DEF DeleteAgain, q
<1>10. CASE AppendGuess(r)
  <2> DEFINE q == [proc[r] EXCEPT !.pc = "reward", !.todo = {"score", "day"}]
  <2>1. q.pc = "reward"
    BY Facts DEF Memory
  <2> HIDE DEF q
  <2> QED
    BY <1>1, <1>3, <1>10, <2>1, Passing DEF AppendGuess, q
<1>11. CASE SubmitScore(r) \/ CreditDay(r)
  <2>1. ASSUME NEW step, Rewarded(r, step) PROVE Elsewhere
    <3> DEFINE q == [proc[r] EXCEPT !.todo = @ \ {step}]
    <3>1. q.pc = "reward"
      BY <1>11, Facts DEF Memory, SubmitScore, CreditDay, At
    <3> HIDE DEF q
    <3> QED
      BY <1>1, <1>3, <2>1, <3>1, Passing DEF Rewarded, q
  <2> QED
    BY <1>11, <2>1 DEF SubmitScore, CreditDay
<1> QED
  BY <1>4, <1>5, <1>6, <1>7, <1>8, <1>9, <1>10, <1>11 DEF Devices, Plays

LEMMA DepartsElsewhere ==
    ASSUME Inv, NEW r \in Requests, Departs(r) \/ Throws(r)
    PROVE  Elsewhere
<1>1. UNCHANGED <<codes, sends, job, clock>>
  BY DEF Departs, Drain, LeaveOne, ClearDeparture, DepartGroups, ListDevices, RevokeListed,
         Throws, setting, mail
<1>2. ASSUME NEW q, q.pc \notin {"put", "spend"}
      PROVE  NextDeparture(r, q).pc \notin {"put", "spend"} /\ Drained(r, q).pc \notin {"put", "spend"}
  <2>1. \A a : Done(a).pc = "done"
    BY DEF Done, Idle
  <2>2. Drained(r, q).pc = "done"
    BY <2>1, Facts DEF Drained
  <2>3. [q EXCEPT !.pc = "leave"].pc \in {"leave", q.pc}
    OBVIOUS
  <2> QED
    BY <1>2, <2>2, <2>3 DEF NextDeparture
<1>3. \A S, f, c : /\ [proc[r] EXCEPT !.todo = S].pc = proc[r].pc
                   /\ [proc[r] EXCEPT !.todo = S, !.from = f].pc = proc[r].pc
                   /\ [proc[r] EXCEPT !.todo = S, !.clean = c].pc = proc[r].pc
                   /\ [proc[r] EXCEPT !.clean = c].pc = proc[r].pc
                   /\ [proc[r] EXCEPT !.todo = S, !.from = f, !.clean = c].pc = proc[r].pc
  BY Facts DEF Memory
<1>4. ASSUME NEW q, Become(r, NextDeparture(r, q)), q.pc = proc[r].pc,
             proc[r].pc \notin {"put", "spend", "done"}
      PROVE  Elsewhere
  <2>1. NextDeparture(r, q).pc \notin {"put", "spend"}
    BY <1>2, <1>4
  <2> QED
    BY <1>1, <1>4, <2>1, Passing
<1>5. \A x : [proc[r] EXCEPT !.todo = @ \ {x}] = [proc[r] EXCEPT !.todo = proc[r].todo \ {x}]
  BY Facts DEF Memory
<1>6. ASSUME NEW q, Become(r, q), q.pc \notin {"put", "spend"}, proc[r].pc \notin {"put", "done"}
      PROVE  Elsewhere
  BY <1>1, <1>6, Passing
<1>7. CASE Drain(r)
  <2> DEFINE q == [proc[r] EXCEPT !.todo = {f \in AccountIds : <<proc[r].whose, f>> \in depart}]
  <2>1. q.pc = proc[r].pc
    BY <1>3
  <2> HIDE DEF q
  <2> QED
    BY <1>4, <1>7, <2>1 DEF Drain, At, q
<1>8. CASE LeaveOne(r)
  <2>1. PICK f : Become(r, [proc[r] EXCEPT !.pc = "clear", !.from = f])
    BY <1>8 DEF LeaveOne
  <2> DEFINE q == [proc[r] EXCEPT !.pc = "clear", !.from = f]
  <2>2. q.pc = "clear"
    BY Facts DEF Memory
  <2> HIDE DEF q
  <2> QED
    BY <1>6, <1>8, <2>1, <2>2 DEF LeaveOne, At, q
<1>9. CASE ClearDeparture(r)
  <2>1. PICK f : Become(r, NextDeparture(r, [proc[r] EXCEPT !.todo = @ \ {f}, !.from = None]))
    BY <1>9 DEF ClearDeparture
  <2> DEFINE q == [proc[r] EXCEPT !.todo = @ \ {f}, !.from = None]
  <2>2. q.pc = proc[r].pc
    BY Facts DEF Memory
  <2> HIDE DEF q
  <2> QED
    BY <1>4, <1>9, <2>1, <2>2 DEF ClearDeparture, At, q
<1>10. CASE DepartGroups(r)
  <2>1. [proc[r] EXCEPT !.pc = "drain"].pc = "drain"
    BY Facts DEF Memory
  <2> QED
    BY <1>6, <1>10, <2>1 DEF DepartGroups, Goto, At
<1>11. CASE ListDevices(r)
  <2>1. PICK S : Become(r, [proc[r] EXCEPT !.pc = "revoke", !.todo = S])
    BY <1>11 DEF ListDevices
  <2> DEFINE q == [proc[r] EXCEPT !.pc = "revoke", !.todo = S]
  <2>2. q.pc = "revoke"
    BY Facts DEF Memory
  <2> HIDE DEF q
  <2> QED
    BY <1>6, <1>11, <2>1, <2>2 DEF ListDevices, At, q
<1>12. CASE RevokeListed(r)
  <2>1. CASE Goto(r, "depart")
    <3>1. [proc[r] EXCEPT !.pc = "depart"].pc = "depart"
      BY Facts DEF Memory
    <3> QED
      BY <1>6, <1>12, <2>1, <3>1 DEF RevokeListed, Goto, At
  <2>2. ASSUME NEW x, Become(r, [proc[r] EXCEPT !.todo = @ \ {x}]) PROVE Elsewhere
    BY <1>3, <1>5, <1>6, <1>12, <2>2 DEF RevokeListed, At
  <2> QED
    BY <1>12, <2>1, <2>2, Facts DEF RevokeListed
<1>13. CASE Throws(r)
  <2>1. PICK q \in Carried(r) : Become(r, q)
    BY <1>13 DEF Throws
  <2>2. proc[r].pc \in {"drain", "leave", "clear", "depart", "list", "revoke", "credit", "reward"}
    BY <2>1 DEF Carried
  <2>3. \A x : /\ [proc[r] EXCEPT !.todo = @ \ {x}].pc = proc[r].pc
              /\ [proc[r] EXCEPT !.todo = @ \ {x}, !.clean = FALSE].pc = proc[r].pc
              /\ [proc[r] EXCEPT !.todo = @ \ {proc[r].from}, !.from = None,
                                 !.clean = FALSE].pc = proc[r].pc
              /\ [proc[r] EXCEPT !.pc = "depart", !.todo = {}].pc = "depart"
    BY Facts DEF Memory
  <2>4. q.pc \notin {"put", "spend"}
    <3>1. CASE proc[r].pc = "drain"
      BY <1>2, <1>3, <2>1, <3>1 DEF Carried
    <3>2. CASE proc[r].pc = "leave"
      BY <1>2, <2>1, <2>3, <3>2 DEF Carried
    <3>3. CASE proc[r].pc = "clear"
      BY <1>2, <2>1, <2>3, <3>3 DEF Carried
    <3>4. CASE proc[r].pc = "depart"
      BY <1>2, <1>3, <2>1, <3>4 DEF Carried
    <3>5. CASE proc[r].pc \in {"list", "revoke"}
      BY <2>1, <2>3, <3>5, Facts DEF Carried
    <3>6. CASE proc[r].pc \in {"credit", "reward"}
      BY <2>1, <2>3, <3>6, Facts DEF Carried
    <3> QED
      BY <2>2, <3>1, <3>2, <3>3, <3>4, <3>5, <3>6
  <2> QED
    BY <1>6, <2>1, <2>2, <2>4
<1> QED
  BY <1>7, <1>8, <1>9, <1>10, <1>11, <1>12, <1>13 DEF Departs

LEMMA WorkerElsewhere ==
    ASSUME Inv, Departs(Worker) \/ Throws(Worker) \/ Purges \/ WorkerStops \/ Tick
    PROVE  Elsewhere
<1>1. UNCHANGED <<codes, sends, job>>
  BY DEF Departs, Drain, LeaveOne, ClearDeparture, DepartGroups, ListDevices, RevokeListed,
         Throws, Purges, TakeJob, ListRounds, RemoveScore, RemoveRound, Sweep, ClearPurge,
         WorkerStops, Tick, setting, mail
<1>2. clock <= clock'
  <2>1. clock \in Nat
    BY WorkerMemory, SettleAssumption DEF Inv, Types, RunTypes
  <2>2. CASE Tick
    BY <2>1, <2>2 DEF Tick
  <2>3. CASE clock' = clock
    BY <2>1, <2>3
  <2> QED
    BY <2>2, <2>3 DEF Departs, Drain, LeaveOne, ClearDeparture, DepartGroups, ListDevices,
         RevokeListed, Throws, Purges, TakeJob, ListRounds, RemoveScore, RemoveRound, Sweep,
         ClearPurge, WorkerStops
<1>3. ASSUME NEW r \in Requests PROVE proc'[r] = proc[r]
  <2>1. CASE proc' = proc
    BY <2>1
  <2>2. ASSUME NEW q, Become(Worker, q) PROVE proc'[r] = proc[r]
    BY <2>2, Facts DEF Become, Inv, Types, RunTypes
  <2> QED
    BY <2>1, <2>2 DEF Departs, Drain, LeaveOne, ClearDeparture, DepartGroups, ListDevices,
         RevokeListed, Throws, Purges, TakeJob, ListRounds, RemoveScore, RemoveRound, Sweep,
         ClearPurge, WorkerStops, Tick, Goto
<1> QED
  BY <1>1, <1>2, <1>3 DEF Elsewhere

LEMMA NextSpends ==
    ASSUME Inv, Inv', Spending, [Next]_vars
    PROVE  Spending'
<1>1. clock' \in Nat
  BY SettleAssumption DEF Inv, Types, RunTypes
<1>2. CASE UNCHANGED vars
  <2>1. Elsewhere
    <3>1. clock \in Nat
      BY SettleAssumption DEF Inv, Types, RunTypes
    <3> QED
      BY <1>2, <3>1 DEF Elsewhere, vars, setting, mail
  <2> QED
    BY <1>1, <2>1, ElsewhereSpends
<1>3. ASSUME NEW r \in Requests,
             \/ Arrive(r) \/ Authenticate(r) \/ Link(r) \/ Devices(r) \/ Plays(r)
             \/ Departs(r) \/ Throws(r)
      PROVE  Spending'
  <2>1. CASE ReadSends(r) \/ SpendSends(r) \/ PutChallenge(r)
    BY <2>1, ReadSpends, SpendSpends, PutSpends
  <2>2. CASE ~(ReadSends(r) \/ SpendSends(r) \/ PutChallenge(r))
    BY <1>1, <1>3, <2>2, LinkElsewhere, RequestElsewhere, DepartsElsewhere, ElsewhereSpends
       DEF Link
  <2> QED
    BY <2>1, <2>2
<1>4. CASE Departs(Worker) \/ Throws(Worker) \/ Purges \/ WorkerStops \/ Tick
  BY <1>1, <1>4, WorkerElsewhere, ElsewhereSpends
<1> QED
  BY <1>2, <1>3, <1>4 DEF Next, Procs

LEMMA InitSpends == Init => Spending
<1> SUFFICES ASSUME Init PROVE Spending
  OBVIOUS
<1>1. PICK s \in Starts : codes = s.codes /\ sends = s.sends
  BY DEF Init
<1>2. Startable(s)
  BY StartsAssumption
<1>3. \A r \in Requests : proc[r].pc = "idle"
  BY DEF Init, Idle, Procs
<1>4. ASSUME NEW e \in Emails
      PROVE  /\ Spent(e) \in SUBSET sends[e] /\ IsFiniteSet(sends[e])
             /\ Cardinality(sends[e]) <= Limit[e] /\ Limit[e] \in Nat
  <2>1. Spent(e) = {codes[e][i] : i \in 1..Len(codes[e])}
    BY <1>3 DEF Spent, Putting
  <2>2. \A i \in 1..Len(codes[e]) : codes[e][i] \in sends[e]
    BY <1>1, <1>2 DEF Startable
  <2>3. e \in Emails \cup {Ip}
    OBVIOUS
  <2> QED
    BY <1>1, <1>2, <2>1, <2>2, <2>3, CodeAssumption DEF Startable
<1>5. ASSUME NEW e \in Emails PROVE IsFiniteSet(Spent(e))
  BY <1>4, FS_Subset
<1>6. ASSUME NEW e \in Emails, NEW lo \in Int
      PROVE  Cardinality(Within(Spent(e), lo)) <= Limit[e]
  <2> DEFINE W == Within(Spent(e), lo)
  <2>1. W \in SUBSET sends[e]
    BY <1>4 DEF Within
  <2> HIDE DEF W
  <2>2. /\ Cardinality(W) <= Cardinality(sends[e])
        /\ Cardinality(W) \in Nat /\ Cardinality(sends[e]) \in Nat
    BY <1>4, <2>1, FS_Subset, FS_CardinalityType
  <2> QED
    BY <1>4, <2>2 DEF W
<1>7. Counted
  BY <1>4, <1>5, <1>6 DEF Counted
<1>8. Distinct
  BY <1>1, <1>2 DEF Startable, Distinct
<1>9. Room
  BY <1>3 DEF Room
<1> QED
  BY <1>7, <1>8, <1>9 DEF Spending

(* What is counted of the sends bounds the codes.                          *)
LEMMA InboxHolds ==
    ASSUME Inv, Spending
    PROVE  InboxBounded
<1> SUFFICES ASSUME NEW e \in Emails, NEW i \in 1..Len(codes[e])
             PROVE  Cardinality({j \in 1..Len(codes[e]) :
                codes[e][j].at \in (codes[e][i].at - (SendWindow - Timeout) + 1)..codes[e][i].at})
                    <= Limit[e]
  BY DEF InboxBounded
<1> DEFINE lo == codes[e][i].at - (SendWindow - Timeout)
           J == {j \in 1..Len(codes[e]) : codes[e][j].at \in (lo + 1)..codes[e][i].at}
           T == Within(Spent(e), lo)
           f == [j \in J |-> codes[e][j]]
<1>1. \A j \in 1..Len(codes[e]) : codes[e][j].at \in Nat /\ codes[e][j] \in Spent(e)
  <2>1. \A j \in 1..Len(codes[e]) : codes[e][j] \in SendItems
    BY DEF Inv, Types, ItemTypes
  <2> QED
    BY <2>1, SettleAssumption DEF SendItems, Spent
<1>2. lo \in Int /\ codes[e][i].at = lo + Span
  BY <1>1, CodeAssumption, SettleAssumption DEF Span
<1>3. \A j \in J : codes[e][j] \in T
  BY <1>1, <1>2 DEF Within
<1>4. f \in Injection(J, T)
  BY <1>3 DEF Injection, IsInjective, Spending, Distinct
<1>5. IsFiniteSet(T) /\ Cardinality(T) <= Limit[e] /\ Limit[e] \in Nat
  <2>1. T \in SUBSET Spent(e) /\ IsFiniteSet(Spent(e))
    BY DEF Within, Spending, Counted
  <2> QED
    BY <1>2, <2>1, FS_Subset, CodeAssumption DEF Spending, Counted
<1> HIDE DEF J, T, f
<1>6. IsFiniteSet(J) /\ Cardinality(J) <= Cardinality(T)
  BY <1>4, <1>5, FS_Injection
<1>7. Cardinality(J) \in Nat /\ Cardinality(T) \in Nat
  BY <1>5, <1>6, FS_CardinalityType
<1> QED
  BY <1>5, <1>6, <1>7 DEF J

(* What an address granted were its codes, each the latest when it granted *)
(* and newer than the ones before.                                         *)
LEMMA GrantsHold == Inv => CodeGrantsOnce
BY DEF Inv, Stores, CodesAgree, CodeGrantsOnce

(* A code saves or switches once, and an address gets no more codes than   *)
(* its allowance in any window, to within the life of a request, however   *)
(* the requests that read and spend it cross (dynamoLinkStore.ts,          *)
(* spendSends).                                                            *)
THEOREM CodesAreRationed == Spec => []CodesHold
<1>1. Init => Inv /\ Spending
  BY InitHolds, InitSpends
<1>2. Inv /\ Spending /\ [Next]_vars => (Inv /\ Spending)'
  BY NextKeeps, NextSpends
<1>3. Inv /\ Spending => CodesHold
  BY GrantsHold, InboxHolds DEF CodesHold
<1> QED
  BY <1>1, <1>2, <1>3, PTL DEF Spec

-----------------------------------------------------------------------------
(* The refinement.  The account stores implement their one-step contract   *)
(* (AccountContract): every transaction is the contract's operation on what *)
(* is stored at that moment, though the request decided on it from what it *)
(* had read before.                                                        *)

(* What the contract sees of the stores.                                   *)

Addressed == [a \in AccountIds |-> account[a].email]
Alive == {a \in AccountIds : Live(a)}
Owners == [t \in Tokens |-> Owner(t)]
Taken == [a \in AccountIds |-> [s \in Slots |-> round[a][s].plays]]

outside == <<Addressed, Alive, Owners, binding, Taken>>

LEMMA Unseen ==
    ASSUME UNCHANGED <<account, device, binding, round>>
    PROVE  UNCHANGED outside
BY DEF outside, Addressed, Alive, Owners, Taken, Live, Owner

LEMMA Typed ==
    ASSUME Inv
    PROVE  /\ account \in [AccountIds -> AccountItems]
           /\ device \in [Tokens -> DeviceItems]
           /\ binding \in [Emails -> AccountIds \cup {None}]
           /\ round \in [AccountIds -> [Slots -> RoundItems]]
BY DEF Inv, Types, ItemTypes, PlayTypes

(* Only the device items change: the contract sees their accounts.         *)
LEMMA DevicesOnly ==
    ASSUME UNCHANGED <<account, binding, round>>
    PROVE  Addressed' = Addressed /\ Alive' = Alive /\ Taken' = Taken
BY DEF Addressed, Alive, Taken, Live

-----------------------------------------------------------------------------
(* The operations.                                                         *)

LEMMA CreateImplements ==
    ASSUME Inv, NEW r \in Requests, Create(r)
    PROVE  Contract!Next \/ UNCHANGED outside
<1>0. PICK t : t = job[r].token
  OBVIOUS
<1>1. /\ UNCHANGED <<binding, round>> /\ t \in Tokens /\ proc[r].pc = "create"
      /\ account \in [AccountIds -> AccountItems] /\ device \in [Tokens -> DeviceItems]
  BY <1>0, Facts, Typed DEF Create, At, play
<1>2. CASE UNCHANGED <<account, device>>
  BY <1>1, <1>2, Unseen
<1>3. ASSUME NEW a \in AccountIds, TokenUnchanged(r), account[a].status = "unborn",
             account' = [account EXCEPT ![a].status = "live"],
             device' = [device EXCEPT ![t] = [account |-> a, id |-> a]]
      PROVE  Contract!Next
  <2>1. /\ account'[a].status = "live" /\ account'[a].email = account[a].email
        /\ \A x \in AccountIds \ {a} : account'[x] = account[x]
    BY <1>1, <1>3 DEF AccountItems
  <2>2. \A u \in Tokens : Owner(u)' = IF u = t THEN a ELSE Owner(u)
    BY <1>1, <1>3 DEF Owner
  <2>3. ~Live(Owner(t)) /\ ~Live(a)
    BY <1>0, <1>1, <1>3, Facts, Named DEF TokenUnchanged, Truth, Known, Live, IsDead
  <2>4. Alive' = Alive \cup {a} /\ a \notin Alive /\ Owner(t) \notin Alive
    BY <2>1, <2>3 DEF Alive, Live
  <2>5. Addressed' = Addressed
    BY <2>1 DEF Addressed
  <2>6. Owners' = [Owners EXCEPT ![t] = a] /\ Owners[t] = Owner(t)
    BY <1>1, <2>2 DEF Owners
  <2>7. Taken' = Taken
    BY <1>1 DEF Taken
  <2>8. Contract!Bootstrap(t, a)
    BY <1>1, <2>4, <2>5, <2>6, <2>7
       DEF Contract!Bootstrap, Addressed, Alive, Owners, Taken
  <2> QED
    BY <1>1, <2>8 DEF Contract!Next
<1> QED
  BY <1>0, <1>2, <1>3 DEF Create

LEMMA RevokeImplements ==
    ASSUME Inv, NEW t \in Tokens, Owner(t) \in AccountIds,
           device' = [device EXCEPT ![t] = NoDevice],
           UNCHANGED <<account, binding, round>>
    PROVE  Contract!Next
<1>1. \A u \in Tokens : Owner(u)' = IF u = t THEN None ELSE Owner(u)
  BY Typed DEF Owner, NoDevice
<1>2. Owners' = [Owners EXCEPT ![t] = None] /\ Owners[t] # None
  BY <1>1, Named DEF Owners
<1>3. Contract!Revoke(t)
  BY <1>2, DevicesOnly DEF Contract!Revoke, Addressed, Alive, Owners, Taken
<1> QED
  BY <1>3 DEF Contract!Next

LEMMA SignOutImplements ==
    ASSUME Inv, NEW r \in Requests, Revoke(r)
    PROVE  Contract!Next \/ UNCHANGED outside
<1>1. /\ UNCHANGED <<account, binding, round>> /\ proc[r].pc = "remove"
      /\ \/ /\ Owner(job[r].target) = proc[r].account
            /\ device' = [device EXCEPT ![job[r].target] = NoDevice]
         \/ device' = device
  BY DEF Revoke, At, play
<1>2. job[r].target \in Tokens /\ proc[r].account \in AccountIds
  BY <1>1, Facts DEF Jobs, Truth, Known, Acting, Guests
<1> QED
  BY <1>1, <1>2, RevokeImplements, Unseen

LEMMA RevokeListedImplements ==
    ASSUME Inv, NEW p \in Procs, RevokeListed(p)
    PROVE  Contract!Next \/ UNCHANGED outside
<1>1. UNCHANGED <<account, binding, round>> /\ proc[p].pc = "revoke"
  BY DEF RevokeListed, At, play
<1>2. CASE UNCHANGED device
  BY <1>1, <1>2, Unseen
<1>3. ASSUME NEW row \in proc[p].todo,
             device' = IF StillHolds(row[1], row[2], proc[p].whose)
                       THEN [device EXCEPT ![row[1]] = NoDevice] ELSE device
      PROVE  Contract!Next \/ UNCHANGED outside
  <2>1. row \in Listed /\ proc[p].whose \in AccountIds
    <3>1. CASE p = Worker
      BY <1>1, <1>3, <3>1, WorkerFacts DEF Swept
    <3>2. CASE p # Worker
      BY <1>1, <1>3, <3>2, Facts DEF Procs, Truth, Way, Known, Acting, Guests
    <3> QED
      BY <3>1, <3>2
  <2>2. row[1] \in Tokens
    BY <2>1 DEF Listed
  <2> QED
    BY <1>1, <1>3, <2>1, <2>2, RevokeImplements, Unseen DEF StillHolds
<1> QED
  BY <1>2, <1>3 DEF RevokeListed

LEMMA BindImplements ==
    ASSUME Inv, NEW r \in Requests, Bind(r)
    PROVE  Contract!Next \/ UNCHANGED outside
<1>0. PICK a, e : a = proc[r].account /\ e = job[r].email
  OBVIOUS
<1>1. /\ UNCHANGED <<device, round>> /\ proc[r].pc = "bind"
      /\ a \in AccountIds /\ e \in Emails
  BY <1>0, Facts DEF Bind, At, play, Truth, Known, Acting, Guests
<1>2. CASE UNCHANGED <<account, binding>>
  BY <1>1, <1>2, Unseen
<1>3. CASE /\ binding[e] = None /\ MayBind(r)
           /\ binding' = [binding EXCEPT ![e] = a]
           /\ account' = [account EXCEPT ![a].email = e]
  <2>1. /\ account'[a].email = e
        /\ \A x \in AccountIds : account'[x].status = account[x].status
        /\ \A x \in AccountIds \ {a} : account'[x] = account[x]
    BY <1>1, <1>3, Typed DEF AccountItems
  <2>2. Alive' = Alive /\ a \in Alive
    BY <1>0, <1>1, <1>3, <2>1 DEF Alive, Live, MayBind
  <2>3. Addressed' = [Addressed EXCEPT ![a] = e] /\ Addressed[a] \in {None, e}
    BY <1>0, <1>1, <1>3, <2>1 DEF Addressed, MayBind
  <2>4. Owners' = Owners /\ Taken' = Taken
    BY <1>1 DEF Owners, Owner, Taken
  <2>5. Contract!Bind(a, e)
    BY <1>3, <2>2, <2>3, <2>4 DEF Contract!Bind, Addressed, Alive, Owners, Taken
  <2> QED
    BY <1>1, <2>5 DEF Contract!Next
<1> QED
  BY <1>0, <1>2, <1>3 DEF Bind

(* A switch hands over the rounds that the adopter had not played, as they *)
(* are stored when it commits: what the plan read has not changed since.   *)
LEMMA HandedOver ==
    ASSUME Inv, NEW r \in Requests, At(r, "adopt"), CommitAdoption(r), Erases(r),
           codes' = codes
    PROVE  Taken' = [Taken EXCEPT
                ![From(r)] = [s \in Slots |->
                    IF Taken[From(r)][s] # {} /\ Taken[To(r)][s] = {} THEN {} ELSE @[s]],
                ![To(r)] = [s \in Slots |->
                    IF Taken[From(r)][s] # {} /\ Taken[To(r)][s] = {}
                    THEN Taken[From(r)][s] ELSE @[s]]]
<1>0. PICK f, w : f = From(r) /\ w = To(r)
  OBVIOUS
<1>1. /\ f \in AccountIds /\ w \in AccountIds /\ f # w /\ Live(f) /\ Live(w)
      /\ proc[r].seen \in Plans
  BY <1>0, Switching
<1>2. PlanStands(r) /\ round' = MovedRounds(r) /\ score' = MovedScores(r)
  BY DEF CommitAdoption, Erase
<1>3. /\ round' \in [AccountIds -> [Slots -> RoundItems]]
      /\ \A a \in AccountIds \ {f, w} : round'[a] = round[a]
      /\ \A s \in Slots :
            /\ ~RoundMoves(r, s) =>
                round'[f][s] = round[f][s] /\ round'[w][s] = round[w][s]
            /\ RoundMoves(r, s) =>
                /\ round'[f][s] = NoRound
                /\ round'[w][s] =
                    [proc[r].seen.from[s] EXCEPT !.version = round[w][s].version + 1]
  <2>1. From(r) \in AccountIds /\ To(r) \in AccountIds /\ From(r) # To(r)
    BY <1>0, <1>1
  <2>2. /\ round' \in [AccountIds -> [Slots -> RoundItems]]
        /\ \A a \in AccountIds \ {From(r), To(r)} : round'[a] = round[a]
        /\ \A s \in Slots :
            /\ ~RoundMoves(r, s) =>
                /\ round'[From(r)][s] = round[From(r)][s]
                /\ round'[To(r)][s] = round[To(r)][s]
            /\ RoundMoves(r, s) =>
                /\ round'[From(r)][s] = NoRound
                /\ round'[To(r)][s] =
                    [proc[r].seen.from[s] EXCEPT !.version = round[To(r)][s].version + 1]
    BY <1>1, <1>2, <2>1, RoundsMove
  <2> QED
    BY <1>0, <2>2
<1>4. ASSUME NEW s \in Slots
      PROVE  /\ proc[r].seen.from[s] = round[f][s] /\ proc[r].seen.to[s] = round[w][s]
             /\ round[f][s] \in RoundItems
  <2>1. Fresh(f, proc[r].seen.from) /\ Fresh(w, proc[r].seen.to)
    BY <1>0, Facts DEF At, From, To, Truth, Planned
  <2>2. /\ round[f][s].version = proc[r].seen.from[s].version
        /\ round[w][s].version = proc[r].seen.to[s].version
    BY <1>0, <1>2 DEF PlanStands
  <2> QED
    BY <1>1, <2>1, <2>2, Typed DEF Fresh
<1>5. ASSUME NEW s \in Slots
      PROVE  /\ RoundMoves(r, s) <=> round[f][s].plays # {} /\ round[w][s].plays = {}
             /\ RoundMoves(r, s) => /\ round'[f][s].plays = {}
                                    /\ round'[w][s].plays = round[f][s].plays
  <2>1. RoundMoves(r, s) <=> round[f][s].plays # {} /\ round[w][s].plays = {}
    BY <1>4 DEF RoundMoves
  <2>2. NoRound.plays = {}
    BY DEF NoRound
  <2>3. [round[f][s] EXCEPT !.version = round[w][s].version + 1].plays = round[f][s].plays
    BY <1>4 DEF RoundItems
  <2> QED
    BY <1>3, <1>4, <2>1, <2>2, <2>3
<1> DEFINE went(s) == Taken[f][s] # {} /\ Taken[w][s] = {}
           away == [s \in Slots |-> IF went(s) THEN {} ELSE Taken[f][s]]
           here == [s \in Slots |-> IF went(s) THEN Taken[f][s] ELSE Taken[w][s]]
<1>6. /\ \A s \in Slots : went(s) <=> RoundMoves(r, s)
      /\ \A s \in Slots : Taken[f][s] = round[f][s].plays /\ Taken[w][s] = round[w][s].plays
  BY <1>1, <1>5 DEF Taken
<1>7. Taken'[f] = away /\ Taken'[w] = here
  <2>1. /\ Taken'[f] = [s \in Slots |-> round'[f][s].plays]
        /\ Taken'[w] = [s \in Slots |-> round'[w][s].plays]
    BY <1>1 DEF Taken
  <2>2. ASSUME NEW s \in Slots
        PROVE  /\ round'[f][s].plays = IF went(s) THEN {} ELSE Taken[f][s]
               /\ round'[w][s].plays = IF went(s) THEN Taken[f][s] ELSE Taken[w][s]
    <3> HIDE DEF went
    <3>1. CASE RoundMoves(r, s)
      BY <1>5, <1>6, <3>1
    <3>2. CASE ~RoundMoves(r, s)
      BY <1>3, <1>6, <3>2
    <3> QED
      BY <3>1, <3>2
  <2> HIDE DEF went
  <2> QED
    BY <2>1, <2>2
<1>8. /\ \A a \in AccountIds \ {f, w} : Taken'[a] = Taken[a]
      /\ Taken = [a \in AccountIds |-> Taken[a]]
      /\ Taken' = [a \in AccountIds |-> Taken'[a]]
  BY <1>3 DEF Taken
<1> HIDE DEF away, here, went
<1>9. Taken' = [Taken EXCEPT ![f] = away, ![w] = here]
  BY <1>1, <1>7, <1>8
<1> QED
  BY <1>0, <1>1, <1>9 DEF away, here, went

LEMMA AdoptImplements ==
    ASSUME Inv, NEW r \in Requests, Adopt(r)
    PROVE  Contract!Next \/ UNCHANGED outside
<1>0. PICK t, f, w : t = job[r].token /\ f = From(r) /\ w = To(r)
  OBVIOUS
<1>1. UNCHANGED <<setting, binding, codes, sends>> /\ At(r, "adopt")
  BY DEF Adopt
<1>2. CASE RefuseAdoption(r)
  BY <1>1, <1>2, Unseen DEF RefuseAdoption, play
<1>3. CASE CommitAdoption(r)
  <2>1. /\ f \in AccountIds /\ w \in AccountIds /\ f # w /\ Live(f) /\ Live(w)
        /\ Owner(t) = f /\ (Erases(r) <=> account[f].email = None)
    BY <1>0, <1>1, <1>3, Switching
  <2>2. /\ t \in Tokens /\ Owner(t)' = w
        /\ \A u \in Tokens \ {t} : Owner(u)' = Owner(u)
    <3>1. device' = [device EXCEPT ![t].account = w] /\ job' = job
      BY <1>0, <1>1, <1>3 DEF CommitAdoption, setting
    <3> QED
      BY <1>0, <2>1, <3>1, Facts, DeviceMoves
  <2>3. Owners' = [Owners EXCEPT ![t] = w] /\ Owners[t] = f
    <3>1. /\ Owners = [u \in Tokens |-> Owner(u)]
          /\ Owners' = [u \in Tokens |-> Owner(u)']
      BY DEF Owners
    <3>2. \A u \in Tokens : Owner(u)' = IF u = t THEN w ELSE Owner(u)
      BY <2>2
    <3> QED
      BY <2>1, <2>2, <3>1, <3>2
  <2>4. f \in Alive /\ w \in Alive /\ Addressed[f] = account[f].email
    BY <2>1 DEF Alive, Addressed
  <2>5. CASE ~Erases(r)
    <3>1. UNCHANGED <<account, round>>
      BY <1>3, <2>5 DEF CommitAdoption
    <3>2. Addressed' = Addressed /\ Alive' = Alive /\ Taken' = Taken /\ Addressed[f] # None
      BY <2>1, <2>4, <2>5, <3>1 DEF Addressed, Alive, Taken, Live
    <3>3. Contract!Adopt(t, f, w)
      BY <1>1, <2>1, <2>3, <2>4, <3>2
         DEF Contract!Adopt, Addressed, Alive, Owners, Taken
    <3> QED
      BY <2>1, <2>2, <3>3 DEF Contract!Next
  <2>6. CASE Erases(r)
    <3>1. account' = [account EXCEPT ![f] = [status |-> "dead", email |-> None]]
      BY <1>0, <1>3, <2>6 DEF CommitAdoption, Erase, Dead
    <3>2. Alive' = Alive \ {f} /\ Addressed' = Addressed /\ Addressed[f] = None
      BY <2>1, <2>6, <3>1, Typed DEF Alive, Addressed, Live
    <3>3. Taken' = [Taken EXCEPT
                ![f] = [s \in Slots |->
                    IF Taken[f][s] # {} /\ Taken[w][s] = {} THEN {} ELSE @[s]],
                ![w] = [s \in Slots |->
                    IF Taken[f][s] # {} /\ Taken[w][s] = {} THEN Taken[f][s] ELSE @[s]]]
      BY <1>0, <1>1, <1>3, <2>6, HandedOver
    <3>4. Contract!Adopt(t, f, w)
      BY <1>1, <2>1, <2>3, <2>4, <3>2, <3>3
         DEF Contract!Adopt, Contract!Follows, Addressed, Alive, Owners, Taken
    <3> QED
      BY <2>1, <2>2, <3>4 DEF Contract!Next
  <2> QED
    BY <2>5, <2>6
<1> QED
  BY <1>2, <1>3 DEF Adopt

LEMMA DeleteImplements ==
    ASSUME Inv, NEW r \in Requests, Delete(r)
    PROVE  Contract!Next \/ UNCHANGED outside
<1>0. PICK a, e : a = proc[r].account /\ e = proc[r].email
  OBVIOUS
<1>1. /\ UNCHANGED <<device, round>> /\ proc[r].pc = "delete"
      /\ a \in AccountIds /\ e \in Emails \cup {None}
  BY <1>0, Facts DEF Delete, At, Truth, Known, Acting, Guests, Memory
<1>2. CASE UNCHANGED <<account, binding>>
  BY <1>1, <1>2, Unseen
<1>3. CASE /\ MayDelete(r)
           /\ account' = Dead(a)
           /\ binding' = IF e = None THEN binding ELSE [binding EXCEPT ![e] = None]
  <2>1. Live(a) /\ account[a].email = e
    BY <1>0, <1>3 DEF MayDelete
  <2>2. account' = [account EXCEPT ![a] = [status |-> "dead", email |-> None]]
    BY <1>3 DEF Dead
  <2>3. Alive' = Alive \ {a} /\ a \in Alive
    BY <2>1, <2>2, Typed DEF Alive, Live
  <2>4. Addressed' = [Addressed EXCEPT ![a] = None]
    BY <1>1, <2>2, Typed DEF Addressed
  <2>5. binding' = [m \in Emails |-> IF binding[m] = a THEN None ELSE binding[m]]
    <3>1. \A m \in Emails : binding[m] = a <=> m = e
      BY <1>1, <2>1 DEF Inv, Stores, AddressesAgree
    <3> QED
      BY <1>1, <1>3, <3>1, Typed, Named
  <2>6. Owners' = Owners /\ Taken' = Taken
    BY <1>1 DEF Owners, Owner, Taken
  <2>7. Contract!Delete(a)
    BY <2>3, <2>4, <2>5, <2>6 DEF Contract!Delete, Addressed, Alive, Owners, Taken
  <2> QED
    BY <1>1, <2>7 DEF Contract!Next
<1> QED
  BY <1>0, <1>2, <1>3 DEF Delete

(* Only rounds change.                                                     *)
LEMMA RoundsOnly ==
    ASSUME UNCHANGED <<account, device>>
    PROVE  Addressed' = Addressed /\ Alive' = Alive /\ Owners' = Owners
BY DEF Addressed, Alive, Owners, Owner, Live

(* One round changes the plays it holds.                                   *)
LEMMA OneRound ==
    ASSUME NEW a \in AccountIds, NEW s \in Slots, NEW held, round'[a][s].plays = held,
           \A x \in AccountIds, y \in Slots : x # a \/ y # s => round'[x][y] = round[x][y]
    PROVE  Taken' = [Taken EXCEPT ![a][s] = held]
<1>1. /\ Taken = [x \in AccountIds |-> [y \in Slots |-> round[x][y].plays]]
      /\ Taken' = [x \in AccountIds |-> [y \in Slots |-> round'[x][y].plays]]
  BY DEF Taken
<1>2. \A x \in AccountIds, y \in Slots :
          round'[x][y].plays = IF x = a /\ y = s THEN held ELSE round[x][y].plays
  OBVIOUS
<1>3. Taken' = [x \in AccountIds |-> [y \in Slots |->
                   IF x = a /\ y = s THEN held ELSE round[x][y].plays]]
  BY <1>1, <1>2
<1>4. Taken[a] = [y \in Slots |-> round[a][y].plays]
  BY <1>1
<1>5. [Taken[a] EXCEPT ![s] = held]
          = [y \in Slots |-> IF y = s THEN held ELSE round[a][y].plays]
  BY <1>4
<1>6. [Taken EXCEPT ![a][s] = held] = [Taken EXCEPT ![a] = [Taken[a] EXCEPT ![s] = held]]
  OBVIOUS
<1>7. \A x \in AccountIds \ {a} :
          [y \in Slots |-> IF x = a /\ y = s THEN held ELSE round[x][y].plays] = Taken[x]
  BY <1>1
<1>8. [Taken EXCEPT ![a] = [Taken[a] EXCEPT ![s] = held]]
          = [x \in AccountIds |-> IF x = a THEN [Taken[a] EXCEPT ![s] = held] ELSE Taken[x]]
  BY <1>1
<1>9. \A x \in AccountIds :
          [y \in Slots |-> IF x = a /\ y = s THEN held ELSE round[x][y].plays]
              = IF x = a THEN [Taken[a] EXCEPT ![s] = held] ELSE Taken[x]
  <2> SUFFICES ASSUME NEW x \in AccountIds
               PROVE  [y \in Slots |-> IF x = a /\ y = s THEN held ELSE round[x][y].plays]
                          = IF x = a THEN [Taken[a] EXCEPT ![s] = held] ELSE Taken[x]
    OBVIOUS
  <2>1. CASE x = a
    BY <1>5, <2>1
  <2>2. CASE x # a
    BY <1>7, <2>2
  <2> QED
    BY <2>1, <2>2
<1>10. Taken' = [x \in AccountIds |-> IF x = a THEN [Taken[a] EXCEPT ![s] = held] ELSE Taken[x]]
  BY <1>3, <1>9
<1> QED
  BY <1>6, <1>8, <1>10

LEMMA AppendImplements ==
    ASSUME Inv, NEW r \in Requests, AppendGuess(r)
    PROVE  Contract!Next \/ UNCHANGED outside
<1>0. PICK a, s : a = proc[r].account /\ s = job[r].slot
  OBVIOUS
<1>1. /\ UNCHANGED <<account, device, binding>> /\ a \in AccountIds /\ s \in Slots
  BY <1>0, Facts DEF AppendGuess, At, identity, Truth, Known, Acting, Guests, Jobs
<1>2. CASE UNCHANGED round
  BY <1>1, <1>2, Unseen
<1>3. CASE round' = [round EXCEPT ![a][s] =
                [plays |-> @.plays \cup {r}, solved |-> job[r].solves, version |-> @.version + 1]]
  <2>1. /\ round'[a][s].plays = round[a][s].plays \cup {r}
        /\ \A x \in AccountIds, y \in Slots : x # a \/ y # s => round'[x][y] = round[x][y]
    BY <1>1, <1>3, Typed
  <2>2. Taken' = [Taken EXCEPT ![a][s] = Taken[a][s] \cup {r}]
    <3>1. Taken[a][s] = round[a][s].plays
      BY <1>1 DEF Taken
    <3> QED
      BY <1>1, <2>1, <3>1, OneRound
  <2>3. Contract!Play(a, s, r)
    BY <1>1, <2>2, RoundsOnly DEF Contract!Play, Addressed, Alive, Owners, Taken
  <2> QED
    BY <1>1, <2>3 DEF Contract!Next
<1> QED
  BY <1>0, <1>2, <1>3 DEF AppendGuess

LEMMA RemoveImplements == ASSUME Inv, RemoveRound PROVE Contract!Next
<1>0. PICK a, s : a = proc[Worker].whose /\ s = proc[Worker].from
  OBVIOUS
<1>1. /\ UNCHANGED <<account, device, binding>> /\ proc[Worker].pc = "round"
      /\ round' = [round EXCEPT ![a][s] = NoRound]
  BY <1>0 DEF RemoveRound, At, identity
<1>2. a \in AccountIds /\ s \in Slots /\ ~Live(a)
  BY <1>0, <1>1, WorkerFacts DEF Swept, IsDead, Live
<1>3. /\ round'[a][s].plays = {}
      /\ \A x \in AccountIds, y \in Slots : x # a \/ y # s => round'[x][y] = round[x][y]
  BY <1>1, <1>2, Typed DEF NoRound
<1>4. Taken' = [Taken EXCEPT ![a][s] = {}] /\ a \notin Alive
  BY <1>2, <1>3, OneRound DEF Alive
<1>5. Contract!Purge(a, s)
  BY <1>1, <1>4, RoundsOnly DEF Contract!Purge, Addressed, Alive, Owners, Taken
<1> QED
  BY <1>2, <1>5 DEF Contract!Next

-----------------------------------------------------------------------------
(* The stores implement the contract.                                      *)

LEMMA NextImplements == Inv /\ [Next]_vars => [Contract!Next]_outside
<1> SUFFICES ASSUME Inv, [Next]_vars PROVE Contract!Next \/ UNCHANGED outside
  OBVIOUS
<1>1. CASE UNCHANGED vars
  BY <1>1, Unseen DEF vars, identity, play
<1>2. ASSUME NEW r \in Requests,
             \/ Arrive(r) \/ Authenticate(r) \/ Link(r) \/ Devices(r) \/ Plays(r)
      PROVE  Contract!Next \/ UNCHANGED outside
  <2>1. CASE Arrive(r) \/ Authenticate(r)
    BY <2>1, Unseen DEF Arrive, Authenticate, identity, play
  <2>2. CASE Link(r)
    <3>1. CASE \/ ReadSends(r) \/ SpendSends(r) \/ PutChallenge(r) \/ Verify(r) \/ Judge(r)
               \/ ReadBinding(r) \/ Confirm(r) \/ PlanMoves(r) \/ CreditMoved(r)
      BY <3>1, Unseen DEF ReadSends, SpendSends, PutChallenge, Verify, Judge, ReadBinding,
          Confirm, PlanMoves, CreditMoved, identity, play
    <3> QED
      BY <2>2, <3>1, BindImplements, AdoptImplements DEF Link
  <2>3. CASE Devices(r)
    <3>1. CASE Resolve(r) \/ Exists(r) \/ Raced(r) \/ DeleteAgain(r)
      BY <3>1, Unseen DEF Resolve, Exists, Raced, DeleteAgain, identity, play
    <3> QED
      BY <2>3, <3>1, CreateImplements, SignOutImplements, DeleteImplements DEF Devices
  <2>4. CASE Plays(r)
    <3>1. CASE SubmitScore(r) \/ CreditDay(r) \/ SaveProfile(r) \/ JoinGroup(r)
      BY <3>1, Unseen DEF SubmitScore, CreditDay, SaveProfile, JoinGroup, identity, play
    <3> QED
      BY <2>4, <3>1, AppendImplements DEF Plays
  <2> QED
    BY <1>2, <2>1, <2>2, <2>3, <2>4
<1>3. ASSUME NEW p \in Procs, Departs(p) \/ Throws(p)
      PROVE  Contract!Next \/ UNCHANGED outside
  <2>1. CASE \/ Drain(p) \/ LeaveOne(p) \/ ClearDeparture(p) \/ DepartGroups(p)
             \/ ListDevices(p) \/ Throws(p)
    BY <2>1, Unseen DEF Drain, LeaveOne, ClearDeparture, DepartGroups, ListDevices, Throws,
        identity, play
  <2> QED
    BY <1>3, <2>1, RevokeListedImplements DEF Departs
<1>4. CASE Purges \/ WorkerStops \/ Tick
  <2>1. CASE \/ TakeJob \/ ListRounds \/ RemoveScore \/ Sweep \/ ClearPurge
             \/ WorkerStops \/ Tick
    BY <2>1, Unseen DEF TakeJob, ListRounds, RemoveScore, Sweep, ClearPurge, WorkerStops, Tick,
        identity, play
  <2> QED
    BY <1>4, <2>1, RemoveImplements DEF Purges
<1> QED
  BY <1>1, <1>2, <1>3, <1>4 DEF Next

(* Whatever requests interleave, the stores do in single steps what the    *)
(* memory stores do: initial states map to initial states, and every step  *)
(* to an operation of the contract or to a stutter (dynamoDeviceStore.ts,  *)
(* dynamoLinkStore.ts, purge.ts).                                          *)
THEOREM Implementation == Spec => ImplementsContract
<1>1. Inv => Contract!Init
  BY Typed DEF Contract!Init, AccountItems, DeviceItems, RoundItems, Owner
<1>2. Inv /\ [Next]_vars => [Contract!Next]_outside
  BY NextImplements
<1> QED
  BY <1>1, <1>2, Invariance, PTL
     DEF Spec, ImplementsContract, Contract!Spec, Contract!vars, outside, Addressed, Alive,
         Owners, Taken

=============================================================================
