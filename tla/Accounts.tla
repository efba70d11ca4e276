------------------------------ MODULE Accounts ------------------------------
(***************************************************************************)
(* Accounts on the server: the device that plays (dynamoDeviceStore.ts),   *)
(* the code that saves an account at an address or adopts the one saved    *)
(* there (link.ts, dynamoLinkStore.ts), the deletion (devices.ts) and the  *)
(* hourly purge of what a deleted account left (purge.ts).                 *)
(*                                                                         *)
(* A request is a process, and so is the purge worker.  Each call to a     *)
(* store is one atomic step: a DynamoDB transaction, a conditional write   *)
(* or a read.  A process may stop for good between two steps, and a        *)
(* request takes none once the Lambda's timeout has passed.                *)
(*                                                                         *)
(* A code is named by its place among the codes of its address, 0 stands   *)
(* for a wrong guess, and the hash of a code for the code.  A round holds  *)
(* the requests whose guesses it took; how it takes them, and how a score  *)
(* is replaced, is module RoundStore.  A group membership is one bit, in   *)
(* any group: module Groups opens it up.                                   *)
(***************************************************************************)
EXTENDS Integers, FiniteSets, Sequences, SequencesExt

CONSTANTS
    AccountIds,     \* player ids, minted or yet to be
    Tokens,         \* device tokens
    Emails,         \* addresses
    Requests,       \* request slots, each serves one request
    Worker,         \* the purge worker
    Slots,          \* the daily rounds that are open: one per language
    Ip,             \* the network address every request comes from
    None,
    Starts,         \* the stores, and what each request asks, a run begins with
    MaxClock,       \* bound: instants
    MaxFaults,      \* bound: calls that throw where the code carries on
    Timeout,        \* the API Lambda's timeout
    Settle,         \* PURGE_SETTLE_MS
    CodeTtl,        \* LINK_CODE_TTL_SECONDS
    MaxWrong,       \* LINK_CODE_MAX_ATTEMPTS
    Limit,          \* LINK_SENDS_PER_ADDRESS and LINK_SENDS_PER_IP, by scope
    SendWindow,     \* LINK_SEND_WINDOW_SECONDS
    MaxTries        \* bound on every retry loop, at most the code's own

VARIABLES
    job,        \* what each request asks: constant along a behaviour
    horizon,    \* bound: the last instant of the behaviour, constant too
    account,    \* the account items
    device,     \* the device items, by token
    binding,    \* the account saved at an address
    challenge,  \* the code an address may answer, item by item
    codes,      \* the codes of an address: the sends that minted them, in order
    sends,      \* the send allowance items, by scope
    depart,     \* departure jobs: <<adopter, the account it left>>
    purge,      \* the purge jobs, with the instant they were queued
    round, score, history, profile,
    member,     \* the accounts that are in some group
    proc,       \* what each process holds in memory
    clock,
    faults,     \* calls that threw and were carried on from
    granted,    \* ghost: the codes that saved or adopted, with the latest one
    purged,     \* ghost: the accounts whose purge was cleared
    heir,       \* ghost: who took over an erased account, and which rounds
    signedOut   \* ghost: the accounts a device was removed from

identity == <<account, device, binding>>
mail == <<challenge, codes, sends>>
play == <<round, score, history, profile>>
jobs == <<depart, purge>>
ghosts == <<granted, purged, heir, signedOut>>
setting == <<job, horizon>>
vars == <<setting, identity, mail, play, jobs, member, proc, clock, faults, ghosts>>

(* A request in flight when its account was deleted authenticated before   *)
(* the deletion committed, and the deletion within its own timeout.        *)
ASSUME SettleAssumption ==
    /\ Timeout \in Nat /\ Settle \in Nat /\ MaxClock \in Nat
    /\ Settle > 2 * Timeout

(* The window an allowance counts outlasts a request.                      *)
ASSUME CodeAssumption ==
    /\ CodeTtl \in Nat /\ MaxWrong \in Nat /\ MaxFaults \in Nat
    /\ SendWindow \in Nat /\ SendWindow > Timeout
    /\ \A s \in Emails \cup {Ip} : Limit[s] \in Nat

ASSUME NoneAssumption ==
    /\ None \notin AccountIds \cup Emails \cup Requests
    /\ Worker \notin Requests
    /\ Ip \notin Emails
    /\ Emails \cap Requests = {}

Procs == Requests \cup {Worker}
Scopes == Emails \cup {Ip}

Unborn == [status |-> "unborn", email |-> None]
Live(a) == a \in AccountIds /\ account[a].status = "live"
Owner(t) == device[t].account
NoDevice == [account |-> None, id |-> None]
NoRound == [plays |-> {}, solved |-> FALSE, version |-> 0]
NoCode == [code |-> 0, wrong |-> 0, expires |-> 0]

(* What a process holds: the account and device it authenticated as, the   *)
(* account it works for, and what it read or has left to do.               *)
Idle == [pc |-> "idle", at |-> 0, account |-> None, email |-> None, id |-> None,
         whose |-> None, from |-> None, seen |-> <<>>, todo |-> {}, tries |-> 0, clean |-> TRUE,
         answer |-> "none"]

Pcs == {"idle", "resolve", "exists", "create", "raced", "auth", "sends", "spend",
        "put", "verify", "judge", "binding", "bind", "confirm", "plan",
        "adopt", "credit", "list", "revoke", "depart", "drain", "leave", "clear",
        "delete", "again", "append", "reward", "profile", "join", "remove",
        "keys", "score", "round", "sweep", "finish", "done"}

AccountItems == [status : {"unborn", "live", "dead"}, email : Emails \cup {None}]
DeviceItems == [account : AccountIds \cup {None}, id : AccountIds \cup {None}]
CodeItems == [code : Nat, wrong : Nat, expires : Nat]
RoundItems == [plays : SUBSET Requests, solved : BOOLEAN, version : Nat]

(* A send, by the request that made it, or, made earlier, by its address.  *)
(* Of the list that an allowance keeps the order tells nothing apart, and  *)
(* no list comes back within the life of a request that read it: each send *)
(* is added at its end, and is dropped a window later.                     *)
SendItems == [by : Requests \cup Emails, at : 0..MaxClock]

Jobs == [op : {"none", "bootstrap", "send", "verify", "visit", "delete", "revoke", "play",
               "profile", "join"},
         token : Tokens, email : Emails, code : Nat, bind : BOOLEAN,
         confirm : AccountIds \cup {None}, slot : Slots, solves : BOOLEAN, target : Tokens]

(* The items are of the shapes the stores write, a round item without a    *)
(* version is absent, and a process is somewhere in its handler.           *)
TypeOK ==
    /\ account \in [AccountIds -> AccountItems]
    /\ device \in [Tokens -> DeviceItems]
    /\ binding \in [Emails -> AccountIds \cup {None}]
    /\ challenge \in [Emails -> CodeItems]
    /\ codes \in [Emails -> Seq(SendItems)]
    /\ sends \in [Scopes -> SUBSET SendItems]
    /\ depart \in SUBSET (AccountIds \X AccountIds)
    /\ purge \in [AccountIds -> 0..MaxClock \cup {None}]
    /\ round \in [AccountIds -> [Slots -> RoundItems]]
    /\ \A a \in AccountIds, s \in Slots : round[a][s].version = 0 => round[a][s] = NoRound
    /\ score \in [AccountIds -> [Slots -> Requests \cup {None}]]
    /\ history \in [AccountIds -> SUBSET Slots]
    /\ profile \in SUBSET AccountIds
    /\ member \in SUBSET AccountIds
    /\ clock \in 0..MaxClock
    /\ faults \in 0..MaxFaults
    /\ DOMAIN proc = Procs
    /\ \A p \in Procs :
        /\ proc[p].pc \in Pcs
        /\ proc[p].account \in AccountIds \cup {None}
        /\ proc[p].whose \in AccountIds \cup {None}

(* The stores a run may begin with: an address and the account saved at it *)
(* name each other, an account saved nowhere is on one device, a code is   *)
(* the latest of its address, and the sends of the codes fill their        *)
(* allowance.                                                              *)
Startable(s) ==
    /\ s.job \in [Requests -> Jobs]
    /\ s.horizon \in 0..MaxClock
    /\ s.account \in [AccountIds -> AccountItems]
    /\ s.device \in [Tokens -> DeviceItems]
    /\ s.binding \in [Emails -> AccountIds \cup {None}]
    /\ s.challenge \in [Emails -> CodeItems]
    /\ s.codes \in [Emails -> Seq(SendItems)]
    /\ s.sends \in [Scopes -> SUBSET SendItems]
    /\ s.round \in [AccountIds -> [Slots -> RoundItems]]
    /\ s.member \in SUBSET AccountIds
    /\ \A a \in AccountIds, e \in Emails :
        s.binding[e] = a <=> (s.account[a].status = "live" /\ s.account[a].email = e)
    /\ \A a \in AccountIds :
        /\ s.account[a].status # "live" => s.account[a].email = None
        /\ s.account[a].status = "unborn" => \A t \in Tokens : s.device[t].account # a
        /\ s.account[a].status = "live" /\ s.account[a].email = None =>
            \E t \in Tokens : \A u \in Tokens : s.device[u].account = a <=> u = t
        /\ \A x \in Slots : s.round[a][x].version = 0 => s.round[a][x] = NoRound
    /\ \A e \in Emails :
        /\ s.challenge[e].code \in {0, Len(s.codes[e])}
        /\ IsFiniteSet(s.sends[e]) /\ Cardinality(s.sends[e]) <= Limit[e]
        /\ \A i \in 1..Len(s.codes[e]) :
            /\ s.codes[e][i] \in s.sends[e] /\ s.codes[e][i].by = e
            /\ \A j \in 1..Len(s.codes[e]) : s.codes[e][i] = s.codes[e][j] => i = j

ASSUME StartsAssumption == \A s \in Starts : Startable(s)

Init ==
    /\ \E s \in Starts :
        /\ job = s.job
        /\ horizon = s.horizon
        /\ account = s.account
        /\ device = s.device
        /\ binding = s.binding
        /\ challenge = s.challenge
        /\ codes = s.codes
        /\ sends = s.sends
        /\ round = s.round
        /\ member = s.member
    /\ depart = {}
    /\ purge = [a \in AccountIds |-> None]
    /\ score = [a \in AccountIds |-> [s \in Slots |-> None]]
    /\ history = [a \in AccountIds |-> {}]
    /\ profile = {}
    /\ proc = [p \in Procs |-> Idle]
    /\ clock = 0
    /\ faults = 0
    /\ granted = [e \in Emails |-> <<>>]
    /\ purged = {}
    /\ heir = [a \in AccountIds |-> [to |-> None, rounds |-> {}]]
    /\ signedOut = {}

-----------------------------------------------------------------------------
(* A request steps while its Lambda lives.                                 *)
At(p, pc) ==
    /\ proc[p].pc = pc
    /\ p # Worker => clock <= proc[p].at + Timeout

Become(p, q) == proc' = [proc EXCEPT ![p] = q]
Goto(p, pc) == Become(p, [proc[p] EXCEPT !.pc = pc])
Done(a) == [Idle EXCEPT !.pc = "done", !.answer = a]
Answer(p, a) == Become(p, Done(a))

(* A request arrives: a bootstrap has no device to authenticate.           *)
Arrive(r) ==
    /\ proc[r].pc = "idle"
    /\ job[r].op # "none"
    /\ Become(r, [Idle EXCEPT !.at = clock,
                  !.pc = IF job[r].op = "bootstrap" THEN "resolve" ELSE "auth"])
    /\ UNCHANGED <<setting, identity, mail, play, jobs, member, clock, faults, ghosts>>

As(q, t) == [q EXCEPT !.account = device[t].account, !.id = device[t].id,
                      !.email = account[device[t].account].email]

FirstStep(op) ==
    CASE op = "send" -> "sends"
      [] op = "verify" -> "verify"
      [] op = "visit" -> "drain"
      [] op = "delete" -> "delete"
      [] op = "revoke" -> "remove"
      [] op = "play" -> "append"
      [] op = "profile" -> "profile"
      [] op = "join" -> "join"

(* requireDevice: the device item, and the account it names must exist.    *)
(* A switch between the two reads can only turn an answer into a 401.      *)
Authenticate(r) ==
    /\ At(r, "auth")
    /\ LET t == job[r].token IN
        IF Live(Owner(t))
        THEN Become(r, [As(proc[r], t) EXCEPT !.pc = FirstStep(job[r].op),
                                              !.whose = Owner(t)])
        ELSE Answer(r, "unknown_device")
    /\ UNCHANGED <<setting, identity, mail, play, jobs, member, clock, faults, ghosts>>

-----------------------------------------------------------------------------
(* Bootstrap.  A token that resolves answers what it resolves to.  The two *)
(* reads are kept apart: what the second finds dead, a switch may have     *)
(* moved since the first.                                                  *)
Resolve(r) ==
    /\ At(r, "resolve")
    /\ LET found == Owner(job[r].token) IN
        Become(r, [proc[r] EXCEPT !.account = found, !.id = device[job[r].token].id,
                   !.pc = IF found = None THEN "create" ELSE "exists"])
    /\ UNCHANGED <<setting, identity, mail, play, jobs, member, clock, faults, ghosts>>

Exists(r) ==
    /\ At(r, "exists")
    /\ IF Live(proc[r].account) THEN Answer(r, "signed_in") ELSE Goto(r, "create")
    /\ UNCHANGED <<setting, identity, mail, play, jobs, member, clock, faults, ghosts>>

(* The device item is still absent, or still the orphan that was read.     *)
TokenUnchanged(r) == Owner(job[r].token) = proc[r].account

(* One transaction: a new account and the device item of the token.        *)
Create(r) ==
    /\ At(r, "create")
    /\ IF TokenUnchanged(r)
       THEN \E a \in AccountIds :
            /\ account[a].status = "unborn"
            /\ account' = [account EXCEPT ![a].status = "live"]
            /\ device' = [device EXCEPT ![job[r].token] = [account |-> a, id |-> a]]
            /\ Answer(r, "signed_in")
       ELSE Goto(r, "raced") /\ UNCHANGED <<account, device>>
    /\ UNCHANGED <<setting, binding, mail, play, jobs, member, clock, faults, ghosts>>

(* The race was lost: whoever won it is the answer.                        *)
Raced(r) ==
    /\ At(r, "raced")
    /\ LET t == job[r].token IN
        Answer(r, IF Live(Owner(t)) THEN "signed_in" ELSE "failed")
    /\ UNCHANGED <<setting, identity, mail, play, jobs, member, clock, faults, ghosts>>

-----------------------------------------------------------------------------
(* Asking for a code.  spendSends reads every allowance, and writes them   *)
(* all in one transaction if none changed since.                           *)
Recent(list, now) == {x \in list : x.at > now - SendWindow}

Sending(r) == [by |-> r, at |-> proc[r].at]

ScopesOf(r) == {job[r].email, Ip}

ReadSends(r) ==
    /\ At(r, "sends")
    /\ IF \E s \in ScopesOf(r) : Cardinality(Recent(sends[s], proc[r].at)) >= Limit[s]
       THEN Answer(r, "too_many_codes")
       ELSE Become(r, [proc[r] EXCEPT !.pc = "spend",
                       !.seen = [s \in ScopesOf(r) |-> sends[s]]])
    /\ UNCHANGED <<setting, identity, mail, play, jobs, member, clock, faults, ghosts>>

SendsUnchanged(r) == \A s \in ScopesOf(r) : sends[s] = proc[r].seen[s]

SpendSends(r) ==
    /\ At(r, "spend")
    /\ IF SendsUnchanged(r)
       THEN /\ sends' = [s \in Scopes |->
                            IF s \in ScopesOf(r)
                            THEN Recent(proc[r].seen[s], proc[r].at) \cup {Sending(r)}
                            ELSE sends[s]]
            /\ Become(r, [proc[r] EXCEPT !.pc = "put", !.seen = <<>>])
       ELSE /\ UNCHANGED sends
            /\ IF proc[r].tries + 1 < MaxTries
               THEN Become(r, [proc[r] EXCEPT !.pc = "sends", !.seen = <<>>,
                                              !.tries = @ + 1])
               ELSE Answer(r, "failed")
    /\ UNCHANGED <<setting, identity, challenge, codes, play, jobs, member, clock, faults, ghosts>>

(* The new code replaces the one before, and its wrong guesses.  The mail  *)
(* goes out next; when it cannot, the code stands all the same.            *)
PutChallenge(r) ==
    /\ At(r, "put")
    /\ LET e == job[r].email IN
        /\ codes' = [codes EXCEPT ![e] = Append(@, Sending(r))]
        /\ challenge' = [challenge EXCEPT ![e] =
                [code |-> Len(codes[e]) + 1, wrong |-> 0,
                 expires |-> proc[r].at + CodeTtl]]
    /\ Answer(r, "sent")
    /\ UNCHANGED <<setting, identity, sends, play, jobs, member, clock, faults, ghosts>>

-----------------------------------------------------------------------------
(* Verifying a code.  A wrong guess is counted by one conditional update;  *)
(* what refuses it is told apart by a read that follows.                   *)
Held(r) == challenge[job[r].email]

Expired(r) == Held(r).expires <= proc[r].at

GuessCounts(r) ==
    /\ Held(r).code # 0 /\ Held(r).wrong < MaxWrong
    /\ ~Expired(r)
    /\ Held(r).code # job[r].code

Verify(r) ==
    /\ At(r, "verify")
    /\ IF GuessCounts(r)
       THEN /\ challenge' = [challenge EXCEPT ![job[r].email].wrong = @ + 1]
            /\ Answer(r, "bad_code")
       ELSE Goto(r, "judge") /\ UNCHANGED challenge
    /\ UNCHANGED <<setting, identity, codes, sends, play, jobs, member, clock, faults, ghosts>>

Judge(r) ==
    /\ At(r, "judge")
    /\ \/ Held(r).code = 0 /\ Answer(r, "no_code")
       \/ Held(r).code # 0 /\ Expired(r) /\ Answer(r, "code_expired")
       \/ /\ Held(r).code # 0 /\ ~Expired(r)
          /\ \/ Held(r).wrong >= MaxWrong /\ Answer(r, "code_spent")
             \/ /\ Held(r).wrong < MaxWrong
                /\ IF Held(r).code = job[r].code THEN Goto(r, "binding")
                   ELSE IF proc[r].tries + 1 < MaxTries
                   THEN Become(r, [proc[r] EXCEPT !.pc = "verify", !.tries = @ + 1])
                   ELSE Answer(r, "failed")
    /\ UNCHANGED <<setting, identity, mail, play, jobs, member, clock, faults, ghosts>>

(* What the address reaches decides the way: save the account there, or    *)
(* adopt the one that is.                                                  *)
Reaches(r, target) ==
    IF target = proc[r].account THEN Answer(r, "already_bound")
    ELSE Become(r, [proc[r] EXCEPT !.pc = "confirm", !.whose = target, !.tries = 0])

ReadBinding(r) ==
    /\ At(r, "binding")
    /\ LET target == binding[job[r].email] IN
        IF target # None THEN Reaches(r, target)
        ELSE IF ~job[r].bind THEN Answer(r, "no_account")
        ELSE IF proc[r].email \notin {None, job[r].email} THEN Answer(r, "account_linked")
        ELSE Goto(r, "bind")
    /\ UNCHANGED <<setting, identity, mail, play, jobs, member, clock, faults, ghosts>>

(* Mutant: a code is consumed whatever code the address holds now.         *)
MayConsume_AnyCode(r) == Held(r).code # 0 /\ ~Expired(r)

(* consumeChallenge: this code, unexpired, with guesses left.              *)
MayConsume(r) ==
    Held(r).code = job[r].code /\ ~Expired(r) /\ Held(r).wrong < MaxWrong

(* The code is deleted by what it grants.                                  *)
Consume(r) ==
    /\ challenge' = [challenge EXCEPT ![job[r].email] = NoCode]
    /\ granted' = [granted EXCEPT ![job[r].email] = Append(@,
            <<job[r].code, Len(codes[job[r].email])>>)]

MayBind(r) ==
    /\ Live(proc[r].account)
    /\ account[proc[r].account].email \in {None, job[r].email}

(* One transaction: the binding, the account's address, the code.  A       *)
(* refusal is read code first, then the account; the address is not taken  *)
(* while the code stands (NotTaken), so that refusal is left out, and the  *)
(* adoption the route would go on to.                                      *)
Bind(r) ==
    /\ At(r, "bind")
    /\ LET a == proc[r].account
           e == job[r].email
       IN  \/ /\ MayConsume(r) /\ binding[e] = None /\ MayBind(r)
              /\ binding' = [binding EXCEPT ![e] = a]
              /\ account' = [account EXCEPT ![a].email = e]
              /\ Consume(r)
              /\ Answer(r, "bound")
           \/ /\ ~MayConsume(r)
              /\ Answer(r, "code_spent")
              /\ UNCHANGED <<account, binding, challenge, granted>>
           \/ /\ MayConsume(r) /\ binding[e] = None /\ ~MayBind(r)
              /\ Answer(r, IF Live(Owner(job[r].token)) THEN "account_linked"
                           ELSE "unknown_device")
              /\ UNCHANGED <<account, binding, challenge, granted>>
    /\ UNCHANGED <<setting, device, codes, sends, play, jobs, member, clock, faults,
                   purged, heir, signedOut>>

(* An account saved at no address dies with the switch, unless nothing is  *)
(* at stake: the request must name it.  A saved one is left behind, which  *)
(* the request must also say.                                              *)
Erases(r) == proc[r].email = None

Confirm(r) ==
    /\ At(r, "confirm")
    /\ LET named == job[r].confirm = proc[r].account
           atStake == history[proc[r].account] # {}
       IN  IF Erases(r)
           THEN IF atStake /\ ~named THEN Answer(r, "would_erase") ELSE Goto(r, "plan")
           ELSE IF ~named THEN Answer(r, "would_switch") ELSE Goto(r, "plan")
    /\ UNCHANGED <<setting, identity, mail, play, jobs, member, clock, faults, ghosts>>

-----------------------------------------------------------------------------
(* The adoption.  The open rounds of an account that dies are planned from *)
(* reads, and the plan is committed only over what was read: every item it *)
(* saw is re-checked by its version, or its stamp, in the transaction.     *)
From(r) == proc[r].account
To(r) == proc[r].whose

PlanMoves(r) ==
    /\ At(r, "plan")
    /\ Become(r, [proc[r] EXCEPT !.pc = "adopt", !.seen =
            [from |-> round[From(r)], to |-> round[To(r)],
             fromScore |-> score[From(r)], toScore |-> score[To(r)]]])
    /\ UNCHANGED <<setting, identity, mail, play, jobs, member, clock, faults, ghosts>>

(* A round follows its player unless the adopter has play of its own, and  *)
(* its score unless the adopter has one.                                   *)
RoundMoves(r, s) ==
    /\ Erases(r)
    /\ proc[r].seen.from[s].plays # {}
    /\ proc[r].seen.to[s].plays = {}

ScoreMoves(r, s) ==
    /\ RoundMoves(r, s)
    /\ proc[r].seen.fromScore[s] # None
    /\ proc[r].seen.toScore[s] = None

(* Mutant: only the round that is overwritten is looked at again.          *)
PlanStands_Destination(r) ==
    Erases(r) => \A s \in Slots :
        round[To(r)][s].version = proc[r].seen.to[s].version

PlanStands(r) ==
    Erases(r) => \A s \in Slots :
        /\ round[From(r)][s].version = proc[r].seen.from[s].version
        /\ round[To(r)][s].version = proc[r].seen.to[s].version
        /\ RoundMoves(r, s) => /\ score[From(r)][s] = proc[r].seen.fromScore[s]
                               /\ score[To(r)][s] = proc[r].seen.toScore[s]

(* Mutant: the account that dies is not checked to be saved nowhere.       *)
SourceStands_AnyEmail(r) == Live(From(r))

SourceStands(r) ==
    /\ Live(From(r))
    /\ (account[From(r)].email = None) <=> Erases(r)

DeviceStands(r) ==
    /\ Owner(job[r].token) = From(r)
    /\ device[job[r].token].id = proc[r].id

(* What an erasing adoption leaves of the two players' open rounds.        *)
MovedRounds(r) ==
    [round EXCEPT
        ![From(r)] = [s \in Slots |-> IF RoundMoves(r, s) THEN NoRound ELSE @[s]],
        ![To(r)] = [s \in Slots |->
            IF RoundMoves(r, s)
            THEN [proc[r].seen.from[s] EXCEPT !.version = proc[r].seen.to[s].version + 1]
            ELSE @[s]]]

MovedScores(r) ==
    [score EXCEPT
        ![From(r)] = [s \in Slots |-> IF ScoreMoves(r, s) THEN None ELSE @[s]],
        ![To(r)] = [s \in Slots |->
            IF ScoreMoves(r, s) THEN proc[r].seen.fromScore[s] ELSE @[s]]]

Dead(a) == [account EXCEPT ![a] = [status |-> "dead", email |-> None]]

Erase(r) ==
    /\ account' = Dead(From(r))
    /\ profile' = profile \ {From(r)}
    /\ purge' = [purge EXCEPT ![From(r)] = proc[r].at]
    /\ depart' = depart \cup {<<To(r), From(r)>>}
    /\ round' = MovedRounds(r)
    /\ score' = MovedScores(r)
    /\ heir' = [heir EXCEPT ![From(r)] =
            [to |-> To(r), rounds |-> {s \in Slots : RoundMoves(r, s)}]]

(* The whole switch is one transaction.                                    *)
CommitAdoption(r) ==
    /\ MayConsume(r) /\ Live(To(r)) /\ SourceStands(r) /\ DeviceStands(r) /\ PlanStands(r)
    /\ device' = [device EXCEPT ![job[r].token].account = To(r)]
    /\ Consume(r)
    /\ IF Erases(r) THEN Erase(r)
       ELSE UNCHANGED <<account, profile, purge, depart, round, score, heir>>
    /\ Become(r, [proc[r] EXCEPT !.pc = "credit", !.seen = <<>>,
            !.todo = {s \in Slots : RoundMoves(r, s) /\ proc[r].seen.from[s].solved}])

(* A refusal is read code first, then the accounts, then the device; what  *)
(* is left is a plan that went stale, and it is made again.                *)
RefuseAdoption(r) ==
    /\ \/ ~MayConsume(r) /\ Answer(r, "code_spent")
       \/ /\ MayConsume(r)
          /\ ~(Live(To(r)) /\ SourceStands(r) /\ DeviceStands(r))
          /\ IF Live(Owner(job[r].token)) /\ Owner(job[r].token) = To(r)
             THEN Become(r, [proc[r] EXCEPT !.pc = "credit", !.seen = <<>>])
             ELSE Answer(r, "link_changed")
       \/ /\ MayConsume(r) /\ Live(To(r)) /\ SourceStands(r) /\ DeviceStands(r)
          /\ ~PlanStands(r)
          /\ IF proc[r].tries + 1 < MaxTries
             THEN Become(r, [proc[r] EXCEPT !.pc = "plan", !.seen = <<>>, !.tries = @ + 1])
             ELSE Answer(r, "failed")
    /\ UNCHANGED <<account, device, challenge, granted, play, depart, purge, heir>>

Adopt(r) ==
    /\ At(r, "adopt")
    /\ CommitAdoption(r) \/ RefuseAdoption(r)
    /\ UNCHANGED <<setting, binding, codes, sends, history, member, clock, faults,
                   purged, signedOut>>

(* The solved day of a round that moved is credited to the adopter.        *)
CreditMoved(r) ==
    /\ At(r, "credit")
    /\ IF proc[r].todo = {} THEN Goto(r, "drain") /\ UNCHANGED history
       ELSE \E s \in proc[r].todo :
            /\ history' = [history EXCEPT ![To(r)] = @ \cup {s}]
            /\ Become(r, [proc[r] EXCEPT !.todo = @ \ {s}])
    /\ UNCHANGED <<setting, identity, mail, round, score, profile, jobs, member, clock,
                   faults, ghosts>>

-----------------------------------------------------------------------------
(* Departures: the groups of an account left behind are left one account   *)
(* at a time, and the job is cleared once it has.                          *)
Op(p) == IF p = Worker THEN "purge" ELSE job[p].op

(* Mutant: a departure that went well is told as one that did not.         *)
Drained_NeverClean(p, q) == IF p = Worker THEN Idle ELSE Done("adopted")

(* A request answers; the worker puts a job down that is not clean.        *)
Drained(p, q) ==
    IF p # Worker
    THEN Done(CASE Op(p) = "verify" -> "adopted"
                [] Op(p) = "visit" -> "seen"
                [] Op(p) = "delete" -> "deleted")
    ELSE IF q.clean THEN [q EXCEPT !.pc = "list", !.todo = {}] ELSE Idle

NextDeparture(p, q) == IF q.todo = {} THEN Drained(p, q) ELSE [q EXCEPT !.pc = "leave"]

Drain(p) ==
    /\ At(p, "drain")
    /\ Become(p, NextDeparture(p, [proc[p] EXCEPT
            !.todo = {f \in AccountIds : <<proc[p].whose, f>> \in depart}]))
    /\ UNCHANGED <<setting, identity, mail, play, jobs, member, clock, faults, ghosts>>

LeaveOne(p) ==
    /\ At(p, "leave")
    /\ \E f \in proc[p].todo :
        /\ member' = member \ {f}
        /\ Become(p, [proc[p] EXCEPT !.pc = "clear", !.from = f])
    /\ UNCHANGED <<setting, identity, mail, play, jobs, clock, faults, ghosts>>

ClearDeparture(p) ==
    /\ At(p, "clear")
    /\ LET f == proc[p].from IN
        /\ depart' = depart \ {<<proc[p].whose, f>>}
        /\ Become(p, NextDeparture(p, [proc[p] EXCEPT !.todo = @ \ {f}, !.from = None]))
    /\ UNCHANGED <<setting, identity, mail, play, purge, member, clock, faults, ghosts>>

(* leaveAll, of the account itself.                                        *)
DepartGroups(p) ==
    /\ At(p, "depart")
    /\ member' = member \ {proc[p].whose}
    /\ Goto(p, "drain")
    /\ UNCHANGED <<setting, identity, mail, play, jobs, clock, faults, ghosts>>

-----------------------------------------------------------------------------
(* Sign-outs.  The account-device index is eventually consistent: right    *)
(* after a deletion it may miss devices, but the caller's is known.        *)
Rows(a) == {<<t, device[t].id>> : t \in {t \in Tokens : Owner(t) = a}}

Listing(p) ==
    IF p = Worker THEN {Rows(proc[p].whose)}
    ELSE {S \cup {<<job[p].token, proc[p].id>>} : S \in SUBSET Rows(proc[p].whose)}

ListDevices(p) ==
    /\ At(p, "list")
    /\ \E S \in Listing(p) : Become(p, [proc[p] EXCEPT !.pc = "revoke", !.todo = S])
    /\ UNCHANGED <<setting, identity, mail, play, jobs, member, clock, faults, ghosts>>

(* The device item still names the account and the device of the listing.  *)
StillHolds(t, id, a) == Owner(t) = a /\ device[t].id = id

RevokeListed(p) ==
    /\ At(p, "revoke")
    /\ IF proc[p].todo = {}
       THEN /\ Goto(p, IF p = Worker THEN "keys" ELSE "depart")
            /\ UNCHANGED device
       ELSE \E row \in proc[p].todo :
            /\ device' = IF StillHolds(row[1], row[2], proc[p].whose)
                         THEN [device EXCEPT ![row[1]] = NoDevice]
                         ELSE device
            /\ Become(p, [proc[p] EXCEPT !.todo = @ \ {row}])
    /\ UNCHANGED <<setting, account, binding, mail, play, jobs, member, clock, faults, ghosts>>

(* A player signs a listed device out.  The listing is older than the      *)
(* call: the handle may name a device that has moved or is gone.           *)
Revoke(r) ==
    /\ At(r, "remove")
    /\ LET t == job[r].target IN
        \/ /\ Owner(t) = proc[r].account
           /\ device' = [device EXCEPT ![t] = NoDevice]
           /\ signedOut' = signedOut \cup {proc[r].account}
        \/ UNCHANGED <<device, signedOut>>
    /\ Answer(r, "listed")
    /\ UNCHANGED <<setting, account, binding, mail, play, jobs, member, clock, faults,
                   granted, purged, heir>>

(* deleteAccount: the account as it was read, still reached by this device.*)
MayDelete(r) ==
    LET a == proc[r].account
    IN  Live(a) /\ account[a].email = proc[r].email /\ Owner(job[r].token) = a

(* One transaction: the account, its profile, its binding, a purge job.    *)
Delete(r) ==
    /\ At(r, "delete")
    /\ LET a == proc[r].account
           e == proc[r].email
       IN  \/ /\ job[r].confirm # a
              /\ Answer(r, "account_changed")
              /\ UNCHANGED <<account, binding, profile, purge>>
           \/ /\ job[r].confirm = a
              /\ IF MayDelete(r)
                 THEN /\ account' = Dead(a)
                      /\ profile' = profile \ {a}
                      /\ purge' = [purge EXCEPT ![a] = proc[r].at]
                      /\ binding' = IF e = None THEN binding
                                    ELSE [binding EXCEPT ![e] = None]
                      /\ Become(r, [proc[r] EXCEPT !.pc = "list", !.whose = a])
                 ELSE /\ Goto(r, "again")
                      /\ UNCHANGED <<account, binding, profile, purge>>
    /\ UNCHANGED <<setting, device, mail, round, score, history, depart, member, clock,
                   faults, ghosts>>

(* The account changed since it was read: read it again, so many times.    *)
DeleteAgain(r) ==
    /\ At(r, "again")
    /\ LET t == job[r].token IN
        IF ~Live(Owner(t)) THEN Answer(r, "unknown_device")
        ELSE IF proc[r].tries + 1 >= MaxTries THEN Answer(r, "failed")
        ELSE Become(r, [As(proc[r], t) EXCEPT !.pc = "delete", !.tries = @ + 1])
    /\ UNCHANGED <<setting, identity, mail, play, jobs, member, clock, faults, ghosts>>

-----------------------------------------------------------------------------
(* What a request writes for the account it authenticated as, dead or not  *)
(* by the time it writes.                                                  *)
AppendGuess(r) ==
    /\ At(r, "append")
    /\ LET a == proc[r].account
           s == job[r].slot
       IN  IF round[a][s].solved
           THEN Answer(r, "round_solved") /\ UNCHANGED round
           ELSE /\ round' = [round EXCEPT ![a][s] =
                        [plays |-> @.plays \cup {r}, solved |-> job[r].solves,
                         version |-> @.version + 1]]
                /\ IF job[r].solves
                   THEN Become(r, [proc[r] EXCEPT !.pc = "reward", !.todo = {"score", "day"}])
                   ELSE Answer(r, "appended")
    /\ UNCHANGED <<setting, identity, mail, score, history, profile, jobs, member, clock,
                   faults, ghosts>>

Rewarded(r, step) ==
    IF proc[r].todo = {step} THEN Answer(r, "solved")
    ELSE Become(r, [proc[r] EXCEPT !.todo = @ \ {step}])

SubmitScore(r) ==
    /\ At(r, "reward")
    /\ "score" \in proc[r].todo
    /\ score' = [score EXCEPT ![proc[r].account][job[r].slot] = IF @ = None THEN r ELSE @]
    /\ Rewarded(r, "score")
    /\ UNCHANGED <<setting, identity, mail, round, history, profile, jobs, member, clock,
                   faults, ghosts>>

CreditDay(r) ==
    /\ At(r, "reward")
    /\ "day" \in proc[r].todo
    /\ history' = [history EXCEPT ![proc[r].account] = @ \cup {job[r].slot}]
    /\ Rewarded(r, "day")
    /\ UNCHANGED <<setting, identity, mail, round, score, profile, jobs, member, clock,
                   faults, ghosts>>

SaveProfile(r) ==
    /\ At(r, "profile")
    /\ profile' = profile \cup {proc[r].account}
    /\ Answer(r, "saved")
    /\ UNCHANGED <<setting, identity, mail, round, score, history, jobs, member, clock,
                   faults, ghosts>>

AccountStands(a) == Live(a)

(* Joining or creating a group asserts the account in its transaction.     *)
JoinGroup(r) ==
    /\ At(r, "join")
    /\ IF AccountStands(proc[r].account)
       THEN member' = member \cup {proc[r].account} /\ Answer(r, "joined")
       ELSE UNCHANGED member /\ Answer(r, "gone")
    /\ UNCHANGED <<setting, identity, mail, play, jobs, clock, faults, ghosts>>

-----------------------------------------------------------------------------
(* Mutant: a job is taken whatever its age.                                *)
Settled_Never(a) == TRUE

Settled(a) == clock - purge[a] >= Settle

(* The purge of one account, over from the start whenever it is cut off.   *)
TakeJob ==
    /\ proc[Worker].pc = "idle"
    /\ \E a \in AccountIds :
        /\ purge[a] # None
        /\ Settled(a)
        /\ Become(Worker, [Idle EXCEPT !.pc = "depart", !.whose = a])
    /\ UNCHANGED <<setting, identity, mail, play, jobs, member, clock, faults, ghosts>>

ListRounds ==
    /\ At(Worker, "keys")
    /\ LET a == proc[Worker].whose
           keys == {s \in Slots : round[a][s].version > 0}
       IN  Become(Worker, [proc[Worker] EXCEPT !.todo = keys,
                           !.pc = IF keys = {} THEN "sweep" ELSE "score"])
    /\ UNCHANGED <<setting, identity, mail, play, jobs, member, clock, faults, ghosts>>

(* The score before the round it was earned on: the score is found through *)
(* the round.                                                              *)
RemoveScore ==
    /\ At(Worker, "score")
    /\ \E s \in proc[Worker].todo :
        /\ score' = [score EXCEPT ![proc[Worker].whose][s] = None]
        /\ Become(Worker, [proc[Worker] EXCEPT !.pc = "round", !.from = s])
    /\ UNCHANGED <<setting, identity, mail, round, history, profile, jobs, member, clock,
                   faults, ghosts>>

RemoveRound ==
    /\ At(Worker, "round")
    /\ LET s == proc[Worker].from IN
        /\ round' = [round EXCEPT ![proc[Worker].whose][s] = NoRound]
        /\ Become(Worker, [proc[Worker] EXCEPT !.todo = @ \ {s}, !.from = None,
                !.pc = IF proc[Worker].todo = {s} THEN "sweep" ELSE "score"])
    /\ UNCHANGED <<setting, identity, mail, score, history, profile, jobs, member, clock,
                   faults, ghosts>>

(* purgePlayer: whatever is left in the player's partition.                *)
Sweep ==
    /\ At(Worker, "sweep")
    /\ history' = [history EXCEPT ![proc[Worker].whose] = {}]
    /\ profile' = profile \ {proc[Worker].whose}
    /\ Goto(Worker, "finish")
    /\ UNCHANGED <<setting, identity, mail, round, score, jobs, member, clock, faults, ghosts>>

ClearPurge ==
    /\ At(Worker, "finish")
    /\ purge' = [purge EXCEPT ![proc[Worker].whose] = None]
    /\ purged' = purged \cup {proc[Worker].whose}
    /\ Become(Worker, Idle)
    /\ UNCHANGED <<setting, identity, mail, play, depart, member, clock, faults,
                   granted, heir, signedOut>>

-----------------------------------------------------------------------------
(* A call throws where the code carries on: a departure is left for later, *)
(* a credit, a reward or a revocation is only logged.                      *)
Carried(p) ==
    LET q == proc[p] IN
        CASE q.pc = "drain" -> {Drained(p, [q EXCEPT !.clean = FALSE])}
          [] q.pc = "leave" ->
                {NextDeparture(p, [q EXCEPT !.todo = @ \ {f}, !.clean = FALSE]) : f \in q.todo}
          [] q.pc = "clear" ->
                {NextDeparture(p, [q EXCEPT !.todo = @ \ {q.from}, !.from = None,
                                            !.clean = FALSE])}
          [] q.pc = "depart" -> {Drained(p, [q EXCEPT !.clean = FALSE])}
          [] q.pc \in {"list", "revoke"} /\ p # Worker ->
                {[q EXCEPT !.pc = "depart", !.todo = {}]}
          [] q.pc \in {"credit", "reward"} /\ q.todo # {} ->
                {[q EXCEPT !.todo = @ \ {x}] : x \in q.todo}
          [] OTHER -> {}

Throws(p) ==
    /\ proc[p].pc \in Pcs \ {"idle", "done"}
    /\ At(p, proc[p].pc)
    /\ faults < MaxFaults
    /\ faults' = faults + 1
    /\ \E q \in Carried(p) : Become(p, q)
    /\ UNCHANGED <<setting, identity, mail, play, jobs, member, clock, ghosts>>

(* The worker is cut off, by an error or by its deadline.                  *)
WorkerStops ==
    /\ proc[Worker].pc # "idle"
    /\ faults < MaxFaults
    /\ faults' = faults + 1
    /\ Become(Worker, Idle)
    /\ UNCHANGED <<setting, identity, mail, play, jobs, member, clock, ghosts>>

Tick ==
    /\ clock < horizon
    /\ clock' = clock + 1
    /\ UNCHANGED <<setting, identity, mail, play, jobs, member, proc, faults, ghosts>>

Link(r) ==
    \/ ReadSends(r) \/ SpendSends(r) \/ PutChallenge(r)
    \/ Verify(r) \/ Judge(r) \/ ReadBinding(r) \/ Bind(r)
    \/ Confirm(r) \/ PlanMoves(r) \/ Adopt(r) \/ CreditMoved(r)

Devices(r) ==
    \/ Resolve(r) \/ Exists(r) \/ Create(r) \/ Raced(r)
    \/ Revoke(r) \/ Delete(r) \/ DeleteAgain(r)

Plays(r) ==
    \/ AppendGuess(r) \/ SubmitScore(r) \/ CreditDay(r) \/ SaveProfile(r) \/ JoinGroup(r)

Departs(p) ==
    Drain(p) \/ LeaveOne(p) \/ ClearDeparture(p) \/ DepartGroups(p)
    \/ ListDevices(p) \/ RevokeListed(p)

Purges ==
    TakeJob \/ ListRounds \/ RemoveScore \/ RemoveRound \/ Sweep \/ ClearPurge

Next ==
    \/ \E r \in Requests : Arrive(r) \/ Authenticate(r) \/ Link(r) \/ Devices(r) \/ Plays(r)
    \/ \E p \in Procs : Departs(p) \/ Throws(p)
    \/ Purges \/ WorkerStops \/ Tick

Spec == Init /\ [][Next]_vars

(* The schedule starts the worker every hour, and a run that is not cut    *)
(* off goes through its job.                                               *)
FairSpec == Spec /\ WF_vars(Tick) /\ WF_vars(Purges \/ Departs(Worker))

-----------------------------------------------------------------------------
(* An account that a switch erased is reached by no device: nobody else    *)
(* was on it, whatever happened between the reads and the commit           *)
(* (dynamoLinkStore.ts, the source's condition in adopt).                  *)
NoDeviceStranded ==
    \A a \in AccountIds : heir[a].to # None => \A t \in Tokens : Owner(t) # a

(* A live account can be reached: by a device, or through its address, or  *)
(* its player signed it out.  Two bootstraps of one token, a revocation    *)
(* from an old listing and a purge all move device items about.            *)
NoOrphanAccount ==
    \A a \in AccountIds :
        Live(a) => \/ \E t \in Tokens : Owner(t) = a
                   \/ account[a].email # None
                   \/ a \in signedOut

(* A code saves or switches one device once, however many requests carry   *)
(* it, and only while it is the latest code of its address.                *)
CodeGrantsOnce ==
    \A e \in Emails : \A i, j \in 1..Len(granted[e]) :
        /\ granted[e][i][1] = granted[e][i][2]
        /\ i < j => granted[e][i][1] < granted[e][j][1]

(* A save that found no account at its address finds none when it commits, *)
(* as long as its code stands: whoever saves there in between spends the   *)
(* code (link.ts answers a taken address by adopting, a way never needed). *)
NotTaken ==
    \A r \in Requests :
        proc[r].pc = "bind" /\ MayConsume(r) => binding[job[r].email] = None

(* An address reaches the account that is saved at it, which lives, and    *)
(* only it: binds, adoptions and deletions of several devices write the    *)
(* two items (dynamoLinkStore.ts, bind and deleteAccount).                 *)
BindingConsistent ==
    /\ \A e \in Emails, a \in AccountIds :
        binding[e] = a <=> (Live(a) /\ account[a].email = e)
    /\ NotTaken

(* Devices, accounts, addresses and whoever plays on them stay together:  *)
(* no device is stranded, no account is out of reach, and an address and   *)
(* its account agree.                                                      *)
AccountsReachable == TypeOK /\ NoDeviceStranded /\ NoOrphanAccount /\ BindingConsistent

(* An address gets no more codes than its allowance in any window, to      *)
(* within the life of a request, whose stamp is its arrival                *)
(* (dynamoLinkStore.ts, spendSends).                                       *)
InboxBounded ==
    \A e \in Emails : \A i \in 1..Len(codes[e]) :
        Cardinality({j \in 1..Len(codes[e]) :
            codes[e][j].at \in (codes[e][i].at - (SendWindow - Timeout) + 1)..codes[e][i].at})
        <= Limit[e]

(* Codes are spent once, and asked for no faster than the inbox allows.    *)
CodesHold == CodeGrantsOnce /\ InboxBounded

(* Once its purge job is cleared nothing of a deleted account is stored,   *)
(* and nothing appears afterwards: the job waits out every request that    *)
(* authenticated before the deletion (purge.ts, PURGE_SETTLE_MS).  A score *)
(* whose round an adoption took along is the exception.                    *)
PurgedClean ==
    \A a \in purged :
        /\ a \notin member \cup profile
        /\ \A t \in Tokens : Owner(t) # a
        /\ history[a] = {}
        /\ \A b \in AccountIds : <<a, b>> \notin depart
        /\ \A s \in Slots :
            /\ round[a][s] = NoRound
            /\ score[a][s] # None => s \in heir[a].rounds

(* The stores do what the memory stores do in one step, whatever is read   *)
(* before and however the requests interleave.                             *)
Contract == INSTANCE AccountContract WITH
    email <- [a \in AccountIds |-> account[a].email],
    live <- {a \in AccountIds : Live(a)},
    device <- [t \in Tokens |-> Owner(t)],
    log <- [a \in AccountIds |-> [s \in Slots |-> round[a][s].plays]],
    Takes <- Requests

ImplementsContract == Contract!Spec

(* A purge job is carried out, whatever cut the worker off before.         *)
PurgeFinishes ==
    \A a \in AccountIds : purge[a] # None ~> (purge[a] = None \/ (clock = horizon /\ ~Settled(a)))

=============================================================================
