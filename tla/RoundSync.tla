------------------------------ MODULE RoundSync ------------------------------
(***************************************************************************)
(* The browser's side of a sentence round (web/src/state/roundSync.ts over *)
(* gameStore.ts and the game's screen) against the server's round route.   *)
(*                                                                         *)
(* A tab holds three values: what the server last answered, the outbox of  *)
(* guesses it has not acknowledged, which is kept when the page goes, and  *)
(* the play log on screen, which is the two together.  One conversation    *)
(* per tab sends at most one request at a time; whatever comes back        *)
(* replaces the first value and shrinks the second.                        *)
(*                                                                         *)
(* The server is one atomic step per request: what its own interleavings   *)
(* may do to a round is RoundStore's subject.  Delays, backoff and pacing  *)
(* only say when a step happens, and here any enabled step may be next.    *)
(***************************************************************************)
EXTENDS Naturals, Sequences, FiniteSets, SequencesExt

CONSTANTS
    Tabs,          \* browser tabs, each with an outbox of its own
    Accounts,      \* player accounts
    Guesses,       \* folded words
    Key,           \* guessKey: what each word counts as
    Goal,          \* the identities that open every hole
    Cap,           \* ROUND_GUESS_CAP
    MaxEdition,    \* bound: how often the sentence is republished, plus one
    MaxDevices,    \* bound: identities a tab may come to hold, plus one
    Starts,        \* where a run begins, and what it may spend
    None

ASSUME BoundsAssumption == Cap \in Nat \ {0} /\ MaxEdition \in Nat \ {0}

ASSUME NoneAssumption == None \notin Accounts

VARIABLES
    published,  \* the edition of the sentence the store serves
    row,        \* the stored round of each account
    tab,        \* what each tab shows, holds and waits for
    late,       \* requests a client has given up on, still on their way
    revoked,    \* identities the server knows no more
    typed,      \* history: who typed which guess, for which account and edition
    spare       \* what the environment may still do

vars == <<published, row, tab, late, revoked, typed, spare>>

Editions == 1..MaxEdition

NoRow == [edition |-> 0, log |-> <<>>, solved |-> FALSE, gaveUp |-> FALSE]
EmptyServer == [log |-> <<>>, solved |-> FALSE, gaveUp |-> FALSE]
NoCall == [at |-> "none"]
NoFlight == [open |-> FALSE, giveUp |-> "none"]
NoBox == [edition |-> 0, log |-> <<>>]

(* A conversation as beginRoundSync opens it; due says that pump was       *)
(* called, or that a timer will call it.                                   *)
Fresh(e) ==
    [open |-> TRUE, edition |-> e, server |-> EmptyServer, readDone |-> FALSE,
     settled |-> FALSE, failed |-> FALSE, created |-> FALSE, closed |-> FALSE,
     giveUp |-> "none", due |-> TRUE]

Identities(log) == {Key[log[i]] : i \in DOMAIN log}
Solves(log) == Goal \subseteq Identities(log)
Full(log) == Len(log) >= Cap

(* shared/scores.ts, roundEnded, or a solve.                               *)
Over(s) == s.solved \/ s.gaveUp \/ Full(s.log)

(* A run begins with the rounds that earlier sessions stored, and what was *)
(* typed before is in them.                                                *)
Startable(s) ==
    /\ s.row \in [Accounts -> [edition : {0, 1}, log : Seq(Guesses), solved : BOOLEAN, gaveUp : BOOLEAN]]
    /\ \A a \in Accounts : Len(s.row[a].log) <= Cap
    /\ s.who \in [Tabs -> Accounts \cup {None}] /\ s.on \in [Tabs -> BOOLEAN]
    /\ \A w \in s.typed :
        /\ w \in [tab : Tabs, who : Accounts, device : {1}, edition : {1}, guess : Guesses]
        /\ s.row[w.who].edition = w.edition
        /\ Key[w.guess] \in Identities(s.row[w.who].log)

ASSUME StartsAssumption == \A s \in Starts : Startable(s)

(* Each place of a stored round comes from a typing of its own: no earlier *)
(* session stored a guess twice.                                           *)
Remembers(f, s, a) ==
    /\ \A i \in DOMAIN f :
        f[i].who = a /\ f[i].edition = s.row[a].edition /\ f[i].guess = s.row[a].log[i]
    /\ \A i, j \in DOMAIN f : f[i] = f[j] => i = j

Remembered(s) ==
    /\ IsFiniteSet(s.typed)
    /\ \A a \in Accounts : \E f \in [DOMAIN s.row[a].log -> s.typed] : Remembers(f, s, a)

ASSUME TypedAssumption == \A s \in Starts : Remembered(s)

Epoch(t) == <<tab[t].who, tab[t].device>>

(* The values of a tab have their shapes: a request, and a give-up, belong *)
(* to a conversation that is open (roundSync.ts, RoundFlight).             *)
TypeOK ==
    /\ published \in Editions
    /\ \A a \in Accounts :
        /\ row[a].edition \in Editions \cup {0}
        /\ row[a].log \in Seq(Guesses) /\ Len(row[a].log) <= Cap
    /\ \A t \in Tabs :
        /\ tab[t].page \in Editions
        /\ tab[t].who \in Accounts \cup {None}
        /\ tab[t].flight.giveUp \in {"none", "asked", "sent"}
        /\ tab[t].flight.giveUp # "none" => tab[t].flight.open
        /\ tab[t].call.at \in {"none", "token", "sent", "answered", "failed"}
        /\ tab[t].call.at # "none" => tab[t].flight.open
        /\ tab[t].stray.at \in {"none", "sent", "answered"}

Init ==
    \E s \in Starts :
        /\ published = 1
        /\ row = s.row
        /\ tab = [t \in Tabs |->
                    [page |-> 1, who |-> s.who[t], device |-> 1, box |-> NoBox,
                     flight |-> IF s.on[t] THEN Fresh(1) ELSE NoFlight,
                     call |-> NoCall, stray |-> NoCall, on |-> s.on[t]]]
        /\ late = {}
        /\ revoked = {}
        /\ typed = s.typed
        /\ spare = s.spare

-----------------------------------------------------------------------------
(* The tab's own values.                                                   *)

Put(t, x) == tab' = [tab EXCEPT ![t] = x]

(* What is owed: the outbox, while it names this edition.                  *)
Pending(x) == IF x.box.edition = x.flight.edition THEN x.box.log ELSE <<>>

(* The play log the screen draws, as identities.                           *)
Board(x) == Identities(x.flight.server.log) \cup Identities(Pending(x))

Discarded(x) == IF x.box.edition = x.flight.edition THEN [x EXCEPT !.box = NoBox] ELSE x

(* Mutant: any answer empties the outbox.                                  *)
SettledBox_Cleared(x) == [x EXCEPT !.box = NoBox]

(* unacknowledged: the guesses that the server's log does not hold, in the *)
(* order they were typed.                                                  *)
Unacknowledged(log, held) ==
    LET left[i \in 0..Len(log)] ==
            IF i = 0 THEN <<>>
            ELSE IF Key[log[i]] \in held THEN left[i - 1] ELSE Append(left[i - 1], log[i])
    IN  left[Len(log)]

(* settleOutbox: what the server holds is owed no more.                    *)
SettledBox(x) ==
    IF x.box.edition # x.flight.edition THEN x
    ELSE LET left == Unacknowledged(x.box.log, Identities(x.flight.server.log))
         IN  [x EXCEPT !.box = IF left = <<>> THEN NoBox ELSE [@ EXCEPT !.log = left]]

(* answerGiveUp: a waiting give-up is answered, once; with what, the       *)
(* screen reads off the round itself.                                      *)
Replied(x) == [x EXCEPT !.flight.giveUp = "none"]

Closed(x) ==
    Replied([x EXCEPT !.flight.closed = TRUE])

Adopted(x, state) ==
    [x EXCEPT !.flight.server = [log |-> state.log, solved |-> state.solved, gaveUp |-> state.gaveUp],
              !.flight.settled = TRUE, !.flight.failed = FALSE]

FailedLoad(x) == IF x.flight.settled THEN x ELSE [x EXCEPT !.flight.failed = TRUE]

(* Mutant: an unknown outcome is sent again instead of read.               *)
Resynced_Resend(x) == IF x.flight.giveUp = "asked" THEN Replied(x) ELSE x

(* resync: only a read can say what the server holds.                      *)
Resynced(x) ==
    LET y == [x EXCEPT !.flight.readDone = FALSE]
    IN  IF x.flight.giveUp = "asked" THEN Replied(y) ELSE y

(* The request is over, and pump looks again.                              *)
Landed(t, x) ==
    Put(t, [x EXCEPT !.call = NoCall, !.flight.due = TRUE])

(* An account is left: its conversation, its outbox and its give-up go,    *)
(* and the screens mount anew (identityScope.ts).  A request under way is  *)
(* still awaited, for a conversation that is no longer the round's.        *)
Left(x, who, device) ==
    LET y == Replied(x)
    IN  [y EXCEPT !.who = who, !.device = device, !.box = NoBox, !.call = NoCall,
                  !.stray = IF x.call.at \in {"sent", "answered"} THEN x.call ELSE @,
                  !.flight = IF x.on THEN Fresh(x.page) ELSE NoFlight]

-----------------------------------------------------------------------------
(* What the player does.                                                   *)

Ready(t) ==
    /\ tab[t].on
    /\ tab[t].who # None
    /\ tab[t].flight.open
    /\ tab[t].flight.settled
    /\ ~Over(tab[t].flight.server)

(* A guess that is new to the board joins the outbox, until the board is   *)
(* complete (Game.tsx, submit).                                            *)
Type(t) ==
    /\ Ready(t)
    /\ spare.types > 0
    /\ ~(Goal \subseteq Board(tab[t]))
    /\ \E g \in Guesses :
        /\ Key[g] \notin Board(tab[t])
        /\ Put(t, [tab[t] EXCEPT !.box = [edition |-> tab[t].page, log |-> Append(Pending(tab[t]), g)],
                                 !.flight.due = TRUE])
        /\ typed' = typed \cup {[tab |-> t, who |-> tab[t].who, device |-> tab[t].device, edition |-> tab[t].page, guess |-> g]}
    /\ spare' = [spare EXCEPT !.types = @ - 1]
    /\ UNCHANGED <<published, row, late, revoked>>

(* The player gives up and confirms it (giveUpRound).                      *)
AskGiveUp(t) ==
    /\ tab[t].on
    /\ tab[t].who # None
    /\ tab[t].flight.open
    /\ tab[t].flight.giveUp = "none"
    /\ Board(tab[t]) # {}
    /\ spare.gives > 0
    /\ ~tab[t].flight.closed
    /\ Put(t, [tab[t] EXCEPT !.flight.giveUp = "asked", !.flight.due = TRUE])
    /\ spare' = [spare EXCEPT !.gives = @ - 1]
    /\ UNCHANGED <<published, row, late, revoked, typed>>

(* ensureOutbox, then beginRoundSync: the page comes on screen with an     *)
(* edition of the sentence, at least as new as the one it showed.          *)
Mounted(x, e) ==
    LET box == IF x.box.edition \in {0, e} THEN x.box ELSE NoBox
        y == [x EXCEPT !.page = e, !.box = box, !.on = TRUE]
    IN  IF ~x.flight.open THEN [y EXCEPT !.flight = Fresh(e)]
        ELSE IF x.flight.edition = e THEN [y EXCEPT !.flight.due = TRUE]
        ELSE [Replied(y) EXCEPT !.flight = Fresh(e)]

Visit(t) ==
    /\ spare.visits > 0
    /\ \E e \in tab[t].page..published : Put(t, Mounted(tab[t], e))
    /\ spare' = [spare EXCEPT !.visits = @ - 1]
    /\ UNCHANGED <<published, row, late, revoked, typed>>

(* The page is loaded anew: what was in memory is gone, the answers it     *)
(* waited for and a give-up's caller too.                                  *)
Reload(t) ==
    /\ spare.visits > 0
    /\ tab[t].call.at # "sent"
    /\ \E e \in tab[t].page..published :
        Put(t, Mounted([tab[t] EXCEPT !.flight = NoFlight, !.call = NoCall, !.stray = NoCall], e))
    /\ spare' = [spare EXCEPT !.visits = @ - 1]
    /\ UNCHANGED <<published, row, late, revoked, typed>>

(* Other rounds were opened since, and this conversation was dropped.      *)
Prune(t) ==
    /\ spare.visits > 0
    /\ tab[t].flight.open
    /\ tab[t].call.at = "none"
    /\ tab[t].flight.giveUp = "none"
    /\ Put(t, [tab[t] EXCEPT !.flight = NoFlight, !.on = FALSE])
    /\ UNCHANGED <<published, row, late, revoked, typed, spare>>

(* The retry of a load that failed; a settled round has none to retry.     *)
Retry(t) ==
    /\ tab[t].flight.open
    /\ tab[t].flight.failed
    /\ Put(t, [tab[t] EXCEPT !.flight.failed = FALSE, !.flight.closed = FALSE, !.flight.due = TRUE])
    /\ UNCHANGED <<published, row, late, revoked, typed, spare>>

-----------------------------------------------------------------------------
(* pump: what is due, if nothing is under way.                             *)

(* A request: the sentence it was started for, which its answer is         *)
(* compared with, and the one its body names.                              *)
Call(t, kind, batch, at) ==
    [kind |-> kind, batch |-> batch, at |-> at, puzzle |-> tab[t].flight.edition,
     edition |-> tab[t].flight.edition, epoch |-> Epoch(t),
     token |-> ~tab[t].flight.created, answer |-> [status |-> "none"]]

Idle(t) == Put(t, [tab[t] EXCEPT !.flight.due = FALSE])

MayGiveUp(x) == x.flight.giveUp = "asked" /\ Pending(x) = <<>>

StartRead(t) ==
    LET x == tab[t] IN
    /\ ~x.flight.readDone
    /\ IF x.who = None
       THEN Put(t, [Adopted(x, EmptyServer) EXCEPT !.flight.created = FALSE, !.flight.readDone = TRUE])
       ELSE Put(t, [x EXCEPT !.call = Call(t, "read", <<>>, "sent"), !.flight.due = FALSE])

StartGiveUp(t) ==
    /\ tab[t].flight.readDone
    /\ MayGiveUp(tab[t])
    /\ Put(t, [tab[t] EXCEPT !.call = Call(t, "giveUp", <<>>, "sent"), !.flight.giveUp = "sent",
                             !.flight.due = FALSE])

(* The oldest of what still fits; nothing fits a capped round.             *)
StartAppend(t) ==
    LET x == tab[t]
        owed == Pending(x)
        room == Cap - Len(x.flight.server.log)
        fits == SubSeq(owed, 1, IF Len(owed) < room THEN Len(owed) ELSE room)
    IN
    /\ x.flight.readDone
    /\ ~MayGiveUp(x)
    /\ IF owed = <<>> \/ x.who = None THEN Idle(t)
       ELSE IF room = 0 THEN Put(t, Closed(Discarded(x)))
       ELSE Put(t, [x EXCEPT !.call = Call(t, "append", fits, IF x.flight.created THEN "sent" ELSE "token"),
                             !.flight.due = FALSE])

Pump(t) ==
    /\ tab[t].flight.open
    /\ tab[t].flight.due
    /\ IF tab[t].flight.closed \/ tab[t].call.at # "none" THEN Idle(t)
       ELSE StartRead(t) \/ StartGiveUp(t) \/ StartAppend(t)
    /\ UNCHANGED <<published, row, late, revoked, typed, spare>>

(* The challenge that opens a round is another await, before the append:   *)
(* an identity left meanwhile sends nothing.  The body is built after it,  *)
(* and names the sentence the conversation has come to be about.           *)
Challenged(t) ==
    /\ tab[t].call.at = "token"
    /\ IF Epoch(t) # tab[t].call.epoch THEN Landed(t, tab[t])
       ELSE Put(t, [tab[t] EXCEPT !.call.at = "sent", !.call.edition = tab[t].flight.edition])
    /\ UNCHANGED <<published, row, late, revoked, typed, spare>>

-----------------------------------------------------------------------------
(* The server's round route, one request at a time (RoundStore has its     *)
(* steps).                                                                 *)

Stored(a, e) == row[a].edition = e
StateFor(a, e) ==
    IF Stored(a, e) THEN [log |-> row[a].log, solved |-> row[a].solved, gaveUp |-> row[a].gaveUp]
                    ELSE EmptyServer

Says(status, a, e) == [status |-> status, state |-> StateFor(a, e), stored |-> Stored(a, e)]

Verdict(status) == [status |-> status]

(* A request and what becomes of the row: <<row after, answer>>.           *)
ServedRead(c) ==
    LET a == c.epoch[1] IN
    {<<row[a], IF Stored(a, c.edition) THEN Says("ok", a, c.edition) ELSE Verdict("not_found")>>}

ServedGiveUp(c) ==
    LET a == c.epoch[1]
        given == [row[a] EXCEPT !.gaveUp = TRUE]
    IN  IF c.edition # published THEN {<<row[a], Verdict("puzzle_changed")>>}
        ELSE IF ~Stored(a, c.edition) THEN {<<row[a], Verdict("not_found")>>}
        ELSE IF row[a].solved THEN {<<row[a], Says("refused", a, c.edition)>>}
        ELSE {<<given, [status |-> "ok", stored |-> TRUE,
                        state |-> [log |-> given.log, solved |-> FALSE, gaveUp |-> TRUE]]>>}

(* An append joins the row of its edition, or starts one over the retired  *)
(* edition's; another device's write a moment ago puts it off.             *)
ServedAppend(c) ==
    LET a == c.epoch[1]
        before == StateFor(a, c.edition).log
        log == before \o c.batch
        after == [edition |-> c.edition, log |-> log, solved |-> Solves(log), gaveUp |-> FALSE]
        tooFast == <<row[a], Says("too_fast", a, c.edition)>>
    IN  IF c.edition # published THEN {<<row[a], Verdict("puzzle_changed")>>}
        ELSE IF ~Stored(a, c.edition) /\ ~c.token THEN {<<row[a], Verdict("forbidden")>>}
        ELSE IF Stored(a, c.edition) /\ (row[a].solved \/ row[a].gaveUp)
             THEN {<<row[a], Says("refused", a, c.edition)>>}
        ELSE IF Len(log) > Cap THEN {<<row[a], Says("refused", a, c.edition)>>}
        ELSE {<<after, [status |-> "ok", stored |-> TRUE,
                        state |-> [log |-> log, solved |-> after.solved, gaveUp |-> FALSE]]>>}
             \cup IF spare.faults > 0 THEN {tooFast} ELSE {}

Served(c) ==
    IF c.epoch \in revoked THEN {<<row[c.epoch[1]], Verdict("unknown_device")>>}
    ELSE CASE c.kind = "read" -> ServedRead(c)
           [] c.kind = "giveUp" -> ServedGiveUp(c)
           [] c.kind = "append" -> ServedAppend(c)

Serve(t) ==
    /\ tab[t].call.at = "sent"
    /\ \E s \in Served(tab[t].call) :
        /\ row' = [row EXCEPT ![tab[t].call.epoch[1]] = s[1]]
        /\ Put(t, [tab[t] EXCEPT !.call.at = "answered", !.call.answer = s[2]])
        /\ spare' = [spare EXCEPT !.faults = IF s[2].status = "too_fast" THEN @ - 1 ELSE @]
    /\ UNCHANGED <<published, late, revoked, typed>>

ServeStray(t) ==
    /\ tab[t].stray.at = "sent"
    /\ \E s \in Served(tab[t].stray) :
        /\ row' = [row EXCEPT ![tab[t].stray.epoch[1]] = s[1]]
        /\ Put(t, [tab[t] EXCEPT !.stray.at = "answered", !.stray.answer = s[2]])
    /\ UNCHANGED <<published, late, revoked, typed, spare>>

(* A request that was given up on reaches the server after all.            *)
ServeLate ==
    \E c \in late :
        /\ late' = late \ {c}
        /\ \E s \in Served(c) : row' = [row EXCEPT ![c.epoch[1]] = s[1]]
        /\ UNCHANGED <<published, tab, revoked, typed, spare>>

-----------------------------------------------------------------------------
(* What the environment does.                                              *)

(* No answer: the request was lost before the server, or its answer after, *)
(* or it could not be read, or was a 5xx; or the challenge failed.         *)
Fail(t) ==
    /\ tab[t].call.at \in {"token", "sent", "answered"}
    /\ spare.faults > 0
    /\ Put(t, [tab[t] EXCEPT !.call.at = "failed"])
    /\ spare' = [spare EXCEPT !.faults = @ - 1]
    /\ UNCHANGED <<published, row, late, revoked, typed>>

(* The client gives up on a request that is still on its way.              *)
Delay(t) ==
    /\ tab[t].call.at = "sent"
    /\ spare.delays > 0
    /\ Put(t, [tab[t] EXCEPT !.call.at = "failed"])
    /\ late' = late \cup {tab[t].call}
    /\ spare' = [spare EXCEPT !.delays = @ - 1]
    /\ UNCHANGED <<published, row, revoked, typed>>

Republish ==
    /\ published < MaxEdition
    /\ spare.editions > 0
    /\ published' = published + 1
    /\ spare' = [spare EXCEPT !.editions = @ - 1]
    /\ UNCHANGED <<row, tab, late, revoked, typed>>

MayMove(t) == spare.moves > 0 /\ tab[t].device < MaxDevices

(* The device links an account, or another tab's link is read from the     *)
(* shared storage: it leaves the one it had.                               *)
Move(t) ==
    /\ MayMove(t)
    /\ tab[t].who # None
    /\ \E a \in Accounts \ {tab[t].who} : Put(t, Left(tab[t], a, tab[t].device + 1))
    /\ spare' = [spare EXCEPT !.moves = @ - 1]
    /\ UNCHANGED <<published, row, late, revoked, typed>>

Kicked(x) == IF x.flight.open THEN [x EXCEPT !.flight.due = TRUE] ELSE x

(* A first identity: minted here, with an account that holds nothing, or   *)
(* found in the shared storage, with one that may hold this round          *)
(* (kickRoundSync, rearmRoundSync).                                        *)
Rearmed(x) ==
    IF ~x.flight.open THEN x
    ELSE [Replied(x) EXCEPT
            !.flight = [Fresh(x.flight.edition) EXCEPT !.giveUp = "none"]]

Acquire(t) ==
    /\ MayMove(t)
    /\ tab[t].who = None
    /\ \E a \in Accounts :
        LET x == [tab[t] EXCEPT !.who = a, !.device = @ + 1] IN
        \/ row[a] = NoRow /\ (\A u \in Tabs : tab[u].who # a) /\ Put(t, Kicked(x))
        \/ Put(t, Rearmed(x))
    /\ spare' = [spare EXCEPT !.moves = @ - 1]
    /\ UNCHANGED <<published, row, late, revoked, typed>>

(* The same account under another device: the screens mount anew, over the *)
(* conversation that goes on (identityScope.ts clears an account's only).  *)
ChangeDevice(t) ==
    /\ spare.devices > 0
    /\ tab[t].device < MaxDevices
    /\ tab[t].who # None
    /\ Put(t, Kicked([tab[t] EXCEPT !.device = @ + 1]))
    /\ spare' = [spare EXCEPT !.devices = @ - 1]
    /\ UNCHANGED <<published, row, late, revoked, typed>>

(* The device is signed out from elsewhere; it learns of it by an answer.  *)
Revoke(t) ==
    /\ spare.moves > 0
    /\ tab[t].who # None
    /\ Epoch(t) \notin revoked
    /\ revoked' = revoked \cup {Epoch(t)}
    /\ spare' = [spare EXCEPT !.moves = @ - 1]
    /\ UNCHANGED <<published, row, tab, late, typed>>

-----------------------------------------------------------------------------
(* An answer lands.                                                        *)

(* Mutant: an answer is taken whatever became of the identity that asked.  *)
Superseded_Epoch(t, c) == tab[t].flight.open /\ tab[t].flight.edition # c.puzzle

(* The sentence or the identity it was asked for is no longer the round's. *)
Superseded(t, c) ==
    \/ tab[t].flight.open /\ tab[t].flight.edition # c.puzzle
    \/ Epoch(t) # c.epoch

SignedOut(t) == Put(t, [Left(tab[t], None, tab[t].device) EXCEPT !.stray = NoCall])

(* Mutant: any answer to an append is taken for a created round.           *)
Shown_Always(x, answer) == [Adopted(x, answer.state) EXCEPT !.flight.created = TRUE]

(* Created only when the answer shows a record (appendBatch).              *)
Shown(x, answer) ==
    [Adopted(x, answer.state) EXCEPT !.flight.created = @ \/ answer.stored]

Ended(state) == state.solved \/ state.gaveUp

ReadLands(t, answer) ==
    LET x == tab[t]
        seen == IF answer.status = "ok" THEN Shown(x, answer) ELSE x
        read == [seen EXCEPT !.flight.readDone = TRUE]
        unsent(y) == IF y.flight.giveUp = "sent" THEN Replied(y) ELSE y
    IN  CASE answer.status = "failed" -> Landed(t, FailedLoad(Replied(x)))
          [] answer.status = "ok" /\ Ended(answer.state) -> Landed(t, Closed(Discarded(read)))
          [] answer.status = "ok" /\ ~Ended(answer.state) -> Landed(t, unsent(SettledBox(read)))
          [] answer.status = "not_found" ->
                Landed(t, unsent([Adopted(x, EmptyServer) EXCEPT !.flight.created = FALSE,
                                                                !.flight.readDone = TRUE]))

GiveUpLands(t, answer) ==
    LET x == tab[t]
        seen == IF answer.status \in {"ok", "refused"} THEN Adopted(x, answer.state) ELSE x
    IN  CASE answer.status = "failed" -> Landed(t, Resynced(x))
          [] answer.status = "puzzle_changed" -> Landed(t, Closed(Replied(x)))
          [] answer.status \in {"ok", "refused"} /\ Ended(answer.state) -> Landed(t, Closed(Discarded(seen)))
          [] answer.status = "not_found" -> Landed(t, Replied(x))

(* A refusal is the round's end only if its state says so: the log at its  *)
(* cap, not a batch that no longer fits.                                   *)
AppendLands(t, answer) ==
    LET x == tab[t]
        seen == Shown(x, answer)
        over == Ended(answer.state) \/ (answer.status = "refused" /\ Full(answer.state.log))
    IN  CASE answer.status = "failed" -> Landed(t, Resynced(x))
          [] answer.status \in {"puzzle_changed", "forbidden"} -> Landed(t, Closed(x))
          [] answer.status \in {"ok", "refused", "too_fast"} /\ over -> Landed(t, Closed(Discarded(seen)))
          [] answer.status = "ok" /\ ~over -> Landed(t, SettledBox(seen))
          [] answer.status \in {"refused", "too_fast"} /\ ~over -> Landed(t, seen)

Land(t) ==
    LET c == tab[t].call
        answer == IF c.at = "failed" THEN Verdict("failed") ELSE c.answer
    IN
    /\ c.at \in {"answered", "failed"}
    /\ IF Superseded(t, c) THEN Landed(t, tab[t])
       ELSE IF answer.status = "unknown_device" THEN SignedOut(t)
       ELSE CASE c.kind = "read" -> ReadLands(t, answer)
              [] c.kind = "giveUp" -> GiveUpLands(t, answer)
              [] c.kind = "append" -> AppendLands(t, answer)
    /\ UNCHANGED <<published, row, late, revoked, typed, spare>>

(* The answer of a conversation that was dropped under its request: taken, *)
(* it would be put on screen as this round's.                              *)
StrayLands(t) ==
    LET c == tab[t].stray
        x == [tab[t] EXCEPT !.stray = NoCall]
    IN
    /\ c.at = "answered"
    /\ Put(t, IF ~Superseded(t, c) /\ x.flight.open /\ c.answer.status \in {"ok", "refused", "too_fast"}
              THEN SettledBox(Adopted(x, c.answer.state)) ELSE x)
    /\ UNCHANGED <<published, row, late, revoked, typed, spare>>

Client(t) == Pump(t) \/ Challenged(t) \/ Land(t) \/ StrayLands(t)
Player(t) == Type(t) \/ AskGiveUp(t) \/ Visit(t) \/ Reload(t) \/ Prune(t) \/ Retry(t)
World(t) == Fail(t) \/ Delay(t) \/ Move(t) \/ Acquire(t) \/ ChangeDevice(t) \/ Revoke(t)

Next ==
    \/ \E t \in Tabs : Client(t) \/ Serve(t) \/ ServeStray(t) \/ Player(t) \/ World(t)
    \/ ServeLate
    \/ Republish

Spec == Init /\ [][Next]_vars

(* Promises settle and timers fire; a request that is not lost is served.  *)
FairSpec ==
    Spec /\ \A t \in Tabs : WF_vars(Client(t)) /\ WF_vars(Serve(t))

-----------------------------------------------------------------------------
Holds(a, e) == IF Stored(a, e) THEN Identities(row[a].log) ELSE {}

(* A guess that was typed is in the outbox or in the stored round until    *)
(* the round is over, whatever was lost, retried or answered late, unless  *)
(* the sentence was replaced or the account left (roundSync.ts).           *)
NoGuessLost ==
    \A w \in typed :
        LET x == tab[w.tab] IN
        x.who = w.who /\ x.device = w.device /\ x.page = w.edition /\ published = w.edition
            /\ ~(Stored(w.who, w.edition) /\ Over(row[w.who])) =>
            \/ Key[w.guess] \in Holds(w.who, w.edition)
            \/ x.box.edition = w.edition /\ Key[w.guess] \in Identities(x.box.log)

(* What was typed for the sentence of a row or one it replaced.            *)
TypedOf(a, g) == {w \in typed : w.who = a /\ w.edition <= row[a].edition /\ w.guess = g}

Copies(a, g) == {i \in DOMAIN row[a].log : row[a].log[i] = g}

(* No guess is stored more often than it was typed: an append whose        *)
(* outcome is unknown is never sent again before a read (appendBatch).     *)
(* But once more for each device its tab has acted with since, as the      *)
(* answer of an append is dropped when the device changes (superseded).    *)
NoGuessTwice ==
    \A a \in Accounts, g \in Guesses :
        Cardinality(Copies(a, g))
            <= Cardinality(UNION {{w} \X (w.device..tab[w.tab].device) : w \in TypedOf(a, g)})

(* What is stored was typed for its own sentence: "sending a retired       *)
(* round's guesses is the one thing the revision exists to prevent"        *)
(* (pending, roundSync.ts:283-285).                                        *)
StoredForItsSentence ==
    \A a \in Accounts : \A i \in DOMAIN row[a].log :
        \E w \in typed :
            w.who = a /\ w.edition = row[a].edition /\ w.guess = row[a].log[i]

(* What a tab shows as the server's is what the server stores for this     *)
(* account and sentence, or did: never another account's, nor a retired    *)
(* sentence's (superseded).                                                *)
SnapshotIsOwn ==
    \A t \in Tabs :
        LET f == tab[t].flight IN
        f.open /\ f.settled /\ f.server # EmptyServer =>
            \/ tab[t].who # None /\ Stored(tab[t].who, f.edition)
                /\ IsPrefix(f.server.log, row[tab[t].who].log)
                /\ (f.server.solved => row[tab[t].who].solved)
                /\ (f.server.gaveUp => row[tab[t].who].gaveUp)
            \/ f.edition # published

(* What a tab holds has its shapes, and is its own.                        *)
SyncSound == TypeOK /\ SnapshotIsOwn

(* The board never takes back a guess while its round goes on and its      *)
(* sentence stands: an answer replaces the server's part and shrinks the   *)
(* outbox in one step.                                                     *)
BoardKeepsGuesses ==
    [][\A t \in Tabs :
        LET x == tab[t]
            y == tab'[t]
        IN  x.flight.open /\ y.flight.open /\ Epoch(t) = Epoch(t)' /\ x.flight.edition = y.flight.edition
                /\ x.flight.settled /\ y.flight.settled /\ ~Over(y.flight.server)
                /\ x.flight.edition = published =>
                Board(x) \subseteq Board(y)]_vars

(* A give-up is always answered: the player never sits on a busy button.   *)
GiveUpAnswered ==
    \A t \in Tabs : tab[t].flight.giveUp # "none" ~> tab[t].flight.giveUp = "none"

Owes(t) ==
    /\ tab[t].who # None
    /\ tab[t].flight.open
    /\ Pending(tab[t]) # <<>>
    /\ tab[t].flight.edition = published
    /\ Epoch(t) \notin revoked

(* What is owed is sent in the end: no path leaves a conversation asleep   *)
(* on a full outbox, or closed on a round that goes on.                    *)
OutboxDrains == \A t \in Tabs : Owes(t) ~> ~Owes(t)

=============================================================================
