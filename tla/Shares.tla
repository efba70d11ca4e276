------------------------------- MODULE Shares -------------------------------
(***************************************************************************)
(* What the WhatsApp bot makes of the shares of a group (ingest.ts): the   *)
(* declaration of each player, the leader of the day, and the commands     *)
(* that thank for a share and announce a lead, which Outbound sends.  One  *)
(* group, one day.                                                         *)
(*                                                                         *)
(* WhatsApp hands messages over one after the other, but their handlers    *)
(* run concurrently; what was delivered is delivered again, the process    *)
(* may crash between any two calls, a write is applied and its answer      *)
(* lost.                                                                   *)
(*                                                                         *)
(* A share is its score: one result has one token.  The group acknowledges *)
(* shares and announces leads, and the shares of one message are taken in  *)
(* any order.                                                              *)
(***************************************************************************)
EXTENDS Naturals, Sequences

CONSTANTS
    Messages,       \* numbered by the order of (timestamp, id)
    SenderOf,       \* [Messages -> the player who sent it]
    SharesOf,       \* [Messages -> its shares, a score per language it carries]
    Own,            \* the language of the group
    Langs,
    Capped,         \* the score of a run that hit the cap
    None,
    Starts,         \* which deliveries come, and the faults that may strike
    WriteAttempts,  \* WRITE_ATTEMPTS
    Deliveries      \* bound: times WhatsApp delivers one message

VARIABLES
    asked,      \* the deliveries that may come: constant along a behaviour
    decl,       \* the declaration rows
    leads,      \* the rows the day's leader went through, the last one stands
    call,       \* the ingestions, one per delivery of a message
    up,         \* whether the task runs
    faults,     \* bound: the faults left
    queued,     \* the commands that were queued
    reached,    \* history: shares whose declaration reached the table
    moved,      \* history: the calls, with language, that changed a token
    lost        \* history: scores whose record or claim was given up

rows == <<decl, leads>>
history == <<queued, reached, moved, lost>>
vars == <<asked, rows, call, up, faults, history>>

Players == {SenderOf[m] : m \in Messages}
Calls == Messages \X (1..Deliveries)
Ack(m) == <<"ack", m, 0>>
Leader(p, s) == <<"leader", p, s>>

NoRow == [msg |-> 0, score |-> 0, by |-> <<>>]
Lead == leads[Len(leads)]
NoLead == [who |-> None, score |-> 0]
Unborn == [pc |-> "unborn", live |-> FALSE, todo |-> {}, lang |-> Own, tries |-> 0, seen |-> NoLead,
           thank |-> FALSE, news |-> {}, failed |-> FALSE]

InitWith(s) ==
    /\ asked = s.asked /\ faults = s.faults
    /\ decl = [k \in Players \X Langs |-> NoRow]
    /\ leads = <<NoLead>>
    /\ call = [c \in Calls |-> Unborn]
    /\ up = TRUE
    /\ queued = {} /\ reached = {} /\ moved = {} /\ lost = {}

Init == \E s \in Starts : InitWith(s)

Fault == faults > 0 /\ faults' = faults - 1

-----------------------------------------------------------------------------
(* Ingestion                                                               *)

(* Where a call goes once it is through with a step: its shares one after  *)
(* the other, then the one acknowledgement of a live message that changed  *)
(* a declaration, then the announcements one after the other.              *)
Onward(r) ==
    IF r.todo # {} THEN
        {[r EXCEPT !.pc = "record", !.tries = 0, !.seen = NoLead, !.lang = l, !.todo = @ \ {l}] : l \in r.todo}
    ELSE {[r EXCEPT !.pc = IF r.thank /\ r.live THEN "ack" ELSE IF r.news # {} THEN "news" ELSE "done",
                    !.tries = 0, !.seen = NoLead, !.lang = Own]}

Goes(c, r) == \E next \in Onward(r) : call' = [call EXCEPT ![c] = next]

(* A message delivered, or delivered again after a reconnection or a       *)
(* restart, perhaps too late to be live.                                   *)
Deliver(c) ==
    /\ up /\ c \in asked
    /\ call[c] = Unborn
    /\ c[2] > 1 => call[<<c[1], c[2] - 1>>] # Unborn
    /\ \E live \in BOOLEAN : Goes(c, [Unborn EXCEPT !.live = live, !.todo = DOMAIN SharesOf[c[1]]])
    /\ UNCHANGED <<asked, rows, up, faults, history>>

KeyOf(c) == <<SenderOf[c[1]], call[c].lang>>
ScoreOf(c) == SharesOf[c[1]][call[c].lang]

(* Mutant: whatever message comes is written.                              *)
Supersedes_Always(c) == decl[KeyOf(c)].msg # c[1]

(* The precedence rule: a strictly later message.                          *)
Supersedes(c) == decl[KeyOf(c)].msg < c[1]

(* Mutant: a refused attempt is always taken for a second delivery.        *)
OwnEarlierAttempt_Never(c) == FALSE

(* The row standing is this very call's, written by an earlier attempt.    *)
OwnEarlierAttempt(c) == decl[KeyOf(c)].by = c

(* What the call does with an answered record: a share that changed the    *)
(* declaration is acknowledged, and claims the lead when it can have it.   *)
Claims(c) == call[c].lang = Own /\ ScoreOf(c) # Capped
AfterRecord(c, changed) ==
    LET then == [call[c] EXCEPT !.tries = 0, !.thank = @ \/ changed]
    IN IF changed /\ Claims(c) THEN call' = [call EXCEPT ![c] = [then EXCEPT !.pc = "look"]]
                               ELSE Goes(c, then)

(* No row stood, or one with another token.                                *)
Changes(c) == decl[KeyOf(c)] = NoRow \/ decl[KeyOf(c)].score # ScoreOf(c)

(* The call itself, as often as it takes: written unless a later message   *)
(* stands, its answer perhaps lost.                                        *)
WriteRow(c) ==
    /\ decl' = [decl EXCEPT ![KeyOf(c)] = [msg |-> c[1], score |-> ScoreOf(c), by |-> c]]
    /\ reached' = reached \cup {<<c[1], call[c].lang>>}
    /\ moved' = IF Changes(c) THEN moved \cup {<<c, call[c].lang>>} ELSE moved

Refused(c) ==
    /\ reached' = reached \cup {<<c[1], call[c].lang>>}
    /\ UNCHANGED <<decl, moved>>

(* Tried before and no longer its own: a later message came between the    *)
(* lost answer and this attempt, and what the first one changed is         *)
(* claimed by neither.                                                     *)
Overtaken(c) == call[c].tries > 0 /\ decl[KeyOf(c)].by # c

RecordAnswered(c) ==
    \/ /\ Supersedes(c)
       /\ WriteRow(c)
       /\ AfterRecord(c, Changes(c))
       /\ UNCHANGED lost
    \/ /\ ~Supersedes(c)
       /\ Refused(c)
       /\ AfterRecord(c, OwnEarlierAttempt(c))
       /\ lost' = IF Overtaken(c) THEN lost \cup {ScoreOf(c)} ELSE lost

(* The write throws, before or after it was applied; thrice and the share  *)
(* is given up for the others of the message.                              *)
RecordThrows(c) ==
    /\ Fault
    /\ \/ IF Supersedes(c) THEN WriteRow(c) ELSE Refused(c)
       \/ UNCHANGED <<decl, reached, moved>>
    /\ IF call[c].tries + 1 < WriteAttempts
       THEN call' = [call EXCEPT ![c].tries = @ + 1] /\ UNCHANGED lost
       ELSE Goes(c, [call[c] EXCEPT !.failed = TRUE]) /\ lost' = lost \cup {ScoreOf(c)}

Record(c) ==
    /\ call[c].pc = "record"
    /\ \/ RecordAnswered(c) /\ UNCHANGED faults
       \/ RecordThrows(c)
    /\ UNCHANGED <<asked, leads, up, queued>>

(* A claim that throws costs the announcement, not the acknowledgement.    *)
ClaimThrows(c) ==
    /\ Fault
    /\ Goes(c, call[c])
    /\ lost' = lost \cup {ScoreOf(c)}

(* The row as some replica has it; one no better is left alone.            *)
Look(c) ==
    /\ call[c].pc = "look"
    /\ \/ /\ \E i \in 1..Len(leads) :
               IF leads[i].who # None /\ leads[i].score <= ScoreOf(c)
               THEN Goes(c, call[c])
               ELSE call' = [call EXCEPT ![c].seen = leads[i], ![c].pc = "claim"]
          /\ UNCHANGED <<faults, lost>>
       \/ ClaimThrows(c)
    /\ UNCHANGED <<asked, rows, up, reached, moved, queued>>

(* Mutant: the row goes to whoever does not hold it.                       *)
MayLead_Any(c) == Lead.who = None \/ Lead.who # SenderOf[c[1]] \/ Lead.score > ScoreOf(c)

MayLead(c) == Lead.who = None \/ Lead.score > ScoreOf(c)

(* Mutant: who held the lead is taken from the read before the write.      *)
TookLead_AsRead(c) == call[c].seen.who # None /\ call[c].seen.who # SenderOf[c[1]]

(* News is a lead that changed hands, as the row the write displaced says. *)
TookLead(c) == Lead.who # None /\ Lead.who # SenderOf[c[1]]

LeadRow(c) == [who |-> SenderOf[c[1]], score |-> ScoreOf(c)]

Claim(c) ==
    /\ call[c].pc = "claim"
    /\ \/ /\ MayLead(c)
          /\ leads' = Append(leads, LeadRow(c))
          /\ Goes(c, [call[c] EXCEPT !.news = IF TookLead(c) /\ call[c].live
                        THEN @ \cup {Leader(SenderOf[c[1]], ScoreOf(c))} ELSE @])
          /\ UNCHANGED <<faults, lost>>
       \/ /\ ~MayLead(c)
          /\ Goes(c, call[c])
          /\ UNCHANGED <<leads, faults, lost>>
       \/ /\ MayLead(c)                 \* applied, and the answer lost
          /\ leads' = Append(leads, LeadRow(c))
          /\ Fault /\ Goes(c, call[c])
          /\ UNCHANGED lost
       \/ ClaimThrows(c) /\ UNCHANGED leads
    /\ UNCHANGED <<asked, decl, up, reached, moved, queued>>

(* A write to the queue, again when it throws, until it is given up; then  *)
(* the call goes on.                                                       *)
Enqueues(c, id, then) ==
    \/ queued' = queued \cup {id} /\ Goes(c, then) /\ UNCHANGED faults
    \/ /\ Fault
       /\ queued' \in {queued, queued \cup {id}}
       /\ IF call[c].tries + 1 < WriteAttempts
          THEN call' = [call EXCEPT ![c].tries = @ + 1]
          ELSE Goes(c, [then EXCEPT !.failed = TRUE])

Acknowledge(c) ==
    /\ call[c].pc = "ack"
    /\ Enqueues(c, Ack(c[1]), [call[c] EXCEPT !.thank = FALSE])
    /\ UNCHANGED <<asked, rows, up, reached, moved, lost>>

Announce(c) ==
    /\ call[c].pc = "news"
    /\ \E id \in call[c].news : Enqueues(c, id, [call[c] EXCEPT !.news = @ \ {id}])
    /\ UNCHANGED <<asked, rows, up, reached, moved, lost>>

-----------------------------------------------------------------------------
(* The task                                                                *)

Running(c) == call[c].pc \notin {"unborn", "dead", "done"}

(* A share recorded and not claimed when its call died is claimed by none. *)
ClaimsLost == {ScoreOf(c) : c \in {x \in Calls : Running(x) /\ call[x].pc \in {"record", "look", "claim"}}}

Crash ==
    /\ up /\ Fault
    /\ up' = FALSE
    /\ call' = [c \in Calls |-> IF Running(c) THEN [Unborn EXCEPT !.pc = "dead"] ELSE call[c]]
    /\ lost' = lost \cup ClaimsLost
    /\ UNCHANGED <<asked, rows, queued, reached, moved>>

Boot ==
    /\ ~up /\ up' = TRUE
    /\ UNCHANGED <<asked, rows, call, faults, history>>

Next ==
    \/ \E c \in Calls : Deliver(c) \/ Record(c) \/ Look(c) \/ Claim(c) \/ Acknowledge(c) \/ Announce(c)
    \/ Crash \/ Boot

Spec == Init /\ [][Next]_vars

-----------------------------------------------------------------------------
(* Properties                                                              *)

(* The row of a player is the latest of their messages that reached the    *)
(* table (dynamoDeclarationStore.ts 106), in whatever order they came, on  *)
(* whatever delivery, answered or not.                                     *)
LatestStands ==
    \A p \in Players, l \in Langs :
        LET mine == {r[1] : r \in {x \in reached : SenderOf[x[1]] = p /\ x[2] = l}}
        IN decl[<<p, l>>].msg = IF mine = {} THEN 0 ELSE CHOOSE m \in mine : \A n \in mine : n <= m

(* A live share that changed its declaration, and stands, is thanked for:  *)
(* unless the task died in the middle or writes were given up, the         *)
(* acknowledgement was queued, also when the answer of the record was lost *)
(* (declarations.ts 53).                                                   *)
ShareIsThanked ==
    \A c \in Calls :
        call[c].pc \in {"news", "done"} /\ call[c].live /\ ~call[c].failed
            /\ (\E l \in Langs : <<c, l>> \in moved /\ decl[<<SenderOf[c[1]], l>>].by = c)
        => Ack(c[1]) \in queued

(* The day's best is never worse than a declaration that stands, but for   *)
(* one whose claim is under way or was lost: a row left behind would have  *)
(* a later share announced as a lead it is not (leader.ts 8-12).           *)
UnderWay(p, s) ==
    \E c \in Calls : /\ Running(c) /\ SenderOf[c[1]] = p
                     /\ call[c].pc \in {"record", "look", "claim"}
                     /\ call[c].lang = Own /\ ScoreOf(c) = s

LeadIsBest ==
    \A p \in Players :
        LET row == decl[<<p, Own>>]
        IN row # NoRow /\ row.score # Capped /\ row.score \notin lost /\ ~UnderWay(p, row.score)
            => Lead.who # None /\ Lead.score <= row.score

(* What is announced as taking the lead displaced the row of another       *)
(* player, and that row was worse (leader.ts 83, from the displaced row).  *)
LeadChangedHands ==
    \A p \in Players, s \in 0..Capped :
        Leader(p, s) \in queued =>
            \E i \in 2..Len(leads) :
                /\ leads[i] = [who |-> p, score |-> s]
                /\ leads[i - 1].who \notin {None, p}
                /\ leads[i - 1].score > s

=============================================================================
