-------------------------------- MODULE Chat --------------------------------
(***************************************************************************)
(* The conversation of the WhatsApp bot with one group (main.ts over       *)
(* serial.ts, trigger.ts, agent.ts, limits.ts and dayLog.ts).  WhatsApp    *)
(* hands messages over without waiting for their handlers; each remembers  *)
(* its message, has it ingested as a share, and then waits for its turn in *)
(* the one section of the group where the bot decides whether to answer,   *)
(* asks the model, queues what it says and remembers it.                   *)
(*                                                                         *)
(* The day log is a copy in memory over rows in the table; a turn enters   *)
(* the copy first and the table when the write lands.  What the bot said   *)
(* comes back as an echo, also of lines it did not keep.  The task         *)
(* crashes, calls fail before or after they took effect or are never       *)
(* answered, the table is read from replicas that may be behind, and the   *)
(* Whippin day flips.  The limits are those of one UTC day.                *)
(*                                                                         *)
(* Two texts are equal when they are the same line of the bot.  How the    *)
(* prompt is composed, the tools and the web are left out.                 *)
(***************************************************************************)
EXTENDS Naturals, Sequences

CONSTANTS
    Messages,
    At,           \* [Messages -> when it was sent]
    DayOf,        \* [Messages -> the day it was sent in]
    Shape,        \* [Messages -> "addressed", "tap", "ambient", "share" or "wordless"]
    Days,         \* bound: the days, 1..n
    None,
    Gap,          \* EXCHANGE_GAP_MS
    MaxUnasked,   \* MAX_UNASKED_IN_A_ROW
    GroupLimit,   \* perGroupPerDay
    CallCeiling,  \* dailyCallCeiling
    MaxRounds,    \* MAX_TOOL_ROUNDS
    Starts        \* the day, the deliveries that come, the rows there are, what was spent, the faults that may strike

VARIABLES
    asked,     \* bound: the deliveries, <<message, nth>>, that may come; constant
    today,     \* the Whippin day
    up,        \* whether the task runs
    memory,    \* the turns of the working copy
    stored,    \* the rows of the day log
    storing,   \* the turns whose write has not landed
    exchange,  \* the group's exchange
    turns,     \* the calls that wait for the section, in order; the first may be in it
    call,      \* the handlers, one per delivery of a message
    spent,     \* what was taken of the two ceilings
    faults,    \* bound: the faults left
    booted,    \* history: the day the task booted in, None when its rows could not be read
    missed,    \* history: the rows of that day the replica it was read from did not have
    queued,    \* history: the lines that may be in the queue
    said,      \* history: the answers this task knows to be queued
    echoed     \* history: the lines this task heard come back

ASSUME MessagesAssumption ==
    /\ Gap \in Nat /\ MaxUnasked \in Nat
    /\ \A m \in Messages : At[m] \in Nat /\ At[m] # None /\ DayOf[m] \in Nat \ {0}

(* A turn is told by its id; a line of the bot is the id it is kept under. *)
Turn(id, day) == [id |-> id, day |-> day]
Said(m) == <<"said", m>>
Reply(m) == <<"reply", m>>
Ack(m) == <<"ack", m>>
Echo(line) == <<"echo", line>>
Lines == {Reply(m) : m \in Messages} \cup {Ack(m) : m \in Messages}

(* A start has a log of messages up to its day.                            *)
ASSUME StartsAssumption ==
    \A s \in Starts :
        /\ s.asked \subseteq Messages \X Nat
        /\ s.today \in Nat \ {0}
        /\ s.rows \subseteq {Turn(Said(m), DayOf[m]) : m \in {x \in Messages : DayOf[x] <= s.today}}

log == <<memory, stored, storing>>
load == <<booted, missed>>
history == <<load, queued, said, echoed>>
vars == <<asked, today, up, log, exchange, turns, call, spent, faults, history>>

NewExchange == [unasked |-> 0, spoke |-> None]
Unborn == [pc |-> "unborn", acked |-> FALSE, seen |-> NewExchange, outcome |-> "none", round |-> 0, retried |-> FALSE]

InitWith(s) ==
    /\ asked = s.asked /\ faults = s.faults
    /\ today = s.today /\ up = TRUE /\ booted = s.today
    /\ memory = s.rows /\ stored = s.rows /\ storing = {}
    /\ missed = {}
    /\ exchange = NewExchange
    /\ turns = <<>>
    /\ call = [c \in s.asked |-> Unborn]
    /\ spent = [group |-> s.spent, calls |-> 0]
    /\ queued = {} /\ said = <<>> /\ echoed = {}

Fault == faults > 0 /\ faults' = faults - 1

-----------------------------------------------------------------------------
(* The day log                                                             *)

Known(id) == \E t \in memory : t.id = id

(* Memory first, two days of it, then the table; a turn that is known is   *)
(* not kept again.                                                         *)
Keep(t) ==
    IF Known(t.id) THEN UNCHANGED <<memory, storing>>
    ELSE /\ memory' = {x \in memory \cup {t} : x.day + 1 >= t.day}
         /\ storing' = storing \cup {t}

Landed(id) == \A t \in storing : t.id # id

Land ==
    /\ \E t \in storing :
        /\ storing' = storing \ {t}
        /\ \/ stored' = stored \cup {t} /\ UNCHANGED faults
           \/ stored' \in {stored, stored \cup {t}} /\ Fault
    /\ UNCHANGED <<asked, today, up, memory, exchange, turns, call, spent, history>>

(* A line that is in the log of the day, kept when it was composed or when *)
(* it came back before.                                                    *)
Heard(line, day) == Turn(line, day) \in memory \/ Turn(Echo(line), day) \in memory

(* The bot's own line as WhatsApp brings it back, when the queue posted it *)
(* (appendUnlessSaid).                                                     *)
ComesBack(line) ==
    /\ up /\ line \in queued
    /\ line \notin echoed
    /\ IF Heard(line, today) THEN UNCHANGED <<memory, storing>> ELSE Keep(Turn(Echo(line), today))
    /\ echoed' = echoed \cup {line}
    /\ UNCHANGED <<asked, today, up, stored, exchange, turns, call, spent, faults, load, queued, said>>

-----------------------------------------------------------------------------
(* Before the section                                                      *)

Become(c, r) == call' = [call EXCEPT ![c] = r]

(* Remembered before it is ingested; a bare share or sticker leaves        *)
(* nothing to remember.                                                    *)
Deliver(c) ==
    LET t == Turn(Said(c[1]), DayOf[c[1]])
        worth == Shape[c[1]] # "wordless"
    IN  /\ up /\ call[c] = Unborn
        /\ <<c[1], c[2] - 1>> \in asked => call[<<c[1], c[2] - 1>>] # Unborn
        /\ t.day <= today
        /\ IF worth THEN Keep(t) ELSE UNCHANGED <<memory, storing>>
        /\ Become(c, [Unborn EXCEPT !.pc = IF worth /\ ~Known(t.id) THEN "keep" ELSE "ingest"])
        /\ UNCHANGED <<asked, today, up, stored, exchange, turns, spent, faults, history>>

Kept(c) ==
    /\ call[c].pc = "keep" /\ Landed(Said(c[1]))
    /\ Become(c, [call[c] EXCEPT !.pc = "ingest"])
    /\ UNCHANGED <<asked, today, up, log, exchange, turns, spent, faults, history>>

WaitInTurn(c, r) ==
    /\ turns' = Append(turns, c)
    /\ Become(c, [r EXCEPT !.pc = "turn"])

(* A share may be acknowledged, and then with a line, which spends a call  *)
(* and is kept once it is queued (spoken); Shares has the rest.            *)
Ingest(c) ==
    /\ call[c].pc = "ingest"
    /\ \/ /\ WaitInTurn(c, call[c])
          /\ UNCHANGED <<memory, storing, spent, queued>>
       \/ /\ Shape[c[1]] = "share"
          /\ WaitInTurn(c, [call[c] EXCEPT !.acked = TRUE])
          /\ \/ UNCHANGED <<memory, storing, spent, queued>>
             \/ /\ spent.calls < CallCeiling
                /\ spent' = [spent EXCEPT !.calls = @ + 1]
                /\ queued' = queued \cup {Ack(c[1])}
                /\ Keep(Turn(Ack(c[1]), today))
    /\ UNCHANGED <<asked, today, up, stored, exchange, faults, load, said, echoed>>

-----------------------------------------------------------------------------
(* The section of the group                                                *)

(* Mutant: the handlers of a burst are in it together.                     *)
MayEnter_Together(c) == TRUE

(* One conversation at a time: everyone waits for those before.            *)
MayEnter(c) == Head(turns) = c

Leave(c) ==
    /\ Become(c, [call[c] EXCEPT !.pc = "done"])
    /\ turns' = Tail(turns)

(* Mutant: a piece of work that throws is waited for for ever.             *)
AfterThrow_Stuck(c) == turns

(* The queue goes on behind work that throws.                              *)
AfterThrow(c) == Tail(turns)

Throw(c) ==
    /\ Fault
    /\ Become(c, [call[c] EXCEPT !.pc = "done"])
    /\ turns' = AfterThrow(c)

Ambient(c) == Shape[c[1]] \notin {"addressed", "tap"}

(* The exchange is over once the bot has been quiet for the gap.           *)
Current(e, at) == IF e.spoke = None \/ at > e.spoke + Gap THEN NewExchange ELSE e

MayVolunteer(e, at) == Current(e, at).unasked < MaxUnasked

(* Ambient talk is not offered when its share was acknowledged, when it    *)
(* holds no words, or when the bot has volunteered enough.                 *)
Offer(c) ==
    /\ call[c].pc = "turn" /\ MayEnter(c)
    /\ LET m == c[1]
           offered == ~call[c].acked /\ Shape[m] # "wordless" /\ MayVolunteer(exchange, At[m])
       IN  IF IF Ambient(c) THEN offered ELSE Shape[m] # "tap"
           THEN /\ Become(c, [call[c] EXCEPT !.pc = IF Ambient(c) THEN "round" ELSE "charge", !.seen = exchange])
                /\ UNCHANGED turns
           ELSE Leave(c)
    /\ UNCHANGED <<asked, today, up, log, exchange, spent, faults, history>>

(* A unit of a ceiling, taken by a conditional increment; its answer may   *)
(* be lost, and then the work throws.                                      *)
Take(c, which, max) ==
    /\ spent[which] < max
    /\ spent' = [spent EXCEPT ![which] = @ + 1]

TakeThrows(c, which, max) ==
    /\ Throw(c)
    /\ Take(c, which, max) \/ UNCHANGED spent

(* The group's ceiling, up front for who addressed the bot, and for        *)
(* ambient talk once there are words to say.                               *)
Charge(c) ==
    /\ call[c].pc = "charge"
    /\ \/ /\ Take(c, "group", GroupLimit)
          /\ Become(c, [call[c] EXCEPT !.pc = IF call[c].outcome = "none" THEN "round" ELSE "queue"])
          /\ UNCHANGED <<turns, faults>>
       \/ /\ spent.group >= GroupLimit
          /\ Leave(c)
          /\ UNCHANGED <<spent, faults>>
       \/ TakeThrows(c, "group", GroupLimit)
    /\ UNCHANGED <<asked, today, up, log, exchange, history>>

(* What the model comes back with: tools it wants, which the last round    *)
(* does not offer; an answer that did not finish, tried once more; words,  *)
(* a reaction, or nothing that can be said.                                *)
Answered(c) ==
    LET r == call[c]
    IN  \/ r.round < MaxRounds /\ Become(c, [r EXCEPT !.round = @ + 1]) /\ UNCHANGED turns
        \/ ~r.retried /\ Become(c, [r EXCEPT !.retried = TRUE]) /\ UNCHANGED turns
        \/ Leave(c)
        \/ /\ Become(c, [r EXCEPT !.outcome = "reply", !.pc = IF Ambient(c) THEN "charge" ELSE "queue"])
           /\ UNCHANGED turns
        \/ Become(c, [r EXCEPT !.outcome = "react", !.pc = "queue"]) /\ UNCHANGED turns

(* Every call of the model is paid for before it is made.                  *)
Round(c) ==
    /\ call[c].pc = "round"
    /\ \/ Take(c, "calls", CallCeiling) /\ Answered(c) /\ UNCHANGED faults
       \/ spent.calls >= CallCeiling /\ Leave(c) /\ UNCHANGED <<spent, faults>>
       \/ TakeThrows(c, "calls", CallCeiling)
    /\ UNCHANGED <<asked, today, up, log, exchange, history>>

AfterAnswer(c) ==
    [unasked |-> IF Ambient(c) THEN Current(call[c].seen, At[c[1]]).unasked + 1 ELSE 0,
     spoke |-> At[c[1]]]

Accepted(c) ==
    /\ queued' = queued \cup {Reply(c[1])}
    /\ said' = Append(said, c)

Refused == UNCHANGED <<queued, said>>

(* Mutant: the answer is kept before the queue has it.                     *)
WhenRefused_Kept(c) ==
    /\ Keep(Turn(Reply(c[1]), DayOf[c[1]]))
    /\ exchange' = AfterAnswer(c)

(* What the queue refused is no turn, and spends nothing of the exchange.  *)
WhenRefused(c) == UNCHANGED <<memory, storing, exchange>>

(* Said only once the queue has it; a write whose answer was lost counts   *)
(* as refused.  A reaction moves no exchange.                              *)
Queue(c) ==
    /\ call[c].pc = "queue"
    /\ \/ /\ call[c].outcome = "reply"
          /\ Accepted(c)
          /\ exchange' = AfterAnswer(c)
          /\ Keep(Turn(Reply(c[1]), DayOf[c[1]]))
          /\ Become(c, [call[c] EXCEPT !.pc = "close"])
          /\ UNCHANGED <<turns, faults>>
       \/ /\ call[c].outcome = "react"
          /\ Keep(Turn(<<"react", c[1]>>, DayOf[c[1]]))
          /\ Become(c, [call[c] EXCEPT !.pc = "close"])
          /\ Refused
          /\ UNCHANGED <<exchange, turns, faults>>
       \/ /\ Fault
          /\ Leave(c)
          /\ WhenRefused(c)
          /\ UNCHANGED said
          /\ \/ UNCHANGED queued
             \/ call[c].outcome = "reply" /\ queued' = queued \cup {Reply(c[1])}
    /\ UNCHANGED <<asked, today, up, stored, spent, load, echoed>>

(* The section ends when what was kept has landed, or failed to.           *)
Close(c) ==
    /\ call[c].pc = "close"
    /\ Landed(<<call[c].outcome, c[1]>>)
    /\ Leave(c)
    /\ UNCHANGED <<asked, today, up, log, exchange, spent, faults, history>>

(* A call of DynamoDB or of the queue that is never answered: the handler  *)
(* waits for ever, in the section if that is where it was.  Whether the    *)
(* call took effect does not show.  Only the model is given a timeout      *)
(* (agent.ts 403).                                                         *)
Awaiting == {"keep", "ingest", "charge", "round", "queue", "close"}

Effect(c) ==
    \/ UNCHANGED <<memory, storing, spent, queued>>
    \/ /\ \/ call[c].pc = "charge" /\ Take(c, "group", GroupLimit)
          \/ call[c].pc = "round" /\ Take(c, "calls", CallCeiling)
       /\ UNCHANGED <<memory, storing, queued>>
    \/ /\ call[c].pc = "queue" /\ call[c].outcome = "reply"
       /\ queued' = queued \cup {Reply(c[1])}
       /\ UNCHANGED <<memory, storing, spent>>
    \/ /\ call[c].pc = "ingest" /\ Shape[c[1]] = "share"
       /\ Take(c, "calls", CallCeiling)
       /\ \/ queued' \in {queued, queued \cup {Ack(c[1])}} /\ UNCHANGED <<memory, storing>>
          \/ queued' = queued \cup {Ack(c[1])} /\ Keep(Turn(Ack(c[1]), today))

Hang(c) ==
    /\ call[c].pc \in Awaiting
    /\ Fault
    /\ Become(c, [call[c] EXCEPT !.pc = "hung"])
    /\ Effect(c)
    /\ UNCHANGED <<asked, today, up, stored, exchange, turns, load, said, echoed>>

-----------------------------------------------------------------------------
(* The task and the day                                                    *)

Flip ==
    /\ today + 1 \in Days /\ today' = today + 1
    /\ UNCHANGED <<asked, up, log, exchange, turns, call, spent, faults, history>>

(* Writes under way land or do not.                                        *)
Crash ==
    /\ up /\ Fault
    /\ up' = FALSE /\ memory' = {} /\ storing' = {} /\ turns' = <<>>
    /\ \E landed \in SUBSET storing : stored' = stored \cup landed
    /\ call' = [c \in asked |-> IF call[c].pc \in {"unborn", "done"} THEN call[c] ELSE [Unborn EXCEPT !.pc = "done"]]
    /\ exchange' = NewExchange
    /\ said' = <<>> /\ echoed' = {}
    /\ UNCHANGED <<asked, today, spent, load, queued>>

(* What a read of the day's rows may come back with: the replica asked may *)
(* lack any of them (an eventually consistent Query, dayLog.ts read).      *)
RowsToday == {t \in stored : t.day = today}

Reloaded == SUBSET RowsToday

Boot ==
    /\ ~up /\ up' = TRUE
    /\ \/ memory' \in Reloaded /\ booted' = today /\ UNCHANGED faults
       \/ memory' = {} /\ booted' = None /\ Fault
    /\ missed' = RowsToday \ memory'
    /\ UNCHANGED <<asked, today, stored, storing, exchange, turns, call, spent, queued, said, echoed>>

Handle ==
    \E c \in asked :
        \/ Deliver(c) \/ Kept(c) \/ Ingest(c)
        \/ Offer(c) \/ Charge(c) \/ Round(c) \/ Queue(c) \/ Close(c)

Next ==
    \/ Handle \/ Land \/ Flip \/ Crash \/ Boot
    \/ \E c \in asked : Hang(c)
    \/ \E line \in Lines : ComesBack(line)

-----------------------------------------------------------------------------
(* Properties                                                              *)

(* The bot does not answer unasked more often than its budget without      *)
(* somebody addressing it or the exchange ending, as far as one task knows *)
(* of its answers: the handlers of a burst are one after the other in the  *)
(* section that reads the exchange and writes it back (serial.ts 1-10).    *)
InARow(i, j) ==
    /\ \A k \in i..j : Ambient(said[k])
    /\ \A k \in i..(j - 1) : At[said[k + 1][1]] <= At[said[k][1]] + Gap

UnaskedBounded ==
    \A i, j \in 1..Len(said) : i <= j /\ InARow(i, j) => j - i + 1 <= MaxUnasked

(* The copy holds a line only if the queue may have it; it holds each      *)
(* answer the task knows to be queued and each line that came back, so     *)
(* that the next answer is given knowing what was said; it holds the       *)
(* message being answered; and after a restart it holds all that is stored *)
(* since the day it began in but the rows the load was not shown (main.ts, *)
(* dayLog.ts load).                                                        *)
NotTooOld(day) == \A t \in memory : t.day <= day + 1

NothingMadeUp ==
    \A line \in Lines :
        (\E t \in memory \cup stored \cup storing : t.id \in {line, Echo(line)}) => line \in queued

Remembers ==
    /\ \A i \in 1..Len(said) : NotTooOld(DayOf[said[i][1]]) => Known(Reply(said[i][1]))
    /\ \A line \in echoed : Known(line) \/ Known(Echo(line)) \/ ~NotTooOld(1)
    /\ \A c \in asked :
        call[c].pc \in {"charge", "round", "queue"} /\ NotTooOld(DayOf[c[1]]) => Known(Said(c[1]))

(* Rows another process put in the table.                                  *)
Seeded(t) == t.id[1] = "seed"

Lasting == {t \in stored : ~Seeded(t) /\ t.day >= booted /\ NotTooOld(t.day)}

Restored == up /\ booted # None => Lasting \ missed \subseteq memory

LinesRemembered == NothingMadeUp /\ (up => Remembers) /\ Restored

(* Every message that was taken in is done with, unless a call its handler *)
(* made is never answered or it waits behind such a handler: no answer     *)
(* that fails or throws keeps the group's section from those behind it     *)
(* (serial.ts 17).                                                         *)
InHand(c) == call[c].pc \notin {"unborn", "done"}

Hung(c) == call[c].pc = "hung"

Stranded(c) == Hung(c) \/ (call[c].pc = "turn" /\ Hung(Head(turns)))

TurnsEnd == (\E c \in asked : InHand(c)) ~> (\A c \in asked : InHand(c) => Stranded(c))

=============================================================================
