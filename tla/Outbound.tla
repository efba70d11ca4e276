------------------------------ MODULE Outbound ------------------------------
(***************************************************************************)
(* The outbound queue of the WhatsApp bot and its one consumer             *)
(* (dispatcher.ts over sqs.ts, dedupStore.ts and client.ts): whatever is   *)
(* to be said is a command in the queue, and the task that holds the       *)
(* socket sends it and keeps a record of what it sent.  The commands come  *)
(* from the handlers of messages (Shares) and from the podium and reminder *)
(* jobs; a producer whose answer was lost, or a job that is run again,     *)
(* queues its command once more.                                           *)
(*                                                                         *)
(* The queue promises no order and hands a message out again when it was   *)
(* hidden for long enough, even while the consumer is still at it; how     *)
(* long is left out.  Calls fail before or after they took effect, the     *)
(* socket drops, the task crashes and boots with another configuration.    *)
(***************************************************************************)
EXTENDS Naturals, FiniteSets

CONSTANTS
    Commands,     \* command ids
    Starts,       \* how often each is queued, and the faults that may strike
    MaxReceives,  \* maxReceiveCount of the queue
    Batch,        \* messages one receive hands out
    MaxQueue      \* bound: messages in the queue at a time

VARIABLES
    setting,    \* the start: constant along a behaviour
    owed,       \* how often each command is still to be queued
    queue,      \* the messages of the queue
    dead,       \* the commands in the dead-letter queue
    sent,       \* the commands with a sent record
    posted,     \* how often each command is in the chat
    batch,      \* what the consumer received and has not come to
    hand,       \* what it is at
    up,         \* whether the task runs
    open,       \* whether its socket is open
    configured, \* whether it booted with the group in its configuration
    faults,     \* bound: the faults left
    queued,     \* history: the commands that were queued
    dropped     \* history: the commands of a group not configured

task == <<batch, hand, up, open, configured>>
vars == <<setting, owed, queue, dead, sent, posted, task, faults, queued, dropped>>

NoHand == [at |-> "idle", n |-> 0, id |-> CHOOSE id \in Commands : TRUE]

InitWith(s) ==
    /\ setting = s /\ owed = s.owed /\ faults = s.faults
    /\ queue = {} /\ dead = {} /\ sent = {} /\ queued = {} /\ dropped = {}
    /\ posted = [id \in Commands |-> 0]
    /\ batch = {} /\ hand = NoHand
    /\ up = TRUE /\ open = TRUE /\ configured = TRUE

Init == \E s \in Starts : InitWith(s)

Fault == faults > 0 /\ faults' = faults - 1

-----------------------------------------------------------------------------
(* The queue                                                               *)

(* A number no message has, nor a receipt the consumer still holds.        *)
Free == CHOOSE n \in 1..2 * MaxQueue :
            n # hand.n /\ \A m \in queue \cup batch : m.n # n

Enqueue(id) ==
    /\ owed[id] > 0 /\ Cardinality(queue) < MaxQueue
    /\ owed' = [owed EXCEPT ![id] = @ - 1]
    /\ queue' = queue \cup {[n |-> Free, id |-> id, receives |-> 0, flight |-> FALSE]}
    /\ queued' = queued \cup {id}
    /\ UNCHANGED <<setting, dead, sent, posted, task, faults, dropped>>

(* A message handed out and not deleted comes back once it was hidden long *)
(* enough, or goes to the dead letters when it was received that often.    *)
Reappear ==
    /\ \E q \in queue :
        /\ q.flight
        /\ \/ /\ q.receives < MaxReceives
              /\ queue' = (queue \ {q}) \cup {[q EXCEPT !.flight = FALSE]}
              /\ UNCHANGED dead
           \/ /\ q.receives >= MaxReceives
              /\ queue' = queue \ {q}
              /\ dead' = dead \cup {q.id}
    /\ UNCHANGED <<setting, owed, sent, posted, task, faults, queued, dropped>>

-----------------------------------------------------------------------------
(* The consumer                                                            *)

AtRest == hand = NoHand /\ batch = {}

(* Nothing is pulled that cannot be sent.                                  *)
Ready == up /\ open

Receive ==
    /\ Ready /\ AtRest
    /\ \E got \in SUBSET {q \in queue : ~q.flight} :
        /\ got # {} /\ Cardinality(got) <= Batch
        /\ queue' = (queue \ got) \cup {[q EXCEPT !.flight = TRUE, !.receives = @ + 1] : q \in got}
        /\ batch' = {[n |-> q.n, id |-> q.id] : q \in got}
    /\ UNCHANGED <<setting, owed, dead, sent, posted, hand, up, open, configured, faults, queued, dropped>>

(* The next of the batch; one of a group that is not configured is deleted *)
(* unsent.                                                                 *)
Take ==
    /\ up /\ hand = NoHand
    /\ \E b \in batch :
        /\ batch' = batch \ {b}
        /\ hand' = [n |-> b.n, id |-> b.id, at |-> IF configured THEN "check" ELSE "settle"]
        /\ dropped' = IF configured THEN dropped ELSE dropped \cup {b.id}
    /\ UNCHANGED <<setting, owed, queue, dead, sent, posted, up, open, configured, faults, queued>>

(* Mutant: the record is read from a replica that may not have it yet.     *)
MaySend_Stale(id) == TRUE

MaySend(id) == id \notin sent

(* A dispatch or a deletion that throws leaves the message to the queue.   *)
Check ==
    /\ up /\ hand.at = "check"
    /\ \/ MaySend(hand.id) /\ hand' = [hand EXCEPT !.at = "send"] /\ UNCHANGED faults
       \/ hand.id \in sent /\ hand' = [hand EXCEPT !.at = "settle"] /\ UNCHANGED faults
       \/ Fault /\ hand' = NoHand
    /\ UNCHANGED <<setting, owed, queue, dead, sent, posted, batch, up, open, configured, queued, dropped>>

(* Mutant: a command the closed socket could not carry is deleted.         *)
Deferred_Settled == [hand EXCEPT !.at = "settle"]

(* It is left in the queue, hidden for longer.                             *)
Deferred == NoHand

Say(id) == posted' = [posted EXCEPT ![id] = @ + 1]

Unsent == NoHand

(* The socket is looked at once more and used; the send may throw, also    *)
(* when the line went out.                                                 *)
Send ==
    /\ up /\ hand.at = "send"
    /\ \/ ~open /\ hand' = Deferred /\ UNCHANGED <<posted, faults>>
       \/ open /\ Say(hand.id) /\ hand' = [hand EXCEPT !.at = "note"] /\ UNCHANGED faults
       \/ open /\ Fault /\ hand' = Unsent /\ (Say(hand.id) \/ UNCHANGED posted)
    /\ UNCHANGED <<setting, owed, queue, dead, sent, batch, up, open, configured, queued, dropped>>

(* The record: the first one stands.                                       *)
Note ==
    /\ up /\ hand.at = "note"
    /\ \/ sent' = sent \cup {hand.id} /\ hand' = [hand EXCEPT !.at = "settle"] /\ UNCHANGED faults
       \/ sent' \in {sent, sent \cup {hand.id}} /\ hand' = NoHand /\ Fault
    /\ UNCHANGED <<setting, owed, queue, dead, posted, batch, up, open, configured, queued, dropped>>

Settle ==
    /\ up /\ hand.at = "settle"
    /\ \/ queue' = {q \in queue : q.n # hand.n} /\ UNCHANGED faults
       \/ UNCHANGED queue /\ Fault
    /\ hand' = NoHand
    /\ UNCHANGED <<setting, owed, dead, sent, posted, batch, up, open, configured, queued, dropped>>

-----------------------------------------------------------------------------
(* The task and its socket                                                 *)

Close ==
    /\ open /\ Fault /\ open' = FALSE
    /\ UNCHANGED <<setting, owed, queue, dead, sent, posted, batch, hand, up, configured, queued, dropped>>

Open ==
    /\ up /\ ~open /\ open' = TRUE
    /\ UNCHANGED <<setting, owed, queue, dead, sent, posted, batch, hand, up, configured, faults, queued, dropped>>

Crash ==
    /\ up /\ Fault
    /\ up' = FALSE /\ open' = FALSE /\ batch' = {} /\ hand' = NoHand
    /\ UNCHANGED <<setting, owed, queue, dead, sent, posted, configured, queued, dropped>>

(* The configuration is read once, when the task boots.                    *)
Boot ==
    /\ ~up /\ up' = TRUE /\ configured' \in BOOLEAN
    /\ UNCHANGED <<setting, owed, queue, dead, sent, posted, batch, hand, open, faults, queued, dropped>>

Consume == Receive \/ Take \/ Check \/ Send \/ Note \/ Settle

Next ==
    \/ \E id \in Commands : Enqueue(id)
    \/ Reappear \/ Consume
    \/ Close \/ Open \/ Crash \/ Boot

Spec == Init /\ [][Next]_vars

-----------------------------------------------------------------------------
(* Properties                                                              *)

(* A command with a sent record is never posted again, however often it    *)
(* was queued or handed out: the read the dispatch decides on is as old as *)
(* the send only because one consumer works through one command at a time  *)
(* (dispatcher.ts 62-69).                                                  *)
NeverRepeated == [][\A id \in sent : posted'[id] = posted[id]]_vars

=============================================================================
