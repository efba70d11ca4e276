-------------------------------- MODULE Bot --------------------------------
(***************************************************************************)
(* The WhatsApp bot, from a share in the group to the line it answers      *)
(* with: Shares and Outbound in one task.  They share the process, which   *)
(* crashes and boots as one, and the faults; what the handlers queue is    *)
(* what the consumer may find in the queue.                                *)
(***************************************************************************)
EXTENDS Naturals, Sequences, FiniteSets

CONSTANTS
    Messages, SenderOf, SharesOf, Own, Langs, Capped, None, WriteAttempts, Deliveries,  \* of Shares
    MaxReceives, Batch, MaxQueue,                                                      \* of Outbound
    Podium,   \* the command of the podium job
    Plans     \* what is sent and queued, and the faults that may strike

ASSUME MessagesAssumption ==
    /\ Own \in Langs
    /\ \A m \in Messages :
        /\ m \in Nat \ {0}
        /\ SenderOf[m] # None
        /\ SharesOf[m] \in [DOMAIN SharesOf[m] -> Nat] /\ DOMAIN SharesOf[m] \subseteq Langs

VARIABLES
    asked, decl, leads, call, written, reached, moved, lost,            \* of Shares
    setting, owed, queue, dead, sent, posted, batch, hand, queued, dropped,  \* of Outbound
    up, open, configured, faults                                        \* of the task

Acks == {<<"ack", m, 0>> : m \in Messages}
Leaders == {<<"leader", SenderOf[m], SharesOf[m][Own]>> : m \in {n \in Messages : Own \in DOMAIN SharesOf[n]}}
Commands == Acks \cup Leaders \cup {Podium}

S == INSTANCE Shares WITH Starts <- Plans, queued <- written
O == INSTANCE Outbound WITH Starts <- Plans

handlers == <<asked, decl, leads, call, written, reached, moved, lost>>
outbound == <<setting, owed, queue, dead, sent, posted, batch, hand, queued, dropped>>
vars == <<handlers, outbound, up, open, configured, faults>>

Init == \E plan \in Plans : S!InitWith(plan) /\ O!InitWith(plan)

(* A handler runs while the socket is open and the group is configured; a  *)
(* message of another group is ignored.                                    *)
Handle ==
    /\ \E c \in S!Calls :
        \/ open /\ configured /\ S!Deliver(c)
        \/ S!Record(c) \/ S!Look(c) \/ S!Claim(c)
        \/ S!Acknowledge(c) \/ S!Announce(c)
    /\ UNCHANGED <<outbound, open, configured>>

(* What a handler or the podium job wrote is in the queue, once or as      *)
(* often as it was written.                                                *)
Arrive ==
    /\ \E id \in Commands : (id = Podium \/ id \in written) /\ O!Enqueue(id)
    /\ UNCHANGED handlers

Consume == O!Consume /\ UNCHANGED handlers

Deliver == O!Reappear /\ UNCHANGED handlers

Close == O!Close /\ UNCHANGED handlers

Open == O!Open /\ UNCHANGED handlers

Crash == S!Crash /\ O!Crash

Boot == S!Boot /\ O!Boot

Works == Handle \/ Arrive \/ Consume \/ Deliver \/ Open \/ Boot

Next == Works \/ Close \/ Crash

Spec == Init /\ [][Next]_vars

(* Handlers and the consumer's loop run on, what is written arrives, the   *)
(* queue returns what is not deleted, the client reconnects and the task   *)
(* is started again.  No command is received for ever, so none of them can *)
(* keep the others waiting.                                                *)
FairSpec == Spec /\ WF_vars(Works)

-----------------------------------------------------------------------------
(* Properties of the parts; each is stated where its actions are.          *)

LatestStands == S!LatestStands
ShareIsThanked == S!ShareIsThanked
LeadIsBest == S!LeadIsBest
LeadChangedHands == S!LeadChangedHands
NeverRepeated == O!NeverRepeated

(* Every acknowledgement a handler wrote and every podium queued is posted *)
(* in the end, or is seen in the dead letters, or was of a group no longer *)
(* configured: no closed socket, crash or failed call makes it vanish      *)
(* (ingest.ts 102, dispatcher.ts 124-133).                                 *)
SaidOrSeen ==
    <>[]\A id \in written \cup queued :
        setting.owed[id] > 0 => posted[id] > 0 \/ id \in dead \/ id \in dropped

=============================================================================
