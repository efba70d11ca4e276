------------------------------ MODULE BotProofs ------------------------------
(***************************************************************************)
(* Proofs about the WhatsApp bot (Bot, over Shares and Outbound), for      *)
(* every number of messages, players, shares, commands, faults and         *)
(* restarts.                                                               *)
(***************************************************************************)
EXTENDS Bot, TLAPS

-----------------------------------------------------------------------------
(* The consumer of the queue                                               *)

Receipt(q) == DOMAIN q = {"n", "id", "receives", "flight"} /\ q.id \in Commands

OutboundTypes ==
    /\ posted = [id \in Commands |-> posted[id]]
    /\ sent \subseteq Commands
    /\ \A q \in queue : Receipt(q)
    /\ \A b \in batch : b.id \in Commands
    /\ hand = [at |-> hand.at, n |-> hand.n, id |-> hand.id] /\ hand.id \in Commands

(* What the consumer is about to send has no record: nobody else writes    *)
(* one between its check and its send.                                     *)
SendsUnsent == hand.at = "send" => hand.id \notin sent

OutboundInv == OutboundTypes /\ SendsUnsent

LEMMA NoHandIsOne == O!NoHand.id \in Commands /\ O!NoHand.at = "idle"
<1>1. Podium \in Commands
  BY DEF Commands
<1>2. (CHOOSE id \in Commands : TRUE) \in Commands
  BY <1>1
<1> QED
  BY <1>2 DEF O!NoHand

LEMMA OutboundInit == Init => OutboundInv
<1> SUFFICES ASSUME NEW plan \in Plans, O!InitWith(plan) PROVE OutboundInv
  BY DEF Init
<1>1. hand = O!NoHand /\ sent = {} /\ queue = {} /\ batch = {} /\ posted = [id \in Commands |-> 0]
  BY DEF O!InitWith
<1>2. hand = [at |-> hand.at, n |-> hand.n, id |-> hand.id]
  BY <1>1 DEF O!NoHand
<1> QED
  BY <1>1, <1>2, NoHandIsOne DEF OutboundInv, OutboundTypes, SendsUnsent

LEMMA OutboundStep == OutboundInv /\ [Next]_vars => OutboundInv'
<1> SUFFICES ASSUME OutboundInv, [Next]_vars PROVE OutboundInv'
  OBVIOUS
<1> USE DEF OutboundInv, OutboundTypes, SendsUnsent
<1>1. O!NoHand.id \in Commands /\ O!NoHand.at = "idle"
      /\ O!NoHand = [at |-> O!NoHand.at, n |-> O!NoHand.n, id |-> O!NoHand.id]
  BY NoHandIsOne DEF O!NoHand
<1>2. CASE Handle
  BY <1>2 DEF Handle, outbound
<1>3. CASE Arrive
  <2>1. PICK id \in Commands : queue' = queue \cup {[n |-> O!Free, id |-> id, receives |-> 0, flight |-> FALSE]}
    BY <1>3 DEF Arrive, O!Enqueue
  <2>2. Receipt([n |-> O!Free, id |-> id, receives |-> 0, flight |-> FALSE])
    BY DEF Receipt
  <2> QED
    BY <1>3, <2>1, <2>2 DEF Arrive, O!Enqueue, O!task
<1>4. CASE O!Receive
  <2>1. PICK got : /\ got \subseteq queue
                   /\ queue' = (queue \ got) \cup {[q EXCEPT !.flight = TRUE, !.receives = @ + 1] : q \in got}
                   /\ batch' = {[n |-> q.n, id |-> q.id] : q \in got}
    BY <1>4 DEF O!Receive
  <2> DEFINE out(q) == [q EXCEPT !.flight = TRUE, !.receives = @ + 1]
  <2>2. ASSUME NEW q \in queue
        PROVE  Receipt(out(q))
    <3>1. DOMAIN q = {"n", "id", "receives", "flight"} /\ q.id \in Commands
      BY DEF Receipt
    <3>2. DOMAIN out(q) = {"n", "id", "receives", "flight"} /\ out(q).id = q.id
      BY <3>1
    <3> QED
      BY <3>1, <3>2 DEF Receipt
  <2>3. \A q \in queue' : Receipt(q)
    <3>1. ASSUME NEW q \in queue'
          PROVE  q \in queue \/ \E x \in queue : q = out(x)
      BY <2>1
    <3> HIDE DEF out
    <3> QED
      BY <2>2, <3>1
  <2>4. \A b \in batch' : b.id \in Commands
    <3>1. ASSUME NEW b \in batch'
          PROVE  \E x \in queue : b = [n |-> x.n, id |-> x.id]
      BY <2>1
    <3>2. \A x \in queue : [n |-> x.n, id |-> x.id].id \in Commands
      BY DEF Receipt
    <3> QED
      BY <3>1, <3>2
  <2> QED
    BY <1>4, <2>3, <2>4 DEF O!Receive
<1>5. CASE O!Take
  BY <1>5 DEF O!Take
<1>6. CASE O!Check
  BY <1>1, <1>6 DEF O!Check, O!MaySend
<1>7. CASE O!Send
  BY <1>1, <1>7 DEF O!Send, O!Deferred, O!Unsent, O!Say
<1>8. CASE O!Note
  BY <1>1, <1>8 DEF O!Note
<1>9. CASE O!Settle
  BY <1>1, <1>9 DEF O!Settle
<1>10. CASE Deliver
  <2>1. ASSUME NEW q \in queue
        PROVE  Receipt([q EXCEPT !.flight = FALSE])
    <3>1. DOMAIN q = {"n", "id", "receives", "flight"} /\ q.id \in Commands
      BY DEF Receipt
    <3> QED
      BY <3>1 DEF Receipt
  <2>2. \A q \in queue' : Receipt(q)
    <3>1. ASSUME NEW q \in queue'
          PROVE  q \in queue \/ \E x \in queue : q = [x EXCEPT !.flight = FALSE]
      BY <1>10 DEF Deliver, O!Reappear
    <3> QED
      BY <2>1, <3>1
  <2> QED
    BY <1>10, <2>2 DEF Deliver, O!Reappear, O!task
<1>11. CASE Close
  BY <1>11 DEF Close, O!Close
<1>12. CASE Open
  BY <1>12 DEF Open, O!Open
<1>13. CASE Crash
  BY <1>1, <1>13 DEF Crash, O!Crash
<1>14. CASE Boot
  BY <1>14 DEF Boot, O!Boot
<1>15. CASE UNCHANGED vars
  BY <1>15 DEF vars, outbound
<1> QED
  BY <1>2, <1>3, <1>4, <1>5, <1>6, <1>7, <1>8, <1>9, <1>10, <1>11, <1>12, <1>13, <1>14, <1>15
     DEF Next, Works, Consume, O!Consume

(* Only the consumer posts, and what it posts has no record.               *)
LEMMA PostsUnsent ==
    ASSUME OutboundInv, [Next]_vars, NEW id \in sent
    PROVE  posted'[id] = posted[id]
<1>1. CASE O!Send
  <2>1. hand.at = "send" /\ hand.id # id
    BY <1>1 DEF O!Send, OutboundInv, SendsUnsent
  <2>2. id \in Commands
    BY DEF OutboundInv, OutboundTypes
  <2> QED
    BY <1>1, <2>1, <2>2 DEF O!Send, O!Say, OutboundInv, OutboundTypes
<1>2. CASE ~O!Send
  BY <1>2 DEF Next, Works, Handle, outbound, Arrive, O!Enqueue, Consume, O!Consume, O!Receive, O!Take, O!Check,
              O!Note, O!Settle, Deliver, O!Reappear, Close, O!Close, Open, O!Open, Crash, O!Crash, Boot, O!Boot, vars
<1> QED
  BY <1>1, <1>2

(* A command with a sent record is never posted again, however often it is *)
(* queued, handed out, deferred or interrupted: the record is read before  *)
(* and written after each send, and one consumer is at one command at a    *)
(* time (dispatcher.ts dispatch).                                          *)
THEOREM NothingIsRepeated == Spec => NeverRepeated
<1>1. OutboundInv /\ [Next]_vars => [\A id \in sent : posted'[id] = posted[id]]_(O!vars)
  BY PostsUnsent
<1> QED
  BY OutboundInit, OutboundStep, <1>1, PTL DEF Spec, NeverRepeated, O!NeverRepeated

-----------------------------------------------------------------------------
(* The handlers: what is always so of one ingestion, and of the rows       *)

Fields == {"pc", "live", "todo", "lang", "tries", "seen", "thank", "news", "failed"}
Places == {"unborn", "record", "look", "claim", "ack", "news", "done", "dead"}

(* A call is at a share its message has, claims only what can lead, and    *)
(* has nobody left to thank once it is past its acknowledgement.           *)
Fit(c, r) ==
    /\ DOMAIN r = Fields
    /\ r.pc \in Places
    /\ r.tries \in Nat
    /\ r.todo \subseteq DOMAIN SharesOf[c[1]]
    /\ r.pc \in {"record", "look", "claim"} => r.lang \in DOMAIN SharesOf[c[1]]
    /\ r.pc \in {"look", "claim"} => r.lang = Own /\ SharesOf[c[1]][Own] # Capped
    /\ r.pc \in {"news", "done"} => ~(r.thank /\ r.live)

LeadRows == [who : S!Players \cup {None}, score : Nat]

HandlerTypes ==
    /\ call = [c \in S!Calls |-> call[c]]
    /\ \A c \in S!Calls : Fit(c, call[c])
    /\ decl = [k \in S!Players \X Langs |-> decl[k]]
    /\ \A k \in S!Players \X Langs : decl[k].msg \in Nat /\ decl[k].score \in Nat
    /\ leads \in Seq(LeadRows) /\ Len(leads) > 0
    /\ reached \subseteq Messages \X Langs
    /\ moved \subseteq S!Calls \X Langs

(* Where a call goes after a step: what it carries along, and to which     *)
(* place.                                                                  *)
Onto(r, n) ==
    /\ DOMAIN n = Fields
    /\ n.live = r.live /\ n.thank = r.thank /\ n.news = r.news /\ n.failed = r.failed
    /\ n.todo \subseteq r.todo /\ n.tries = 0
    /\ \/ n.pc = "record" /\ n.lang \in r.todo
       \/ n.pc \in {"ack", "news", "done"} /\ (n.pc # "ack" => ~(r.thank /\ r.live))

LEMMA OnwardGoes ==
    ASSUME NEW r, DOMAIN r = Fields, NEW n \in S!Onward(r)
    PROVE  Onto(r, n)
<1>1. CASE r.todo # {}
  <2>1. PICK l \in r.todo : n = [r EXCEPT !.pc = "record", !.tries = 0, !.seen = S!NoLead, !.lang = l, !.todo = @ \ {l}]
    BY <1>1 DEF S!Onward
  <2>2. /\ DOMAIN n = Fields
        /\ n.live = r.live /\ n.thank = r.thank /\ n.news = r.news /\ n.failed = r.failed
        /\ n.todo = r.todo \ {l} /\ n.tries = 0 /\ n.pc = "record" /\ n.lang = l
    BY <2>1 DEF Fields
  <2> QED
    BY <2>2 DEF Onto
<1>2. CASE r.todo = {}
  <2> DEFINE at == IF r.thank /\ r.live THEN "ack" ELSE IF r.news # {} THEN "news" ELSE "done"
  <2>1. n = [r EXCEPT !.pc = at, !.tries = 0, !.seen = S!NoLead, !.lang = Own]
    BY <1>2 DEF S!Onward
  <2>2. at \in {"ack", "news", "done"} /\ (at # "ack" => ~(r.thank /\ r.live))
    OBVIOUS
  <2> HIDE DEF at
  <2>3. /\ DOMAIN n = Fields
        /\ n.live = r.live /\ n.thank = r.thank /\ n.news = r.news /\ n.failed = r.failed
        /\ n.todo = r.todo /\ n.tries = 0 /\ n.pc = at
    BY <2>1 DEF Fields
  <2> QED
    BY <2>2, <2>3 DEF Onto
<1> QED
  BY <1>1, <1>2

(* A step that takes call c to r leaves the other calls alone.             *)
Turns(c, n) == call' = [call EXCEPT ![c] = n]

LEMMA CallParts ==
    ASSUME MessagesAssumption, NEW c \in S!Calls
    PROVE  /\ c[1] \in Messages /\ c[1] \in Nat \ {0} /\ SenderOf[c[1]] \in S!Players /\ SenderOf[c[1]] # None
           /\ DOMAIN SharesOf[c[1]] \subseteq Langs
           /\ \A l \in DOMAIN SharesOf[c[1]] : SharesOf[c[1]][l] \in Nat
  BY DEF S!Calls, S!Players, MessagesAssumption

(* A call that goes on is a call that fits.                                *)
LEMMA GoesOn ==
    ASSUME NEW c \in S!Calls, NEW r, DOMAIN r = Fields, r.todo \subseteq DOMAIN SharesOf[c[1]], S!Goes(c, r)
    PROVE  \E n : Turns(c, n) /\ Fit(c, n) /\ Onto(r, n)
<1>1. PICK n \in S!Onward(r) : Turns(c, n)
  BY DEF S!Goes, Turns
<1>2. Onto(r, n)
  BY <1>1, OnwardGoes
<1>3. Fit(c, n)
  BY <1>2 DEF Onto, Fit, Places
<1> QED
  BY <1>1, <1>2, <1>3

-----------------------------------------------------------------------------
(* The steps of a handler, as far as the invariants below tell them apart  *)

Carries(c, n) ==
    /\ n.live = call[c].live
    /\ call[c].thank => n.thank
    /\ call[c].failed => n.failed
    /\ n.news = call[c].news
    /\ n.pc # "unborn"

LEMMA DeliverStep ==
    ASSUME HandlerTypes, MessagesAssumption, NEW c \in S!Calls, S!Deliver(c)
    PROVE  \E n : /\ Turns(c, n) /\ Fit(c, n)
                  /\ call[c].pc = "unborn"
                  /\ n.tries = 0 /\ n.thank = FALSE /\ n.news = {} /\ n.pc \in {"record", "ack", "news", "done"}
<1>1. PICK live \in BOOLEAN : S!Goes(c, [S!Unborn EXCEPT !.live = live, !.todo = DOMAIN SharesOf[c[1]]])
  BY DEF S!Deliver
<1> DEFINE r == [S!Unborn EXCEPT !.live = live, !.todo = DOMAIN SharesOf[c[1]]]
<1>2. DOMAIN r = Fields /\ r.todo = DOMAIN SharesOf[c[1]] /\ r.thank = FALSE /\ r.news = {} /\ r.failed = FALSE
  BY DEF S!Unborn, Fields
<1>3. S!Goes(c, r)
  BY <1>1
<1>4. call[c].pc = "unborn"
  BY DEF S!Deliver, S!Unborn
<1> HIDE DEF r
<1>5. PICK n : Turns(c, n) /\ Fit(c, n) /\ Onto(r, n)
  BY <1>2, <1>3, GoesOn
<1> QED
  BY <1>2, <1>4, <1>5 DEF Onto

(* What an answered record makes of its call.                              *)
LEMMA AfterRecordGoes ==
    ASSUME HandlerTypes, NEW c \in S!Calls, call[c].pc = "record",
           NEW changed \in BOOLEAN, S!AfterRecord(c, changed)
    PROVE  \E n : /\ Turns(c, n) /\ Fit(c, n) /\ Carries(c, n)
                  /\ changed => n.thank
                  /\ changed /\ S!Claims(c) => n.pc = "look" /\ n.lang = Own
<1> DEFINE then == [call[c] EXCEPT !.tries = 0, !.thank = @ \/ changed]
<1>1. Fit(c, call[c])
  BY DEF HandlerTypes
<1>2. DOMAIN call[c] = Fields
  BY <1>1 DEF Fit
<1>3. /\ DOMAIN then = Fields /\ then.thank = (call[c].thank \/ changed) /\ then.tries = 0
      /\ then.live = call[c].live /\ then.failed = call[c].failed /\ then.news = call[c].news
      /\ then.todo = call[c].todo /\ then.lang = call[c].lang
  BY <1>2 DEF Fields
<1>4. CASE changed /\ S!Claims(c)
  <2> DEFINE n == [then EXCEPT !.pc = "look"]
  <2>1. /\ DOMAIN n = Fields /\ n.thank = then.thank /\ n.tries = 0 /\ n.pc = "look"
        /\ n.live = then.live /\ n.failed = then.failed /\ n.news = then.news
        /\ n.todo = then.todo /\ n.lang = then.lang
    <3> HIDE DEF then
    <3> QED
      BY <1>3 DEF Fields
  <2>2. call' = [call EXCEPT ![c] = n]
    BY <1>4 DEF S!AfterRecord
  <2> HIDE DEF n, then
  <2>3. n.lang = Own /\ SharesOf[c[1]][Own] # Capped /\ Own \in DOMAIN SharesOf[c[1]]
    BY <1>1, <1>3, <1>4, <2>1 DEF S!Claims, S!ScoreOf, Fit
  <2>4. Fit(c, n)
    BY <1>1, <1>3, <2>1, <2>3 DEF Fit, Places
  <2> QED
    BY <1>3, <2>1, <2>2, <2>3, <2>4 DEF Turns, Carries
<1>5. CASE ~(changed /\ S!Claims(c))
  <2>1. S!Goes(c, then)
    BY <1>5 DEF S!AfterRecord
  <2> HIDE DEF then
  <2>2. then.todo \subseteq DOMAIN SharesOf[c[1]]
    BY <1>1, <1>3 DEF Fit
  <2>3. PICK n : Turns(c, n) /\ Fit(c, n) /\ Onto(then, n)
    BY <1>3, <2>1, <2>2, GoesOn
  <2> QED
    BY <1>3, <1>5, <2>3 DEF Onto, Carries
<1> QED
  BY <1>4, <1>5

(* The three ways a record ends.                                           *)
Written(c, n) ==
    /\ S!Supersedes(c) /\ S!WriteRow(c) /\ lost' = lost
    /\ S!Changes(c) => n.thank
    /\ S!Changes(c) /\ S!Claims(c) => n.pc = "look" /\ n.lang = Own

Declined(c, n) ==
    /\ ~S!Supersedes(c) /\ S!Refused(c)
    /\ lost \subseteq lost' /\ (S!Overtaken(c) => S!ScoreOf(c) \in lost')
    /\ S!OwnEarlierAttempt(c) => n.thank
    /\ S!OwnEarlierAttempt(c) /\ S!Claims(c) => n.pc = "look" /\ n.lang = Own

Thrown(c, n) ==
    /\ \/ S!Supersedes(c) /\ S!WriteRow(c)
       \/ ~S!Supersedes(c) /\ S!Refused(c)
       \/ UNCHANGED <<decl, reached, moved>>
    /\ \/ n.pc = "record" /\ n.lang = call[c].lang /\ n.tries > 0 /\ lost' = lost
       \/ n.failed /\ lost' = lost \cup {S!ScoreOf(c)}

LEMMA RecordStep ==
    ASSUME HandlerTypes, NEW c \in S!Calls, S!Record(c)
    PROVE  \E n : /\ Turns(c, n) /\ Fit(c, n) /\ Carries(c, n)
                  /\ Written(c, n) \/ Declined(c, n) \/ Thrown(c, n)
<1>1. call[c].pc = "record" /\ Fit(c, call[c])
  BY DEF S!Record, HandlerTypes
<1>2. CASE S!Supersedes(c) /\ S!WriteRow(c) /\ S!AfterRecord(c, S!Changes(c)) /\ UNCHANGED lost
  <2>1. S!Changes(c) \in BOOLEAN
    BY DEF S!Changes
  <2>2. PICK n : /\ Turns(c, n) /\ Fit(c, n) /\ Carries(c, n)
                 /\ S!Changes(c) => n.thank
                 /\ S!Changes(c) /\ S!Claims(c) => n.pc = "look" /\ n.lang = Own
    BY <1>1, <1>2, <2>1, AfterRecordGoes
  <2> QED
    BY <1>2, <2>2 DEF Written
<1>3. CASE ~S!Supersedes(c) /\ S!Refused(c) /\ S!AfterRecord(c, S!OwnEarlierAttempt(c))
           /\ lost' = IF S!Overtaken(c) THEN lost \cup {S!ScoreOf(c)} ELSE lost
  <2>1. S!OwnEarlierAttempt(c) \in BOOLEAN
    BY DEF S!OwnEarlierAttempt
  <2>2. PICK n : /\ Turns(c, n) /\ Fit(c, n) /\ Carries(c, n)
                 /\ S!OwnEarlierAttempt(c) => n.thank
                 /\ S!OwnEarlierAttempt(c) /\ S!Claims(c) => n.pc = "look" /\ n.lang = Own
    BY <1>1, <1>3, <2>1, AfterRecordGoes
  <2> QED
    BY <1>3, <2>2 DEF Declined
<1>4. CASE S!RecordThrows(c)
  <2>1. \/ S!Supersedes(c) /\ S!WriteRow(c)
        \/ ~S!Supersedes(c) /\ S!Refused(c)
        \/ UNCHANGED <<decl, reached, moved>>
    BY <1>4 DEF S!RecordThrows
  <2>2. CASE call' = [call EXCEPT ![c].tries = @ + 1] /\ UNCHANGED lost
    <3> DEFINE n == [call[c] EXCEPT !.tries = @ + 1]
    <3>1. Turns(c, n)
      BY <2>2 DEF Turns
    <3>2. /\ DOMAIN n = Fields /\ n.thank = call[c].thank /\ n.tries = call[c].tries + 1 /\ n.pc = "record"
          /\ n.live = call[c].live /\ n.failed = call[c].failed /\ n.news = call[c].news
          /\ n.todo = call[c].todo /\ n.lang = call[c].lang
      BY <1>1 DEF Fit, Fields
    <3> HIDE DEF n
    <3>3. Fit(c, n) /\ n.tries > 0
      BY <1>1, <3>2 DEF Fit, Places
    <3> QED
      BY <2>1, <2>2, <3>1, <3>2, <3>3 DEF Thrown, Carries
  <2>3. CASE S!Goes(c, [call[c] EXCEPT !.failed = TRUE]) /\ lost' = lost \cup {S!ScoreOf(c)}
    <3> DEFINE r == [call[c] EXCEPT !.failed = TRUE]
    <3>1. /\ DOMAIN r = Fields /\ r.thank = call[c].thank /\ r.live = call[c].live
          /\ r.failed = TRUE /\ r.news = call[c].news /\ r.todo = call[c].todo
      BY <1>1 DEF Fit, Fields
    <3>2. S!Goes(c, r)
      BY <2>3
    <3> HIDE DEF r
    <3>3. PICK n : Turns(c, n) /\ Fit(c, n) /\ Onto(r, n)
      BY <1>1, <3>1, <3>2, GoesOn DEF Fit
    <3> QED
      BY <2>1, <2>3, <3>1, <3>3 DEF Thrown, Carries, Onto
  <2> QED
    BY <1>4, <2>2, <2>3 DEF S!RecordThrows
<1> QED
  BY <1>2, <1>3, <1>4 DEF S!Record, S!RecordAnswered

(* A call that leaves its step as it came carries everything along.        *)
LEMMA GoesAsItIs ==
    ASSUME HandlerTypes, NEW c \in S!Calls, S!Goes(c, call[c])
    PROVE  \E n : Turns(c, n) /\ Fit(c, n) /\ Carries(c, n)
<1>1. DOMAIN call[c] = Fields /\ call[c].todo \subseteq DOMAIN SharesOf[c[1]]
  BY DEF HandlerTypes, Fit
<1>2. PICK n : Turns(c, n) /\ Fit(c, n) /\ Onto(call[c], n)
  BY <1>1, GoesOn
<1> QED
  BY <1>2 DEF Onto, Carries

GivenUp(c) == lost' = lost \cup {S!ScoreOf(c)}

(* A row it found at least as good, at some time.                          *)
Beaten(c) ==
    /\ lost' = lost
    /\ \E i \in 1..Len(leads) : leads[i].who # None /\ leads[i].score <= S!ScoreOf(c)

LEMMA LookStep ==
    ASSUME HandlerTypes, NEW c \in S!Calls, S!Look(c)
    PROVE  /\ call[c].pc = "look"
           /\ \E n : /\ Turns(c, n) /\ Fit(c, n) /\ Carries(c, n)
                     /\ \/ n.pc = "claim" /\ n.lang = Own /\ lost' = lost
                        \/ Beaten(c)
                        \/ GivenUp(c)
<1>1. call[c].pc = "look" /\ Fit(c, call[c])
  BY DEF S!Look, HandlerTypes
<1>2. CASE S!ClaimThrows(c)
  BY <1>1, <1>2, GoesAsItIs DEF S!ClaimThrows, GivenUp
<1>3. ASSUME NEW i \in 1..Len(leads), UNCHANGED <<faults, lost>>,
             IF leads[i].who # None /\ leads[i].score <= S!ScoreOf(c)
             THEN S!Goes(c, call[c])
             ELSE call' = [call EXCEPT ![c].seen = leads[i], ![c].pc = "claim"]
      PROVE  \E n : /\ Turns(c, n) /\ Fit(c, n) /\ Carries(c, n)
                    /\ \/ n.pc = "claim" /\ n.lang = Own /\ lost' = lost
                       \/ Beaten(c)
  <2>1. CASE leads[i].who # None /\ leads[i].score <= S!ScoreOf(c)
    BY <1>3, <2>1, GoesAsItIs DEF Beaten
  <2>2. CASE ~(leads[i].who # None /\ leads[i].score <= S!ScoreOf(c))
    <3> DEFINE n == [call[c] EXCEPT !.seen = leads[i], !.pc = "claim"]
    <3>1. call' = [call EXCEPT ![c].seen = leads[i], ![c].pc = "claim"]
      BY <1>3, <2>2
    <3>2. call = [d \in S!Calls |-> call[d]]
      BY DEF HandlerTypes
    <3>3. Turns(c, n)
      BY <3>1, <3>2 DEF Turns
    <3>4. /\ DOMAIN n = Fields /\ n.thank = call[c].thank /\ n.tries = call[c].tries /\ n.pc = "claim"
          /\ n.live = call[c].live /\ n.failed = call[c].failed /\ n.news = call[c].news
          /\ n.todo = call[c].todo /\ n.lang = call[c].lang
      BY <1>1 DEF Fit, Fields
    <3> HIDE DEF n
    <3>5. Fit(c, n)
      BY <1>1, <3>4 DEF Fit, Places
    <3> QED
      BY <1>1, <1>3, <3>3, <3>4, <3>5 DEF Carries, Fit
  <2> QED
    BY <2>1, <2>2
<1> QED
  BY <1>1, <1>2, <1>3 DEF S!Look

(* The claim: the row displaced and by whom, and what is said of it.       *)
Led(c, n) ==
    /\ S!MayLead(c) /\ leads' = Append(leads, S!LeadRow(c)) /\ lost' = lost
    /\ \/ n.news = call[c].news
       \/ S!TookLead(c) /\ n.news = call[c].news \cup {S!Leader(SenderOf[c[1]], S!ScoreOf(c))}

LEMMA ClaimStep ==
    ASSUME HandlerTypes, NEW c \in S!Calls, S!Claim(c)
    PROVE  /\ call[c].pc = "claim"
           /\ \E n : /\ Turns(c, n) /\ Fit(c, n)
                     /\ n.live = call[c].live /\ n.thank = call[c].thank /\ n.failed = call[c].failed
                     /\ n.pc # "unborn"
                     /\ \/ Led(c, n)
                        \/ n.news = call[c].news /\ leads' = leads /\ lost' = lost /\ ~S!MayLead(c)
                        \/ n.news = call[c].news /\ leads' = leads /\ GivenUp(c)
<1>1. call[c].pc = "claim" /\ Fit(c, call[c])
  BY DEF S!Claim, HandlerTypes
<1>2. DOMAIN call[c] = Fields /\ call[c].todo \subseteq DOMAIN SharesOf[c[1]]
  BY <1>1 DEF Fit
<1> DEFINE said == IF S!TookLead(c) /\ call[c].live
                   THEN call[c].news \cup {S!Leader(SenderOf[c[1]], S!ScoreOf(c))} ELSE call[c].news
           r == [call[c] EXCEPT !.news = said]
<1>3. CASE S!MayLead(c) /\ leads' = Append(leads, S!LeadRow(c)) /\ S!Goes(c, r) /\ UNCHANGED <<faults, lost>>
  <2>1. /\ DOMAIN r = Fields /\ r.todo = call[c].todo /\ r.live = call[c].live
        /\ r.thank = call[c].thank /\ r.failed = call[c].failed /\ r.news = said
    BY <1>2 DEF Fields
  <2>2. S!Goes(c, r)
    BY <1>3
  <2>3. said = call[c].news \/ (S!TookLead(c) /\ said = call[c].news \cup {S!Leader(SenderOf[c[1]], S!ScoreOf(c))})
    OBVIOUS
  <2> HIDE DEF r, said
  <2>4. PICK n : Turns(c, n) /\ Fit(c, n) /\ Onto(r, n)
    BY <1>2, <2>1, <2>2, GoesOn
  <2> QED
    BY <1>1, <1>3, <2>1, <2>3, <2>4 DEF Onto, Led
<1>4. ASSUME S!Goes(c, call[c])
      PROVE  \E n : /\ Turns(c, n) /\ Fit(c, n) /\ n.news = call[c].news
                    /\ n.live = call[c].live /\ n.thank = call[c].thank /\ n.failed = call[c].failed
                    /\ n.pc # "unborn"
  <2>1. PICK n : Turns(c, n) /\ Fit(c, n) /\ Onto(call[c], n)
    BY <1>2, <1>4, GoesOn
  <2> QED
    BY <2>1 DEF Onto
<1>5. CASE ~S!MayLead(c) /\ S!Goes(c, call[c]) /\ UNCHANGED <<leads, faults, lost>>
  BY <1>1, <1>4, <1>5
<1>6. CASE S!MayLead(c) /\ leads' = Append(leads, S!LeadRow(c)) /\ S!Goes(c, call[c]) /\ UNCHANGED lost
  BY <1>1, <1>4, <1>6 DEF Led
<1>7. CASE S!ClaimThrows(c) /\ UNCHANGED leads
  BY <1>1, <1>4, <1>7 DEF S!ClaimThrows, GivenUp
<1> QED
  BY <1>3, <1>5, <1>6, <1>7 DEF S!Claim

(* What is said is what was to be said.                                    *)
Says(c, n) ==
    /\ n.live = call[c].live
    /\ call[c].failed => n.failed
    /\ n.news \subseteq call[c].news
    /\ written \subseteq written'
    /\ written' \subseteq written \cup call[c].news \cup {S!Ack(c[1])}
    /\ call[c].thank => n.thank \/ n.failed \/ S!Ack(c[1]) \in written'
    /\ n.pc # "unborn"

LEMMA Enqueued ==
    ASSUME HandlerTypes, NEW c \in S!Calls, call[c].pc \in {"ack", "news"}, NEW id, NEW then,
           S!Enqueues(c, id, then),
           DOMAIN then = Fields, then.todo = call[c].todo, then.live = call[c].live, then.failed = call[c].failed
    PROVE  \E n : /\ Turns(c, n) /\ Fit(c, n) /\ n.live = call[c].live /\ n.pc # "unborn"
                  /\ call[c].failed => n.failed
                  /\ n.thank = call[c].thank \/ n.thank = then.thank
                  /\ n.thank = call[c].thank \/ n.failed \/ id \in written'
                  /\ n.news = call[c].news \/ n.news = then.news
                  /\ written' \in {written, written \cup {id}}
<1>1. Fit(c, call[c]) /\ DOMAIN call[c] = Fields /\ call[c].todo \subseteq DOMAIN SharesOf[c[1]]
  BY DEF HandlerTypes, Fit
<1>2. CASE written' = written \cup {id} /\ S!Goes(c, then)
  <2>1. PICK n : Turns(c, n) /\ Fit(c, n) /\ Onto(then, n)
    BY <1>1, <1>2, GoesOn
  <2> QED
    BY <1>2, <2>1 DEF Onto
<1>3. CASE written' \in {written, written \cup {id}} /\ call' = [call EXCEPT ![c].tries = @ + 1]
  <2> DEFINE n == [call[c] EXCEPT !.tries = @ + 1]
  <2>1. Turns(c, n)
    BY <1>3 DEF Turns
  <2>2. /\ DOMAIN n = Fields /\ n.thank = call[c].thank /\ n.tries = call[c].tries + 1 /\ n.pc = call[c].pc
        /\ n.live = call[c].live /\ n.failed = call[c].failed /\ n.news = call[c].news
        /\ n.todo = call[c].todo /\ n.lang = call[c].lang
    BY <1>1 DEF Fields
  <2> HIDE DEF n
  <2>3. Fit(c, n)
    BY <1>1, <2>2 DEF Fit, Places
  <2> QED
    BY <1>3, <2>1, <2>2, <2>3
<1>4. CASE written' \in {written, written \cup {id}} /\ S!Goes(c, [then EXCEPT !.failed = TRUE])
  <2> DEFINE r == [then EXCEPT !.failed = TRUE]
  <2>1. /\ DOMAIN r = Fields /\ r.todo = then.todo /\ r.live = then.live
        /\ r.thank = then.thank /\ r.failed = TRUE /\ r.news = then.news
    BY DEF Fields
  <2>2. S!Goes(c, r)
    BY <1>4
  <2> HIDE DEF r
  <2>3. PICK n : Turns(c, n) /\ Fit(c, n) /\ Onto(r, n)
    BY <1>1, <2>1, <2>2, GoesOn
  <2> QED
    BY <1>4, <2>1, <2>3 DEF Onto
<1> QED
  BY <1>2, <1>3, <1>4 DEF S!Enqueues

LEMMA SayStep ==
    ASSUME HandlerTypes, NEW c \in S!Calls, S!Acknowledge(c) \/ S!Announce(c)
    PROVE  /\ call[c].pc \in {"ack", "news"}
           /\ \E n : Turns(c, n) /\ Fit(c, n) /\ Says(c, n)
<1>1. Fit(c, call[c]) /\ DOMAIN call[c] = Fields
  BY DEF HandlerTypes, Fit
<1>2. CASE S!Acknowledge(c)
  <2> DEFINE then == [call[c] EXCEPT !.thank = FALSE]
  <2>1. /\ DOMAIN then = Fields /\ then.todo = call[c].todo /\ then.live = call[c].live
        /\ then.failed = call[c].failed /\ then.news = call[c].news
    BY <1>1 DEF Fields
  <2>2. call[c].pc = "ack" /\ S!Enqueues(c, S!Ack(c[1]), then)
    BY <1>2 DEF S!Acknowledge
  <2> HIDE DEF then
  <2>3. PICK n : /\ Turns(c, n) /\ Fit(c, n) /\ n.live = call[c].live /\ n.pc # "unborn"
                 /\ call[c].failed => n.failed
                 /\ n.thank = call[c].thank \/ n.failed \/ S!Ack(c[1]) \in written'
                 /\ n.news = call[c].news \/ n.news = then.news
                 /\ written' \in {written, written \cup {S!Ack(c[1])}}
    BY <2>1, <2>2, Enqueued
  <2> QED
    BY <2>1, <2>2, <2>3 DEF Says
<1>3. CASE S!Announce(c)
  <2>1. PICK id \in call[c].news : S!Enqueues(c, id, [call[c] EXCEPT !.news = @ \ {id}])
    BY <1>3 DEF S!Announce
  <2> DEFINE then == [call[c] EXCEPT !.news = @ \ {id}]
  <2>2. /\ DOMAIN then = Fields /\ then.todo = call[c].todo /\ then.live = call[c].live
        /\ then.failed = call[c].failed /\ then.news = call[c].news \ {id} /\ then.thank = call[c].thank
    BY <1>1 DEF Fields
  <2>3. call[c].pc = "news" /\ S!Enqueues(c, id, then)
    BY <1>3, <2>1 DEF S!Announce
  <2> HIDE DEF then
  <2>4. PICK n : /\ Turns(c, n) /\ Fit(c, n) /\ n.live = call[c].live /\ n.pc # "unborn"
                 /\ call[c].failed => n.failed
                 /\ n.thank = call[c].thank \/ n.thank = then.thank
                 /\ n.news = call[c].news \/ n.news = then.news
                 /\ written' \in {written, written \cup {id}}
    BY <2>2, <2>3, Enqueued
  <2>5. n.news \subseteq call[c].news /\ (call[c].thank => n.thank)
    BY <2>2, <2>4
  <2>6. id \in call[c].news
    OBVIOUS
  <2> QED
    BY <2>3, <2>4, <2>5, <2>6 DEF Says
<1> QED
  BY <1>2, <1>3

-----------------------------------------------------------------------------
(* What is always so of the handlers' state is kept by every step          *)

LEMMA NobodyYet == S!NoLead \in LeadRows /\ S!NoLead.who = None /\ \A c \in S!Calls : Fit(c, S!Unborn)
  BY DEF S!NoLead, LeadRows, S!Unborn, Fit, Fields, Places

LEMMA TurnsFit ==
    ASSUME HandlerTypes, NEW c \in S!Calls, NEW n, Turns(c, n), Fit(c, n)
    PROVE  /\ call' = [d \in S!Calls |-> call'[d]]
           /\ \A d \in S!Calls : Fit(d, call'[d])
           /\ call'[c] = n
           /\ \A d \in S!Calls \ {c} : call'[d] = call[d]
<1>1. call = [d \in S!Calls |-> call[d]] /\ \A d \in S!Calls : Fit(d, call[d])
  BY DEF HandlerTypes
<1>2. \A d \in S!Calls : call'[d] = IF d = c THEN n ELSE call[d]
  BY <1>1 DEF Turns
<1>3. call' = [d \in S!Calls |-> call'[d]]
  BY <1>1 DEF Turns
<1> QED
  BY <1>1, <1>2, <1>3

LEMMA AtAShare ==
    ASSUME HandlerTypes, MessagesAssumption, NEW c \in S!Calls, call[c].pc \in {"record", "look", "claim"}
    PROVE  /\ S!KeyOf(c) = <<SenderOf[c[1]], call[c].lang>> /\ S!KeyOf(c) \in S!Players \X Langs
           /\ call[c].lang \in Langs /\ S!ScoreOf(c) \in Nat
           /\ c[1] \in Messages /\ c[1] \in Nat \ {0}
<1>1. call[c].lang \in DOMAIN SharesOf[c[1]]
  BY DEF HandlerTypes, Fit
<1> QED
  BY <1>1, CallParts DEF S!KeyOf, S!ScoreOf

(* The row a write leaves; the others are as they were.                    *)
LEMMA RowWritten ==
    ASSUME HandlerTypes, MessagesAssumption, NEW c \in S!Calls, call[c].pc = "record", S!WriteRow(c)
    PROVE  /\ decl' = [k \in S!Players \X Langs |-> decl'[k]]
           /\ decl'[S!KeyOf(c)].msg = c[1] /\ decl'[S!KeyOf(c)].score = S!ScoreOf(c) /\ decl'[S!KeyOf(c)].by = c
           /\ \A k \in (S!Players \X Langs) \ {S!KeyOf(c)} : decl'[k] = decl[k]
<1>1. S!KeyOf(c) \in S!Players \X Langs /\ decl = [k \in S!Players \X Langs |-> decl[k]]
  BY AtAShare DEF HandlerTypes
<1> DEFINE row == [msg |-> c[1], score |-> S!ScoreOf(c), by |-> c]
<1>2. decl' = [decl EXCEPT ![S!KeyOf(c)] = row]
  BY DEF S!WriteRow
<1> HIDE DEF row
<1>3. decl' = [k \in S!Players \X Langs |-> decl'[k]] /\ decl'[S!KeyOf(c)] = row
      /\ \A k \in (S!Players \X Langs) \ {S!KeyOf(c)} : decl'[k] = decl[k]
  BY <1>1, <1>2
<1>4. row.msg = c[1] /\ row.score = S!ScoreOf(c) /\ row.by = c
  BY DEF row
<1> QED
  BY <1>3, <1>4

(* A record writes its own row, or none.                                   *)
LEMMA RecordRows ==
    ASSUME HandlerTypes, NEW c \in S!Calls, NEW n, Written(c, n) \/ Declined(c, n) \/ Thrown(c, n)
    PROVE  \/ S!Supersedes(c) /\ S!WriteRow(c)
           \/ ~S!Supersedes(c) /\ S!Refused(c)
           \/ UNCHANGED <<decl, reached, moved>>
  BY DEF Written, Declined, Thrown

HandlersStill == UNCHANGED <<decl, leads, call, written, reached, moved, lost>>

(* Every step is one of a handler, the crash, or leaves them alone.        *)
LEMMA StepKinds ==
    ASSUME [Next]_vars
    PROVE  \/ \E c \in S!Calls : S!Deliver(c) \/ S!Record(c) \/ S!Look(c) \/ S!Claim(c) \/ S!Acknowledge(c) \/ S!Announce(c)
           \/ S!Crash
           \/ HandlersStill
  BY DEF Next, Works, Handle, Arrive, Consume, Deliver, Close, Open, Crash, Boot, S!Boot, S!rows, S!history,
         vars, handlers, HandlersStill

LEMMA TypesInit == Init /\ MessagesAssumption => HandlerTypes
<1> SUFFICES ASSUME NEW plan \in Plans, S!InitWith(plan), MessagesAssumption PROVE HandlerTypes
  BY DEF Init
<1>1. call = [c \in S!Calls |-> S!Unborn] /\ decl = [k \in S!Players \X Langs |-> S!NoRow]
      /\ leads = <<S!NoLead>> /\ reached = {} /\ moved = {}
  BY DEF S!InitWith
<1>2. \A k \in S!Players \X Langs : decl[k].msg \in Nat /\ decl[k].score \in Nat
  BY <1>1 DEF S!NoRow
<1>3. leads \in Seq(LeadRows) /\ Len(leads) > 0
  BY <1>1, NobodyYet
<1>4. \A c \in S!Calls : Fit(c, call[c])
  BY <1>1, NobodyYet
<1>5. call = [c \in S!Calls |-> call[c]] /\ decl = [k \in S!Players \X Langs |-> decl[k]]
  BY <1>1
<1> QED
  BY <1>1, <1>2, <1>3, <1>4, <1>5 DEF HandlerTypes

LEMMA TypesStep == HandlerTypes /\ MessagesAssumption /\ [Next]_vars => HandlerTypes'
<1> SUFFICES ASSUME HandlerTypes, MessagesAssumption, [Next]_vars PROVE HandlerTypes'
  OBVIOUS
<1>1. ASSUME NEW c \in S!Calls, NEW n, Turns(c, n), Fit(c, n)
      PROVE  call' = [d \in S!Calls |-> call'[d]] /\ \A d \in S!Calls : Fit(d, call'[d])
  BY <1>1, TurnsFit
<1>2. ASSUME NEW c \in S!Calls, S!Deliver(c) \/ S!Look(c) \/ S!Acknowledge(c) \/ S!Announce(c)
      PROVE  HandlerTypes'
  <2>1. UNCHANGED <<decl, leads, reached, moved>>
    BY <1>2 DEF S!Deliver, S!Look, S!Acknowledge, S!Announce, S!rows, S!history
  <2>2. PICK n : Turns(c, n) /\ Fit(c, n)
    BY <1>2, DeliverStep, LookStep, SayStep
  <2> QED
    BY <1>1, <2>1, <2>2 DEF HandlerTypes
<1>3. ASSUME NEW c \in S!Calls, S!Record(c)
      PROVE  HandlerTypes'
  <2>1. PICK n : Turns(c, n) /\ Fit(c, n) /\ (Written(c, n) \/ Declined(c, n) \/ Thrown(c, n))
    BY <1>3, RecordStep
  <2>2. call[c].pc = "record" /\ leads' = leads
    BY <1>3 DEF S!Record
  <2>3. CASE S!WriteRow(c)
    <3>1. /\ decl' = [k \in S!Players \X Langs |-> decl'[k]]
          /\ \A k \in S!Players \X Langs : decl'[k].msg \in Nat /\ decl'[k].score \in Nat
      <4>1. decl'[S!KeyOf(c)].msg = c[1] /\ decl'[S!KeyOf(c)].score = S!ScoreOf(c)
        BY <2>2, <2>3, RowWritten
      <4>2. c[1] \in Nat /\ S!ScoreOf(c) \in Nat
        BY <2>2, AtAShare
      <4>3. \A k \in (S!Players \X Langs) \ {S!KeyOf(c)} : decl'[k] = decl[k]
        BY <2>2, <2>3, RowWritten
      <4>4. decl' = [k \in S!Players \X Langs |-> decl'[k]]
        BY <2>2, <2>3, RowWritten
      <4>5. \A k \in S!Players \X Langs : decl[k].msg \in Nat /\ decl[k].score \in Nat
        BY DEF HandlerTypes
      <4> QED
        BY <4>1, <4>2, <4>3, <4>4, <4>5
    <3>2. reached' \subseteq Messages \X Langs /\ moved' \subseteq S!Calls \X Langs
      BY <2>2, <2>3, AtAShare DEF HandlerTypes, S!WriteRow
    <3> QED
      BY <1>1, <2>1, <2>2, <3>1, <3>2 DEF HandlerTypes
  <2>4. CASE S!Refused(c) \/ UNCHANGED <<decl, reached, moved>>
    <3>1. reached' \subseteq Messages \X Langs /\ UNCHANGED <<decl, moved>>
      BY <2>2, <2>4, AtAShare DEF HandlerTypes, S!Refused
    <3> QED
      BY <1>1, <2>1, <2>2, <3>1 DEF HandlerTypes
  <2> QED
    BY <2>1, <2>3, <2>4, RecordRows
<1>4. ASSUME NEW c \in S!Calls, S!Claim(c)
      PROVE  HandlerTypes'
  <2>1. PICK n : Turns(c, n) /\ Fit(c, n)
    BY <1>4, ClaimStep
  <2>2. call[c].pc = "claim" /\ UNCHANGED <<decl, reached, moved>>
        /\ (leads' = leads \/ leads' = Append(leads, S!LeadRow(c)))
    BY <1>4 DEF S!Claim, S!ClaimThrows
  <2>3. S!LeadRow(c) \in LeadRows
    BY <2>2, AtAShare, CallParts DEF S!LeadRow, LeadRows
  <2>4. leads' \in Seq(LeadRows) /\ Len(leads') > 0
    <3>1. leads \in Seq(LeadRows) /\ Len(leads) > 0
      BY DEF HandlerTypes
    <3>2. CASE leads' = leads
      BY <3>1, <3>2
    <3>3. CASE leads' = Append(leads, S!LeadRow(c))
      BY <2>3, <3>1, <3>3
    <3> QED
      BY <2>2, <3>2, <3>3
  <2> QED
    BY <1>1, <2>1, <2>2, <2>4 DEF HandlerTypes
<1>5. CASE S!Crash
  <2>1. call' = [c \in S!Calls |-> IF S!Running(c) THEN [S!Unborn EXCEPT !.pc = "dead"] ELSE call[c]]
        /\ UNCHANGED <<decl, leads, reached, moved>>
    BY <1>5 DEF S!Crash, S!rows
  <2>2. \A c \in S!Calls : Fit(c, [S!Unborn EXCEPT !.pc = "dead"])
    BY DEF S!Unborn, Fit, Fields, Places
  <2>3. \A c \in S!Calls : Fit(c, call'[c])
    BY <2>1, <2>2 DEF HandlerTypes
  <2>4. call' = [c \in S!Calls |-> call'[c]]
    BY <2>1
  <2> QED
    BY <2>1, <2>3, <2>4 DEF HandlerTypes
<1>6. CASE HandlersStill
  BY <1>6 DEF HandlersStill, HandlerTypes
<1> QED
  BY <1>2, <1>3, <1>4, <1>5, <1>6, StepKinds

-----------------------------------------------------------------------------
(* The declaration that stands is the latest                               *)

(* A row is of a message of its player that reached the table, and no      *)
(* later one of them did.                                                  *)
Stands(k) ==
    /\ decl[k].msg # 0 => SenderOf[decl[k].msg] = k[1] /\ <<decl[k].msg, k[2]>> \in reached
    /\ \A m \in Messages : SenderOf[m] = k[1] /\ <<m, k[2]>> \in reached => m <= decl[k].msg

RowsStand == \A k \in S!Players \X Langs : Stands(k)

RowsInv == HandlerTypes /\ RowsStand

LEMMA RowsInit == Init /\ MessagesAssumption => RowsStand
<1> SUFFICES ASSUME NEW plan \in Plans, S!InitWith(plan), MessagesAssumption, NEW k \in S!Players \X Langs PROVE Stands(k)
  BY DEF Init, RowsStand
<1>1. decl = [x \in S!Players \X Langs |-> S!NoRow] /\ reached = {}
  BY DEF S!InitWith
<1>2. decl[k].msg = 0
  BY <1>1 DEF S!NoRow
<1> QED
  BY <1>1, <1>2 DEF Stands

LEMMA RowsStep == RowsInv /\ MessagesAssumption /\ [Next]_vars => RowsStand'
<1> SUFFICES ASSUME RowsInv, MessagesAssumption, [Next]_vars, NEW k \in S!Players \X Langs PROVE Stands(k)'
  BY DEF RowsStand
<1>1. HandlerTypes /\ Stands(k)
  BY DEF RowsInv, RowsStand
<1>2. decl[k].msg \in Nat /\ \A m \in Messages : m \in Nat
  BY <1>1 DEF HandlerTypes, MessagesAssumption
<1>3. CASE UNCHANGED <<decl, reached>>
  BY <1>1, <1>3 DEF Stands
<1>4. ASSUME NEW c \in S!Calls, S!Record(c)
      PROVE  Stands(k)'
  <2>1. call[c].pc = "record"
    BY <1>4 DEF S!Record
  <2>2. /\ S!KeyOf(c) = <<SenderOf[c[1]], call[c].lang>> /\ S!KeyOf(c) \in S!Players \X Langs
        /\ call[c].lang \in Langs /\ c[1] \in Messages /\ c[1] \in Nat \ {0}
    BY <1>1, <2>1, AtAShare
  <2>3. CASE S!Supersedes(c) /\ S!WriteRow(c)
    <3>1. reached' = reached \cup {<<c[1], call[c].lang>>}
      BY <2>3 DEF S!WriteRow
    <3>2. CASE k = S!KeyOf(c)
      <4>1. decl'[k].msg = c[1]
        BY <1>1, <2>1, <2>3, <3>2, RowWritten
      <4>2. k[1] = SenderOf[c[1]] /\ k[2] = call[c].lang /\ decl[k].msg < c[1]
        BY <2>2, <2>3, <3>2 DEF S!Supersedes
      <4>3. \A m \in Messages : SenderOf[m] = k[1] /\ <<m, k[2]>> \in reached' => m <= c[1]
        BY <1>1, <1>2, <2>2, <3>1, <4>2 DEF Stands
      <4> QED
        BY <2>2, <3>1, <4>1, <4>2, <4>3 DEF Stands
    <3>3. CASE k # S!KeyOf(c)
      <4>1. decl'[k] = decl[k]
        BY <1>1, <2>1, <2>3, <3>3, RowWritten
      <4>2. \A m \in Messages : SenderOf[m] = k[1] /\ <<m, k[2]>> \in reached' => <<m, k[2]>> \in reached
        <5> SUFFICES ASSUME NEW m \in Messages, SenderOf[m] = k[1], <<m, k[2]>> = <<c[1], call[c].lang>> PROVE FALSE
          BY <3>1
        <5>1. m = c[1] /\ k[2] = call[c].lang
          OBVIOUS
        <5>2. k = <<k[1], k[2]>>
          OBVIOUS
        <5> QED
          BY <2>2, <3>3, <5>1, <5>2
      <4> QED
        BY <1>1, <3>1, <4>1, <4>2 DEF Stands
    <3> QED
      BY <3>2, <3>3
  <2>4. CASE ~S!Supersedes(c) /\ S!Refused(c)
    <3>1. reached' = reached \cup {<<c[1], call[c].lang>>} /\ decl' = decl
      BY <2>4 DEF S!Refused
    <3>2. ASSUME NEW m \in Messages, SenderOf[m] = k[1], <<m, k[2]>> = <<c[1], call[c].lang>>
          PROVE  m <= decl[k].msg
      <4>1. m = c[1] /\ k[2] = call[c].lang /\ k = <<k[1], k[2]>>
        BY <3>2
      <4>2. k = S!KeyOf(c)
        BY <2>2, <3>2, <4>1
      <4> QED
        BY <1>2, <2>2, <2>4, <4>1, <4>2 DEF S!Supersedes
    <3> QED
      BY <1>1, <3>1, <3>2 DEF Stands
  <2> QED
    BY <1>3, <1>4, <2>3, <2>4, <1>1, RecordStep, RecordRows
<1>5. ASSUME NEW c \in S!Calls, S!Deliver(c) \/ S!Look(c) \/ S!Claim(c) \/ S!Acknowledge(c) \/ S!Announce(c)
      PROVE  UNCHANGED <<decl, reached>>
  BY <1>5 DEF S!Deliver, S!Look, S!Claim, S!Acknowledge, S!Announce, S!rows, S!history
<1>6. CASE S!Crash
  BY <1>3, <1>6 DEF S!Crash, S!rows
<1>7. CASE HandlersStill
  BY <1>3, <1>7 DEF HandlersStill
<1> QED
  BY <1>3, <1>4, <1>5, <1>6, <1>7, StepKinds

LEMMA RowsLatest == RowsInv /\ MessagesAssumption => LatestStands
<1> SUFFICES ASSUME RowsInv, MessagesAssumption, NEW p \in S!Players, NEW l \in Langs
    PROVE  LET mine == {r[1] : r \in {x \in reached : SenderOf[x[1]] = p /\ x[2] = l}}
           IN decl[<<p, l>>].msg = IF mine = {} THEN 0 ELSE CHOOSE m \in mine : \A n \in mine : n <= m
  BY DEF LatestStands, S!LatestStands
<1> DEFINE mine == {r[1] : r \in {x \in reached : SenderOf[x[1]] = p /\ x[2] = l}}
           top == decl[<<p, l>>].msg
<1>1. reached \subseteq Messages \X Langs /\ top \in Nat /\ \A m \in Messages : m \in Nat \ {0}
  BY DEF RowsInv, HandlerTypes, MessagesAssumption
<1>2. Stands(<<p, l>>)
  BY DEF RowsInv, RowsStand
<1>3. \A m \in mine : m \in Messages /\ SenderOf[m] = p /\ <<m, l>> \in reached
  <2> SUFFICES ASSUME NEW x \in reached, SenderOf[x[1]] = p, x[2] = l
      PROVE  x[1] \in Messages /\ <<x[1], l>> \in reached
    OBVIOUS
  <2>1. x \in Messages \X Langs
    BY <1>1
  <2>2. x[1] \in Messages /\ x = <<x[1], x[2]>>
    BY <2>1
  <2> QED
    BY <2>2
<1>4. \A m \in mine : m <= top
  BY <1>2, <1>3 DEF Stands
<1>5. top # 0 => top \in mine
  <2> SUFFICES ASSUME top # 0 PROVE top \in mine
    OBVIOUS
  <2>1. SenderOf[top] = p /\ <<top, l>> \in reached
    BY <1>2 DEF Stands
  <2>2. <<top, l>> \in {x \in reached : SenderOf[x[1]] = p /\ x[2] = l} /\ <<top, l>>[1] = top
    BY <2>1
  <2> QED
    BY <2>2
<1> HIDE DEF mine, top
<1>6. CASE mine = {}
  BY <1>5, <1>6 DEF mine, top
<1>7. CASE mine # {}
  <2>0. PICK one \in mine : one \in Nat \ {0} /\ one <= top
    BY <1>1, <1>3, <1>4, <1>7
  <2>1. top \in mine
    BY <1>1, <1>5, <2>0
  <2>2. \A m \in mine : (\A n \in mine : n <= m) => m = top
    BY <1>1, <1>3, <1>4, <2>1
  <2>3. (CHOOSE m \in mine : \A n \in mine : n <= m) = top
    BY <1>4, <2>1, <2>2
  <2> QED
    BY <1>7, <2>3 DEF mine, top
<1> QED
  BY <1>6, <1>7

(* The row of a player is the latest of their messages that reached the    *)
(* table, in whatever order and how often they are handled, with writes    *)
(* whose answers were lost (dynamoDeclarationStore.ts record).             *)
THEOREM TheLatestStands == Spec => []LatestStands
<1>1. Init => RowsInv
  BY TypesInit, RowsInit, MessagesAssumption DEF RowsInv
<1>2. RowsInv /\ [Next]_vars => RowsInv'
  BY TypesStep, RowsStep, MessagesAssumption DEF RowsInv
<1>3. RowsInv => LatestStands
  BY RowsLatest, MessagesAssumption
<1> QED
  BY <1>1, <1>2, <1>3, PTL DEF Spec

-----------------------------------------------------------------------------
(* Whoever changed a declaration is thanked                                *)

(* A share that changed a token is in the table, and its call was born.    *)
MovedReached ==
    \A c \in S!Calls, l \in Langs :
        <<c, l>> \in moved => <<c[1], l>> \in reached /\ call[c].pc # "unborn"

(* A call whose change stands remembers to thank, has thanked, gave a      *)
(* write up, died, or is about to try that very record again.              *)
Thanked(c, l) ==
    <<c, l>> \in moved /\ decl[<<SenderOf[c[1]], l>>].by = c =>
        \/ call[c].thank \/ S!Ack(c[1]) \in written
        \/ call[c].failed \/ call[c].pc = "dead"
        \/ call[c].pc = "record" /\ call[c].lang = l /\ call[c].tries > 0

ThanksDue == \A c \in S!Calls, l \in Langs : Thanked(c, l)

ThanksInv == RowsInv /\ MovedReached /\ ThanksDue

(* What a record writes was not in the table before.                       *)
LEMMA FreshWrite ==
    ASSUME ThanksInv, MessagesAssumption, NEW c \in S!Calls, call[c].pc = "record", S!Supersedes(c)
    PROVE  <<c, call[c].lang>> \notin moved
<1>1. HandlerTypes /\ Stands(S!KeyOf(c)) /\ call[c].lang \in Langs /\ c[1] \in Messages
      /\ S!KeyOf(c) = <<SenderOf[c[1]], call[c].lang>> /\ c[1] \in Nat /\ decl[S!KeyOf(c)].msg \in Nat
  BY AtAShare DEF ThanksInv, RowsInv, RowsStand, HandlerTypes
<1>2. decl[S!KeyOf(c)].msg < c[1]
  BY DEF S!Supersedes
<1>3. <<c[1], call[c].lang>> \notin reached
  BY <1>1, <1>2 DEF Stands
<1> QED
  BY <1>1, <1>3 DEF ThanksInv, MovedReached

LEMMA ThanksInit == Init => MovedReached /\ ThanksDue
  BY DEF Init, S!InitWith, MovedReached, ThanksDue, Thanked

LEMMA MovedReachedStep == ThanksInv /\ MessagesAssumption /\ [Next]_vars => MovedReached'
<1> SUFFICES ASSUME ThanksInv, MessagesAssumption, [Next]_vars, NEW d \in S!Calls, NEW l \in Langs, <<d, l>> \in moved'
    PROVE  <<d[1], l>> \in reached' /\ call'[d].pc # "unborn"
  BY DEF MovedReached
<1>1. HandlerTypes /\ (<<d, l>> \in moved => <<d[1], l>> \in reached /\ call[d].pc # "unborn")
  BY DEF ThanksInv, RowsInv, MovedReached
<1>2. ASSUME NEW c \in S!Calls, NEW n, Turns(c, n), Fit(c, n), n.pc # "unborn", UNCHANGED <<reached, moved>>
      PROVE  <<d[1], l>> \in reached' /\ call'[d].pc # "unborn"
  BY <1>1, <1>2, TurnsFit
<1>3. ASSUME NEW c \in S!Calls, S!Deliver(c) \/ S!Look(c) \/ S!Claim(c) \/ S!Acknowledge(c) \/ S!Announce(c)
      PROVE  <<d[1], l>> \in reached' /\ call'[d].pc # "unborn"
  <2>1. UNCHANGED <<reached, moved>>
    BY <1>3 DEF S!Deliver, S!Look, S!Claim, S!Acknowledge, S!Announce, S!history
  <2>2. PICK n : Turns(c, n) /\ Fit(c, n) /\ n.pc # "unborn"
    <3>1. CASE S!Deliver(c)
      BY <1>1, <3>1, DeliverStep
    <3>2. CASE S!Look(c)
      BY <1>1, <3>2, LookStep DEF Carries
    <3>3. CASE S!Claim(c)
      BY <1>1, <3>3, ClaimStep
    <3>4. CASE S!Acknowledge(c) \/ S!Announce(c)
      BY <1>1, <3>4, SayStep DEF Says
    <3> QED
      BY <1>3, <3>1, <3>2, <3>3, <3>4
  <2> QED
    BY <1>2, <2>1, <2>2
<1>4. ASSUME NEW c \in S!Calls, S!Record(c)
      PROVE  <<d[1], l>> \in reached' /\ call'[d].pc # "unborn"
  <2>1. PICK n : Turns(c, n) /\ Fit(c, n) /\ n.pc # "unborn" /\ (Written(c, n) \/ Declined(c, n) \/ Thrown(c, n))
    BY <1>1, <1>4, RecordStep DEF Carries
  <2>2. call'[c].pc # "unborn" /\ (d # c => call'[d] = call[d])
    BY <1>1, <2>1, TurnsFit
  <2>3. reached \subseteq reached'
        /\ (<<d, l>> \in moved \/ (<<d, l>> = <<c, call[c].lang>> /\ reached' = reached \cup {<<c[1], call[c].lang>>}))
    BY <2>1, RecordRows, <1>1 DEF S!WriteRow, S!Refused
  <2> QED
    BY <1>1, <2>2, <2>3
<1>5. CASE S!Crash
  <2>1. UNCHANGED <<reached, moved>>
        /\ call'[d] = IF S!Running(d) THEN [S!Unborn EXCEPT !.pc = "dead"] ELSE call[d]
    BY <1>5 DEF S!Crash
  <2>2. [S!Unborn EXCEPT !.pc = "dead"].pc = "dead"
    BY DEF S!Unborn
  <2> QED
    BY <1>1, <2>1, <2>2
<1>6. CASE HandlersStill
  BY <1>1, <1>6 DEF HandlersStill
<1> QED
  BY <1>3, <1>4, <1>5, <1>6, StepKinds

LEMMA ThanksStep == ThanksInv /\ MessagesAssumption /\ [Next]_vars => ThanksDue'
<1> SUFFICES ASSUME ThanksInv, MessagesAssumption, [Next]_vars, NEW d \in S!Calls, NEW l \in Langs PROVE Thanked(d, l)'
  BY DEF ThanksDue
<1> DEFINE k == <<SenderOf[d[1]], l>>
<1>1. HandlerTypes /\ Thanked(d, l) /\ (<<d, l>> \in moved => call[d].pc # "unborn") /\ k \in S!Players \X Langs
  BY CallParts DEF ThanksInv, RowsInv, ThanksDue, MovedReached
<1>2. ASSUME NEW c \in S!Calls, NEW n, Turns(c, n), Fit(c, n), c # d, written \subseteq written',
             <<d, l>> \in moved' => <<d, l>> \in moved, decl'[k].by = d => decl[k].by = d
      PROVE  Thanked(d, l)'
  BY <1>1, <1>2, TurnsFit DEF Thanked
<1>3. ASSUME NEW n, Turns(d, n), Fit(d, n), UNCHANGED <<decl, moved>>, written \subseteq written',
             call[d].thank => n.thank \/ n.failed \/ S!Ack(d[1]) \in written', call[d].failed => n.failed,
             call[d].pc \notin {"record", "dead"}
      PROVE  Thanked(d, l)'
  <2>1. call'[d] = n
    BY <1>1, <1>3, TurnsFit
  <2> QED
    BY <1>1, <1>3, <2>1 DEF Thanked
<1>4. ASSUME NEW c \in S!Calls, S!Deliver(c)
      PROVE  Thanked(d, l)'
  <2>1. UNCHANGED <<decl, moved, written>>
    BY <1>4 DEF S!Deliver, S!rows, S!history
  <2>2. PICK n : Turns(c, n) /\ Fit(c, n) /\ call[c].pc = "unborn"
    BY <1>1, <1>4, DeliverStep
  <2>3. CASE c = d
    BY <1>1, <2>1, <2>2, <2>3 DEF Thanked
  <2> QED
    BY <1>2, <2>1, <2>2, <2>3
<1>5. ASSUME NEW c \in S!Calls, S!Look(c) \/ S!Claim(c) \/ S!Acknowledge(c) \/ S!Announce(c)
      PROVE  Thanked(d, l)'
  <2>1. UNCHANGED <<decl, moved>> /\ call[c].pc \notin {"record", "dead"}
    BY <1>5 DEF S!Look, S!Claim, S!Acknowledge, S!Announce, S!rows
  <2>2. CASE S!Look(c) \/ S!Claim(c)
    <3>1. written' = written
      BY <2>2 DEF S!Look, S!Claim
    <3>2. PICK n : Turns(c, n) /\ Fit(c, n) /\ (call[c].thank => n.thank) /\ (call[c].failed => n.failed)
      BY <1>1, <2>2, LookStep, ClaimStep DEF Carries
    <3> QED
      BY <1>2, <1>3, <2>1, <3>1, <3>2
  <2>3. CASE S!Acknowledge(c) \/ S!Announce(c)
    <3>1. PICK n : Turns(c, n) /\ Fit(c, n) /\ Says(c, n)
      BY <1>1, <2>3, SayStep
    <3> QED
      BY <1>2, <1>3, <2>1, <3>1 DEF Says
  <2> QED
    BY <1>5, <2>2, <2>3
<1>6. ASSUME NEW c \in S!Calls, S!Record(c)
      PROVE  Thanked(d, l)'
  <2>1. PICK n : Turns(c, n) /\ Fit(c, n) /\ Carries(c, n) /\ (Written(c, n) \/ Declined(c, n) \/ Thrown(c, n))
    BY <1>1, <1>6, RecordStep
  <2>2. call[c].pc = "record" /\ written' = written
    BY <1>6 DEF S!Record
  <2>3. call'[c] = n
    BY <1>1, <2>1, TurnsFit
  <2>4. S!KeyOf(c) = <<SenderOf[c[1]], call[c].lang>>
    BY <1>1, <2>2, AtAShare
  <2>5. CASE c # d
    <3>1. CASE S!WriteRow(c)
      <4>1. <<d, l>> \in moved' => <<d, l>> \in moved
        BY <2>5, <3>1 DEF S!WriteRow
      <4>2. decl'[k].by = d => decl[k].by = d
        BY <1>1, <2>2, <2>5, <3>1, RowWritten
      <4> QED
        BY <1>2, <2>1, <2>2, <2>5, <4>1, <4>2
    <3>2. CASE UNCHANGED <<decl, moved>>
      BY <1>2, <2>1, <2>2, <2>5, <3>2
    <3> QED
      BY <1>1, <2>1, <3>1, <3>2, RecordRows DEF S!Refused
  <2>6. CASE c = d /\ Written(c, n)
    <3>1. CASE l = call[c].lang
      <4>1. <<d, l>> \in moved' => n.thank
        BY <2>2, <2>6, <3>1, FreshWrite DEF Written, S!WriteRow
      <4> QED
        BY <2>3, <2>6, <4>1 DEF Thanked
    <3>2. CASE l # call[c].lang
      <4>1. (<<d, l>> \in moved' => <<d, l>> \in moved) /\ decl'[k] = decl[k]
        BY <1>1, <2>2, <2>4, <2>6, <3>2, RowWritten DEF Written, S!WriteRow
      <4> QED
        BY <1>1, <2>1, <2>2, <2>3, <2>6, <3>2, <4>1 DEF Thanked, Carries
    <3> QED
      BY <3>1, <3>2
  <2>7. CASE c = d /\ Declined(c, n)
    <3>1. UNCHANGED <<decl, moved>> /\ (decl[S!KeyOf(c)].by = c => n.thank)
      BY <2>7 DEF Declined, S!Refused, S!OwnEarlierAttempt
    <3> QED
      BY <1>1, <2>1, <2>2, <2>3, <2>4, <2>7, <3>1 DEF Thanked, Carries
  <2>8. CASE c = d /\ Thrown(c, n)
    <3>1. CASE l = call[c].lang
      BY <2>1, <2>3, <2>8, <3>1 DEF Thanked, Thrown
    <3>2. CASE l # call[c].lang
      <4>1. (<<d, l>> \in moved' => <<d, l>> \in moved) /\ decl'[k] = decl[k]
        BY <1>1, <2>2, <2>4, <2>8, <3>2, RowWritten DEF Thrown, S!WriteRow, S!Refused
      <4> QED
        BY <1>1, <2>1, <2>2, <2>3, <2>8, <3>2, <4>1 DEF Thanked, Carries
    <3> QED
      BY <3>1, <3>2
  <2> QED
    BY <2>1, <2>5, <2>6, <2>7, <2>8
<1>7. CASE S!Crash
  <2>1. UNCHANGED <<decl, moved, written>>
        /\ call'[d] = IF S!Running(d) THEN [S!Unborn EXCEPT !.pc = "dead"] ELSE call[d]
    BY <1>7 DEF S!Crash, S!rows
  <2>2. [S!Unborn EXCEPT !.pc = "dead"].pc = "dead"
    BY DEF S!Unborn
  <2>3. CASE S!Running(d)
    BY <2>1, <2>2, <2>3 DEF Thanked
  <2>4. CASE ~S!Running(d)
    BY <1>1, <2>1, <2>4 DEF Thanked
  <2> QED
    BY <2>3, <2>4
<1>8. CASE HandlersStill
  BY <1>1, <1>8 DEF HandlersStill, Thanked
<1> QED
  BY <1>4, <1>5, <1>6, <1>7, <1>8, StepKinds

LEMMA ThanksHold == ThanksInv => ShareIsThanked
<1> SUFFICES ASSUME ThanksInv, NEW c \in S!Calls, call[c].pc \in {"news", "done"}, call[c].live, ~call[c].failed,
                    NEW l \in Langs, <<c, l>> \in moved, decl[<<SenderOf[c[1]], l>>].by = c
             PROVE  S!Ack(c[1]) \in written
  BY DEF ShareIsThanked, S!ShareIsThanked
<1>1. Thanked(c, l) /\ Fit(c, call[c])
  BY DEF ThanksInv, RowsInv, ThanksDue, HandlerTypes
<1> QED
  BY <1>1 DEF Thanked, Fit

(* A live share that changed its declaration, and stands, is thanked for,  *)
(* also when the answer of its record was lost and a later attempt was     *)
(* refused by its own row (declarations.ts record, ingest.ts).             *)
THEOREM SharesAreThanked == Spec => []ShareIsThanked
<1>1. Init => ThanksInv
  BY TypesInit, RowsInit, ThanksInit, MessagesAssumption DEF ThanksInv, RowsInv
<1>2. ThanksInv /\ [Next]_vars => ThanksInv'
  BY TypesStep, RowsStep, MovedReachedStep, ThanksStep, MessagesAssumption DEF ThanksInv, RowsInv
<1> QED
  BY <1>1, <1>2, ThanksHold, PTL DEF Spec

-----------------------------------------------------------------------------
(* The lead is the best, or somebody is about to claim it                  *)

(* The row only ever gets better.                                          *)
LeadsFall ==
    \A i \in 1..Len(leads) : leads[i].who # None => S!Lead.who # None /\ S!Lead.score <= leads[i].score

Held(s) == S!Lead.who # None /\ S!Lead.score <= s

(* A call that has still to claim a lead: it is at the claim, or comes     *)
(* back to a record that it wrote and has no answer for.                   *)
Responsible(c, p, s) ==
    /\ SenderOf[c[1]] = p /\ call[c].lang = Own /\ S!ScoreOf(c) = s
    /\ \/ call[c].pc \in {"look", "claim"}
       \/ call[c].pc = "record" /\ call[c].tries > 0 /\ <<c, Own>> \in moved

Answered(p) ==
    LET row == decl[<<p, Own>>]
    IN row # S!NoRow /\ row.score # Capped /\ row.score \notin lost =>
           Held(row.score) \/ \E c \in S!Calls : Responsible(c, p, row.score)

LeadInv == ThanksInv /\ LeadsFall /\ \A p \in S!Players : Answered(p)

LEMMA LeadTyped ==
    ASSUME HandlerTypes
    PROVE  S!Lead \in LeadRows /\ \A i \in 1..Len(leads) : leads[i] \in LeadRows /\ leads[i].score \in Nat
<1>1. leads \in Seq(LeadRows) /\ Len(leads) \in Nat /\ Len(leads) > 0
  BY DEF HandlerTypes
<1>2. \A i \in 1..Len(leads) : leads[i] \in LeadRows
  BY <1>1
<1>3. Len(leads) \in 1..Len(leads)
  BY <1>1
<1> QED
  BY <1>2, <1>3 DEF S!Lead, LeadRows

(* The next row of the leader stands, and is better than all before.       *)
LEMMA LeadTaken ==
    ASSUME HandlerTypes, MessagesAssumption, NEW c \in S!Calls, call[c].pc = "claim",
           S!MayLead(c), leads' = Append(leads, S!LeadRow(c))
    PROVE  /\ Len(leads') = Len(leads) + 1 /\ leads'[Len(leads) + 1] = S!LeadRow(c)
           /\ \A i \in 1..Len(leads) : leads'[i] = leads[i]
           /\ S!Lead' = S!LeadRow(c)
           /\ S!LeadRow(c).who = SenderOf[c[1]] /\ S!LeadRow(c).score = S!ScoreOf(c)
           /\ SenderOf[c[1]] # None /\ S!ScoreOf(c) \in Nat
<1>1. leads \in Seq(LeadRows) /\ Len(leads) \in Nat
  BY DEF HandlerTypes
<1> DEFINE row == S!LeadRow(c)
<1>2. row \in LeadRows /\ row.who = SenderOf[c[1]] /\ row.score = S!ScoreOf(c) /\ SenderOf[c[1]] # None /\ S!ScoreOf(c) \in Nat
  BY AtAShare, CallParts DEF S!LeadRow, LeadRows
<1>3. leads' = Append(leads, row)
  OBVIOUS
<1> HIDE DEF row
<1>4. Len(leads') = Len(leads) + 1 /\ leads'[Len(leads) + 1] = row /\ \A i \in 1..Len(leads) : leads'[i] = leads[i]
  BY <1>1, <1>2, <1>3
<1>5. S!Lead' = row
  BY <1>4 DEF S!Lead
<1> QED
  BY <1>2, <1>4, <1>5 DEF row

(* The row of the leader changes only by a claim that may have it.         *)
LEMMA LeadChanges ==
    ASSUME HandlerTypes, [Next]_vars
    PROVE  \/ leads' = leads
           \/ \E c \in S!Calls : /\ S!Claim(c) /\ call[c].pc = "claim"
                                 /\ S!MayLead(c) /\ leads' = Append(leads, S!LeadRow(c))
<1>1. \A c \in S!Calls : S!Deliver(c) \/ S!Record(c) \/ S!Look(c) \/ S!Acknowledge(c) \/ S!Announce(c) => leads' = leads
  BY DEF S!Deliver, S!Record, S!Look, S!Acknowledge, S!Announce, S!rows
<1>2. \A c \in S!Calls : S!Claim(c) =>
        call[c].pc = "claim" /\ (leads' = leads \/ (S!MayLead(c) /\ leads' = Append(leads, S!LeadRow(c))))
  BY DEF S!Claim
<1>3. S!Crash \/ HandlersStill => leads' = leads
  BY DEF S!Crash, S!rows, HandlersStill
<1> QED
  BY <1>1, <1>2, <1>3, StepKinds

LEMMA LeadsFallStep ==
    ASSUME HandlerTypes, LeadsFall, MessagesAssumption, [Next]_vars
    PROVE  LeadsFall' /\ \A s \in Nat : Held(s) => Held(s)'
<1>1. CASE leads' = leads
  BY <1>1 DEF LeadsFall, Held, S!Lead
<1>2. ASSUME NEW c \in S!Calls, call[c].pc = "claim", S!MayLead(c), leads' = Append(leads, S!LeadRow(c))
      PROVE  LeadsFall' /\ \A s \in Nat : Held(s) => Held(s)'
  <2>1. /\ Len(leads') = Len(leads) + 1 /\ leads'[Len(leads) + 1] = S!LeadRow(c)
        /\ \A i \in 1..Len(leads) : leads'[i] = leads[i]
        /\ S!Lead' = S!LeadRow(c)
        /\ S!LeadRow(c).who = SenderOf[c[1]] /\ S!LeadRow(c).score = S!ScoreOf(c)
        /\ SenderOf[c[1]] # None /\ S!ScoreOf(c) \in Nat
    BY <1>2, LeadTaken
  <2>2. Len(leads) \in Nat /\ S!Lead.score \in Nat /\ \A i \in 1..Len(leads) : leads[i].score \in Nat
    BY LeadTyped DEF HandlerTypes, LeadRows
  <2>3. S!Lead.who = None \/ S!Lead.score > S!ScoreOf(c)
    BY <1>2 DEF S!MayLead
  <2>4. \A i \in 1..Len(leads) : leads[i].who # None => S!ScoreOf(c) <= leads[i].score
    BY <2>1, <2>2, <2>3 DEF LeadsFall
  <2>5. \A i \in 1..Len(leads') : leads'[i].who # None => S!Lead'.who # None /\ S!Lead'.score <= leads'[i].score
    <3> SUFFICES ASSUME NEW i \in 1..Len(leads'), leads'[i].who # None
                 PROVE  S!ScoreOf(c) <= leads'[i].score
      BY <2>1
    <3>1. CASE i = Len(leads) + 1
      BY <2>1, <3>1
    <3>2. CASE i # Len(leads) + 1
      <4>1. i \in 1..Len(leads)
        BY <2>1, <2>2, <3>2
      <4> QED
        BY <2>1, <2>4, <4>1
    <3> QED
      BY <3>1, <3>2
  <2>6. \A s \in Nat : Held(s) => S!Lead'.who # None /\ S!Lead'.score <= s
    BY <2>1, <2>2, <2>3 DEF Held
  <2> QED
    BY <2>5, <2>6 DEF LeadsFall, Held
<1> QED
  BY <1>1, <1>2, LeadChanges

LEMMA LeadInit == Init => LeadsFall /\ \A p \in S!Players : Answered(p)
<1> SUFFICES ASSUME NEW plan \in Plans, S!InitWith(plan) PROVE LeadsFall /\ \A p \in S!Players : Answered(p)
  BY DEF Init
<1>1. leads = <<S!NoLead>> /\ decl = [k \in S!Players \X Langs |-> S!NoRow]
  BY DEF S!InitWith
<1>2. LeadsFall
  BY <1>1 DEF LeadsFall, S!NoLead
<1>3. Own \in Langs
  BY MessagesAssumption DEF MessagesAssumption
<1> QED
  BY <1>1, <1>2, <1>3 DEF Answered

(* A call that does not move stays responsible.                            *)
LEMMA StaysResponsible ==
    ASSUME NEW c \in S!Calls, NEW p, NEW s, call'[c] = call[c], moved \subseteq moved', Responsible(c, p, s)
    PROVE  Responsible(c, p, s)'
  BY DEF Responsible, S!ScoreOf

(* As long as the row stands and what was given up stays given up, it is   *)
(* enough that whoever was responsible has claimed, passes it on or gave   *)
(* up.                                                                     *)
LEMMA AnsweredStays ==
    ASSUME LeadInv, MessagesAssumption, [Next]_vars, NEW p \in S!Players,
           decl'[<<p, Own>>] = decl[<<p, Own>>], lost \subseteq lost',
           \A c \in S!Calls, s \in Nat :
               Responsible(c, p, s) /\ s # Capped =>
                   Held(s)' \/ s \in lost' \/ \E d \in S!Calls : Responsible(d, p, s)'
    PROVE  Answered(p)'
<1>0. PICK row : row = decl[<<p, Own>>]
  OBVIOUS
<1>1. Answered(p) /\ HandlerTypes /\ LeadsFall /\ row.score \in Nat
  BY <1>0, MessagesAssumption DEF LeadInv, ThanksInv, RowsInv, HandlerTypes, MessagesAssumption
<1>2. \A s \in Nat : Held(s) => Held(s)'
  BY <1>1, LeadsFallStep
<1>3. decl'[<<p, Own>>] = row
  BY <1>0
<1> SUFFICES ASSUME row # S!NoRow, row.score # Capped, row.score \notin lost'
             PROVE  Held(row.score)' \/ \E c \in S!Calls : Responsible(c, p, row.score)'
  BY <1>3 DEF Answered
<1>4. Held(row.score) \/ \E c \in S!Calls : Responsible(c, p, row.score)
  BY <1>0, <1>1 DEF Answered
<1> QED
  BY <1>1, <1>2, <1>4

LEMMA AnsweredRecord ==
    ASSUME LeadInv, MessagesAssumption, [Next]_vars, NEW p \in S!Players, NEW c \in S!Calls, S!Record(c)
    PROVE  Answered(p)'
<1>1. HandlerTypes /\ ThanksInv /\ Answered(p) /\ LeadsFall
  BY DEF LeadInv, ThanksInv, RowsInv
<1>2. PICK n : Turns(c, n) /\ Fit(c, n) /\ (Written(c, n) \/ Declined(c, n) \/ Thrown(c, n))
  BY <1>1, RecordStep
<1>3. call[c].pc = "record" /\ leads' = leads
  BY DEF S!Record
<1>4. call'[c] = n /\ \A d \in S!Calls \ {c} : call'[d] = call[d]
  BY <1>1, <1>2, TurnsFit
<1>5. /\ S!KeyOf(c) = <<SenderOf[c[1]], call[c].lang>> /\ S!KeyOf(c) \in S!Players \X Langs
      /\ call[c].lang \in Langs /\ S!ScoreOf(c) \in Nat /\ c[1] \in Nat \ {0}
  BY <1>1, <1>3, AtAShare
<1>6. lost \subseteq lost' /\ moved \subseteq moved'
  BY <1>1, <1>2, RecordRows DEF Written, Declined, Thrown, S!WriteRow, S!Refused
<1>7. ASSUME NEW d \in S!Calls, d # c, NEW s, Responsible(d, p, s)
      PROVE  Responsible(d, p, s)'
  BY <1>4, <1>6, <1>7, StaysResponsible
<1>8. CASE S!Supersedes(c) /\ S!WriteRow(c) /\ S!KeyOf(c) = <<p, Own>>
  <2>0. PICK s : s = S!ScoreOf(c)
    OBVIOUS
  <2>1. decl'[<<p, Own>>].score = s
    BY <2>0, <1>1, <1>3, <1>8, RowWritten
  <2>2. call[c].lang = Own /\ SenderOf[c[1]] = p
    BY <1>5, <1>8
  <2>3. SUFFICES ASSUME s # Capped, s \notin lost'
                 PROVE  Held(s)' \/ \E d \in S!Calls : Responsible(d, p, s)'
    BY <2>1 DEF Answered
  <2>4. CASE S!Changes(c)
    <3>1. <<c, Own>> \in moved'
      BY <1>8, <2>2, <2>4 DEF S!WriteRow
    <3>2. n.lang = Own /\ (n.pc = "look" \/ (n.pc = "record" /\ n.tries > 0))
      BY <1>2, <1>8, <2>0, <2>2, <2>3, <2>4 DEF Written, Declined, Thrown, S!Claims
    <3>3. Responsible(c, p, s)'
      BY <1>4, <2>0, <2>2, <3>1, <3>2 DEF Responsible, S!ScoreOf
    <3> QED
      BY <3>3
  <2>5. CASE ~S!Changes(c)
    <3>1. decl[<<p, Own>>] # S!NoRow /\ decl[<<p, Own>>].score = s
      BY <1>8, <2>0, <2>5 DEF S!Changes
    <3>2. Held(s) \/ \E d \in S!Calls : Responsible(d, p, s)
      BY <1>1, <1>6, <2>3, <3>1 DEF Answered
    <3>3. CASE Held(s)
      BY <1>1, <1>5, <2>0, <3>3, LeadsFallStep
    <3>4. ASSUME NEW d \in S!Calls, Responsible(d, p, s)
          PROVE  Responsible(d, p, s)'
      <4>1. d # c
        BY <1>1, <1>3, <1>8, <2>2, <3>4, FreshWrite DEF Responsible
      <4> QED
        BY <1>7, <3>4, <4>1
    <3> QED
      BY <3>2, <3>3, <3>4
  <2> QED
    BY <2>4, <2>5
<1>9. CASE S!Supersedes(c) /\ S!WriteRow(c) /\ S!KeyOf(c) # <<p, Own>>
  <2>1. decl'[<<p, Own>>] = decl[<<p, Own>>]
    BY <1>1, <1>3, <1>9, RowWritten, MessagesAssumption DEF MessagesAssumption
  <2>2. \A s : ~Responsible(c, p, s)
    BY <1>5, <1>9 DEF Responsible
  <2> QED
    BY <1>6, <1>7, <2>1, <2>2, AnsweredStays
<1>10. CASE UNCHANGED decl /\ ~(S!Supersedes(c) /\ S!WriteRow(c))
  <2>1. ASSUME NEW s \in Nat, Responsible(c, p, s), s # Capped
        PROVE  s \in lost' \/ Responsible(c, p, s)'
    <3>1. call[c].lang = Own /\ S!ScoreOf(c) = s /\ SenderOf[c[1]] = p /\ call[c].tries > 0 /\ <<c, Own>> \in moved
      BY <1>3, <2>1 DEF Responsible
    <3>2. S!Claims(c)
      BY <2>1, <3>1 DEF S!Claims
    <3>3. CASE Declined(c, n)
      <4>1. CASE S!OwnEarlierAttempt(c)
        <5>1. n.pc = "look" /\ n.lang = Own
          BY <3>2, <3>3, <4>1 DEF Declined
        <5> QED
          BY <1>4, <3>1, <5>1 DEF Responsible, S!ScoreOf
      <4>2. CASE ~S!OwnEarlierAttempt(c)
        BY <3>1, <3>3, <4>2 DEF Declined, S!OwnEarlierAttempt, S!Overtaken
      <4> QED
        BY <4>1, <4>2
    <3>4. CASE Thrown(c, n)
      <4>1. CASE n.failed /\ lost' = lost \cup {S!ScoreOf(c)}
        BY <3>1, <4>1
      <4>2. CASE n.pc = "record" /\ n.lang = call[c].lang /\ n.tries > 0
        BY <1>4, <1>6, <3>1, <4>2 DEF Responsible, S!ScoreOf
      <4> QED
        BY <3>4, <4>1, <4>2 DEF Thrown
    <3> QED
      BY <1>2, <1>10, <3>3, <3>4 DEF Written
  <2> QED
    BY <1>6, <1>7, <1>10, <2>1, AnsweredStays
<1> QED
  BY <1>1, <1>2, <1>8, <1>9, <1>10, RecordRows DEF S!Refused

LEMMA AnsweredStep ==
    ASSUME LeadInv, MessagesAssumption, [Next]_vars, NEW p \in S!Players
    PROVE  Answered(p)'
<1>1. HandlerTypes /\ LeadsFall
  BY DEF LeadInv, ThanksInv, RowsInv
<1>2. ASSUME NEW c \in S!Calls, NEW n, Turns(c, n), Fit(c, n), UNCHANGED <<decl, moved>>, lost \subseteq lost',
             \A s \in Nat : Responsible(c, p, s) => Held(s)' \/ s \in lost' \/ Responsible(c, p, s)'
      PROVE  Answered(p)'
  <2>1. \A d \in S!Calls \ {c} : call'[d] = call[d]
    BY <1>1, <1>2, TurnsFit
  <2>2. \A d \in S!Calls, s \in Nat : d # c /\ Responsible(d, p, s) => Responsible(d, p, s)'
    BY <1>2, <2>1, StaysResponsible
  <2> QED
    BY <1>2, <2>2, AnsweredStays
<1>3. ASSUME NEW c \in S!Calls, S!Deliver(c) \/ S!Acknowledge(c) \/ S!Announce(c)
      PROVE  Answered(p)'
  <2>1. UNCHANGED <<decl, moved, lost>>
    BY <1>3 DEF S!Deliver, S!Acknowledge, S!Announce, S!rows, S!history
  <2>2. call[c].pc \in {"unborn", "ack", "news"}
    BY <1>1, <1>3, DeliverStep, SayStep
  <2>3. \E n : Turns(c, n) /\ Fit(c, n)
    BY <1>1, <1>3, DeliverStep, SayStep
  <2> QED
    BY <1>2, <2>1, <2>2, <2>3 DEF Responsible
<1>4. ASSUME NEW c \in S!Calls, S!Look(c)
      PROVE  Answered(p)'
  <2>1. PICK n : /\ Turns(c, n) /\ Fit(c, n)
                 /\ \/ n.pc = "claim" /\ n.lang = Own /\ lost' = lost
                    \/ Beaten(c)
                    \/ GivenUp(c)
    BY <1>1, <1>4, LookStep
  <2>2. UNCHANGED <<decl, moved, leads>> /\ lost \subseteq lost' /\ call'[c] = n
    BY <1>1, <1>4, <2>1, TurnsFit DEF S!Look, S!rows, Beaten, GivenUp
  <2>3. ASSUME NEW s \in Nat, Responsible(c, p, s)
        PROVE  Held(s)' \/ s \in lost' \/ Responsible(c, p, s)'
    <3>1. CASE n.pc = "claim" /\ n.lang = Own
      BY <2>2, <2>3, <3>1 DEF Responsible, S!ScoreOf
    <3>2. CASE Beaten(c)
      <4>1. PICK i \in 1..Len(leads) : leads[i].who # None /\ leads[i].score <= s
        BY <2>3, <3>2 DEF Beaten, Responsible
      <4>2. S!Lead.who # None /\ S!Lead.score <= leads[i].score
        BY <1>1, <4>1 DEF LeadsFall
      <4>3. S!Lead.score \in Nat /\ leads[i].score \in Nat
        BY <1>1, LeadTyped DEF LeadRows
      <4>4. Held(s)
        BY <4>1, <4>2, <4>3 DEF Held
      <4> QED
        BY <2>2, <4>4 DEF Held, S!Lead
    <3>3. CASE GivenUp(c)
      BY <2>3, <3>3 DEF GivenUp, Responsible
    <3> QED
      BY <2>1, <3>1, <3>2, <3>3
  <2> QED
    BY <1>2, <2>1, <2>2, <2>3
<1>5. ASSUME NEW c \in S!Calls, S!Claim(c)
      PROVE  Answered(p)'
  <2>1. PICK n : /\ Turns(c, n) /\ Fit(c, n)
                 /\ \/ Led(c, n)
                    \/ leads' = leads /\ lost' = lost /\ ~S!MayLead(c)
                    \/ leads' = leads /\ GivenUp(c)
    BY <1>1, <1>5, ClaimStep
  <2>2. UNCHANGED <<decl, moved>> /\ lost \subseteq lost' /\ call[c].pc = "claim"
    BY <1>5, <2>1 DEF S!Claim, S!rows, Led, GivenUp
  <2>3. S!ScoreOf(c) \in Nat /\ S!Lead.score \in Nat
    BY <1>1, <2>2, AtAShare, LeadTyped DEF LeadRows
  <2>4. ASSUME NEW s \in Nat, Responsible(c, p, s)
        PROVE  Held(s)' \/ s \in lost'
    <3>1. s = S!ScoreOf(c)
      BY <2>4 DEF Responsible
    <3>2. CASE Led(c, n)
      <4>1. S!Lead' = S!LeadRow(c) /\ S!LeadRow(c).who # None /\ S!LeadRow(c).score = s
        BY <1>1, <2>2, <3>1, <3>2, LeadTaken DEF Led
      <4> QED
        BY <4>1 DEF Held
    <3>3. CASE leads' = leads /\ ~S!MayLead(c)
      BY <2>3, <3>1, <3>3 DEF S!MayLead, Held, S!Lead
    <3>4. CASE GivenUp(c)
      BY <3>1, <3>4 DEF GivenUp
    <3> QED
      BY <2>1, <3>2, <3>3, <3>4
  <2> QED
    BY <1>2, <2>1, <2>2, <2>4
<1>6. CASE S!Crash
  <2>1. UNCHANGED decl /\ lost' = lost \cup S!ClaimsLost
    BY <1>6 DEF S!Crash, S!rows
  <2>2. ASSUME NEW c \in S!Calls, NEW s, Responsible(c, p, s)
        PROVE  s \in S!ClaimsLost
    BY <2>2 DEF Responsible, S!ClaimsLost, S!Running
  <2> QED
    BY <2>1, <2>2, AnsweredStays
<1>7. CASE HandlersStill
  BY <1>7, StaysResponsible, AnsweredStays DEF HandlersStill
<1> QED
  BY <1>3, <1>4, <1>5, <1>6, <1>7, AnsweredRecord, StepKinds

LEMMA LeadHolds == LeadInv /\ MessagesAssumption => LeadIsBest
<1> SUFFICES ASSUME LeadInv, NEW p \in S!Players, NEW row, row = decl[<<p, Own>>],
                    row # S!NoRow, row.score # Capped, row.score \notin lost, ~S!UnderWay(p, row.score)
             PROVE  Held(row.score)
  BY DEF LeadIsBest, S!LeadIsBest, Held
<1>1. Answered(p)
  BY DEF LeadInv
<1>2. \A c \in S!Calls : Responsible(c, p, row.score) => S!UnderWay(p, row.score)
  BY DEF Responsible, S!UnderWay, S!Running
<1> QED
  BY <1>1, <1>2 DEF Answered

LEMMA LeadInvariance == Spec => []LeadInv
<1>1. Init => LeadInv
  BY TypesInit, RowsInit, ThanksInit, LeadInit, MessagesAssumption DEF LeadInv, ThanksInv, RowsInv
<1>2. LeadInv /\ [Next]_vars => LeadInv'
  <2>1. LeadInv /\ [Next]_vars => ThanksInv'
    BY TypesStep, RowsStep, MovedReachedStep, ThanksStep, MessagesAssumption DEF LeadInv, ThanksInv, RowsInv
  <2>2. LeadInv /\ [Next]_vars => LeadsFall'
    BY LeadsFallStep, MessagesAssumption DEF LeadInv, ThanksInv, RowsInv
  <2>3. LeadInv /\ [Next]_vars => (\A p \in S!Players : Answered(p))'
    BY AnsweredStep, MessagesAssumption
  <2> QED
    BY <2>1, <2>2, <2>3 DEF LeadInv
<1> QED
  BY <1>1, <1>2, PTL DEF Spec

(* The day's best is never worse than a declaration that stands: whoever   *)
(* changed a declaration claims the lead, also after an answer that was    *)
(* lost, or the claim is known to be lost (leader.ts claim).               *)
THEOREM TheLeadIsBest == Spec => []LeadIsBest
<1>1. LeadInv => LeadIsBest
  BY LeadHolds, MessagesAssumption
<1> QED
  BY <1>1, LeadInvariance, PTL

-----------------------------------------------------------------------------
(* What is announced is a lead that changed hands                          *)

(* The row an announcement is of displaced a worse one of another player.  *)
Displaced(p, s) ==
    \E i \in 2..Len(leads) :
        /\ leads[i] = [who |-> p, score |-> s]
        /\ leads[i - 1].who \notin {None, p}
        /\ leads[i - 1].score > s

(* What a handler has to say, and what it has said.                        *)
Tellings == written \cup UNION {call[c].news : c \in S!Calls}

NewsTrue == \A p, s : S!Leader(p, s) \in Tellings => Displaced(p, s)

NewsInv == HandlerTypes /\ NewsTrue

LEMMA Tell ==
    ASSUME NEW p, NEW s
    PROVE  /\ \A m : S!Leader(p, s) # S!Ack(m)
           /\ \A q, t : S!Leader(p, s) = S!Leader(q, t) => p = q /\ s = t
  BY DEF S!Leader, S!Ack

LEMMA NewsInit == Init => NewsTrue
<1> SUFFICES ASSUME NEW plan \in Plans, S!InitWith(plan) PROVE Tellings = {}
  BY DEF Init, NewsTrue
<1>1. call = [c \in S!Calls |-> S!Unborn] /\ written = {}
  BY DEF S!InitWith
<1>2. \A c \in S!Calls : call[c].news = {}
  BY <1>1 DEF S!Unborn
<1> QED
  BY <1>1, <1>2 DEF Tellings

(* What was displaced stays so: the row only gets longer.                  *)
LEMMA DisplacedStays ==
    ASSUME HandlerTypes, MessagesAssumption, [Next]_vars, NEW p, NEW s, Displaced(p, s)
    PROVE  Displaced(p, s)'
<1>1. CASE leads' = leads
  BY <1>1 DEF Displaced
<1>2. ASSUME NEW c \in S!Calls, call[c].pc = "claim", S!MayLead(c), leads' = Append(leads, S!LeadRow(c))
      PROVE  Displaced(p, s)'
  <2>1. Len(leads') = Len(leads) + 1 /\ \A i \in 1..Len(leads) : leads'[i] = leads[i]
    BY <1>2, LeadTaken
  <2>2. Len(leads) \in Nat
    BY DEF HandlerTypes
  <2>3. PICK i \in 2..Len(leads) : /\ leads[i] = [who |-> p, score |-> s]
                                   /\ leads[i - 1].who \notin {None, p}
                                   /\ leads[i - 1].score > s
    BY DEF Displaced
  <2>4. i \in 2..Len(leads') /\ leads'[i] = leads[i] /\ leads'[i - 1] = leads[i - 1]
    BY <2>1, <2>2
  <2> QED
    BY <2>3, <2>4 DEF Displaced
<1> QED
  BY <1>1, <1>2, LeadChanges

(* A claim that took the lead from another displaced a worse row.          *)
LEMMA TookIsDisplaced ==
    ASSUME HandlerTypes, MessagesAssumption, NEW c \in S!Calls, call[c].pc = "claim",
           S!MayLead(c), S!TookLead(c), leads' = Append(leads, S!LeadRow(c)),
           NEW p, NEW s, p = SenderOf[c[1]], s = S!ScoreOf(c)
    PROVE  Displaced(p, s)'
<1>1. /\ Len(leads') = Len(leads) + 1 /\ leads'[Len(leads) + 1] = S!LeadRow(c)
      /\ \A i \in 1..Len(leads) : leads'[i] = leads[i]
  BY LeadTaken
<1>2. Len(leads) \in Nat /\ Len(leads) > 0
  BY DEF HandlerTypes
<1>3. S!LeadRow(c) = [who |-> p, score |-> s]
  BY DEF S!LeadRow
<1>4. leads[Len(leads)].who \notin {None, p} /\ leads[Len(leads)].score > s
  BY DEF S!TookLead, S!MayLead, S!Lead
<1>5. PICK i : i = Len(leads) + 1
  OBVIOUS
<1>6. i \in 2..Len(leads') /\ leads'[i] = [who |-> p, score |-> s] /\ leads'[i - 1] = leads[Len(leads)]
  BY <1>1, <1>2, <1>3, <1>5
<1> QED
  BY <1>4, <1>6 DEF Displaced

LEMMA NewsStep ==
    ASSUME NewsInv, MessagesAssumption, [Next]_vars, NEW p, NEW s, S!Leader(p, s) \in Tellings'
    PROVE  Displaced(p, s)'
<1>1. HandlerTypes /\ NewsTrue
  BY DEF NewsInv
<1>2. ASSUME S!Leader(p, s) \in Tellings
      PROVE  Displaced(p, s)'
  BY <1>1, <1>2, DisplacedStays DEF NewsTrue
<1>3. ASSUME NEW c \in S!Calls, NEW n, Turns(c, n), Fit(c, n),
             S!Leader(p, s) \in written' => S!Leader(p, s) \in Tellings,
             S!Leader(p, s) \in n.news => S!Leader(p, s) \in Tellings \/ Displaced(p, s)'
      PROVE  Displaced(p, s)'
  <2>1. call'[c] = n /\ \A d \in S!Calls \ {c} : call'[d] = call[d]
    BY <1>1, <1>3, TurnsFit
  <2>2. CASE S!Leader(p, s) \in written'
    BY <1>2, <1>3, <2>2
  <2>3. ASSUME NEW d \in S!Calls, S!Leader(p, s) \in call'[d].news
        PROVE  Displaced(p, s)'
    BY <1>2, <1>3, <2>1, <2>3 DEF Tellings
  <2> QED
    BY <2>2, <2>3 DEF Tellings
<1>4. ASSUME NEW c \in S!Calls, S!Deliver(c) \/ S!Record(c) \/ S!Look(c)
      PROVE  Displaced(p, s)'
  <2>1. written' = written
    BY <1>4 DEF S!Deliver, S!Record, S!Look, S!history
  <2>2. PICK n : Turns(c, n) /\ Fit(c, n) /\ (n.news = {} \/ n.news = call[c].news)
    BY <1>1, <1>4, DeliverStep, RecordStep, LookStep, MessagesAssumption DEF Carries
  <2> QED
    BY <1>3, <2>1, <2>2 DEF Tellings
<1>5. ASSUME NEW c \in S!Calls, S!Claim(c)
      PROVE  Displaced(p, s)'
  <2>1. PICK n : /\ Turns(c, n) /\ Fit(c, n)
                 /\ Led(c, n) \/ n.news = call[c].news
    BY <1>1, <1>5, ClaimStep
  <2>2. written' = written /\ call[c].pc = "claim"
    BY <1>5 DEF S!Claim
  <2>3. CASE n.news = call[c].news
    BY <1>3, <2>1, <2>2, <2>3 DEF Tellings
  <2>4. CASE Led(c, n) /\ n.news # call[c].news
    <3>1. S!MayLead(c) /\ S!TookLead(c) /\ leads' = Append(leads, S!LeadRow(c))
          /\ n.news = call[c].news \cup {S!Leader(SenderOf[c[1]], S!ScoreOf(c))}
      BY <2>4 DEF Led
    <3>2. PICK q, t : q = SenderOf[c[1]] /\ t = S!ScoreOf(c)
      OBVIOUS
    <3>3. Displaced(q, t)'
      BY <1>1, <2>2, <3>1, <3>2, TookIsDisplaced
    <3>4. S!Leader(p, s) \in n.news => S!Leader(p, s) \in call[c].news \/ (p = q /\ s = t)
      BY <3>1, <3>2, Tell
    <3> QED
      BY <1>3, <2>1, <2>2, <3>3, <3>4 DEF Tellings
  <2> QED
    BY <2>1, <2>3, <2>4
<1>6. ASSUME NEW c \in S!Calls, S!Acknowledge(c) \/ S!Announce(c)
      PROVE  Displaced(p, s)'
  <2>1. PICK n : Turns(c, n) /\ Fit(c, n) /\ Says(c, n)
    BY <1>1, <1>6, SayStep
  <2>2. S!Leader(p, s) \in written' => S!Leader(p, s) \in Tellings
    BY <2>1, Tell DEF Says, Tellings
  <2>3. S!Leader(p, s) \in n.news => S!Leader(p, s) \in Tellings
    BY <2>1 DEF Says, Tellings
  <2> QED
    BY <1>3, <2>1, <2>2, <2>3
<1>7. CASE S!Crash
  <2>1. written' = written
        /\ call' = [c \in S!Calls |-> IF S!Running(c) THEN [S!Unborn EXCEPT !.pc = "dead"] ELSE call[c]]
    BY <1>7 DEF S!Crash
  <2>2. [S!Unborn EXCEPT !.pc = "dead"].news = {}
    BY DEF S!Unborn
  <2>3. \A c \in S!Calls : call'[c].news \subseteq call[c].news
    BY <2>1, <2>2
  <2> QED
    BY <1>2, <2>1, <2>3 DEF Tellings
<1>8. CASE HandlersStill
  BY <1>2, <1>8 DEF HandlersStill, Tellings
<1> QED
  BY <1>4, <1>5, <1>6, <1>7, <1>8, StepKinds

(* What is announced as taking the lead displaced the row of another       *)
(* player, and a worse one, whatever the handler had read before it        *)
(* claimed (leader.ts claim, from the row the write displaced).            *)
THEOREM NewsIsOfALead == Spec => []LeadChangedHands
<1>1. Init => NewsInv
  BY TypesInit, NewsInit, MessagesAssumption DEF NewsInv
<1>2. NewsInv /\ [Next]_vars => NewsInv'
  <2>1. NewsInv /\ [Next]_vars => HandlerTypes'
    BY TypesStep, MessagesAssumption DEF NewsInv
  <2>2. NewsInv /\ [Next]_vars => NewsTrue'
    <3> SUFFICES ASSUME NewsInv, [Next]_vars, NEW p, NEW s, S!Leader(p, s) \in Tellings'
                 PROVE  Displaced(p, s)'
      BY DEF NewsTrue, S!Leader
    <3> QED
      BY NewsStep, MessagesAssumption
  <2> QED
    BY <2>1, <2>2 DEF NewsInv
<1>3. NewsInv => LeadChangedHands
  BY DEF NewsInv, NewsTrue, Tellings, Displaced, LeadChangedHands, S!LeadChangedHands
<1> QED
  BY <1>1, <1>2, <1>3, PTL DEF Spec

=============================================================================
