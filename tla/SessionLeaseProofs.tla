-------------------------- MODULE SessionLeaseProofs --------------------------
(***************************************************************************)
(* What is proved of SessionLease, for every number of processes and every *)
(* renew period, however long calls take, hang or throw: which keepers own *)
(* the record while they hold, how far the others overrun it, and that a   *)
(* release is final.                                                       *)
(***************************************************************************)
EXTENDS SessionLease, TLAPS

-----------------------------------------------------------------------------
(* The inductive invariant.                                                *)

Calls == [kind : {"acquire", "renew"}, issued : 0..MaxClock,
          state : {"none", "sent", "landed", "refused"}]

ProcessStates ==
    [pc : {"off", "acquiring", "holding", "stopping", "gone"},
     heldAt : 0..MaxClock, since : 0..MaxClock, due : 0..(MaxClock + RenewPeriod),
     call : Calls, threw : BOOLEAN, strays : SUBSET (0..MaxClock), late : BOOLEAN,
     release : {"none", "sent", "landed"},
     socket : {"none", "connecting", "open", "closed"}]

Active(q) == q.pc \in {"off", "acquiring", "holding"}

(* The instant a keeper's timer counts its periods from: the answer of the *)
(* acquisition, then the stamp of the last renewal answered.               *)
Base(q) == IF q.heldAt < q.since THEN q.since ELSE q.heldAt

(* Where that timer may fall: one period later; or two, after a renewal    *)
(* that threw within the grace window.                                     *)
OnSchedule(x, q) ==
    \/ x = Base(q) + RenewPeriod
    \/ /\ q.threw /\ q.since < q.heldAt + RenewPeriod
       /\ x = Base(q) + 2 * RenewPeriod

(* What a holder's keeper knows: no renewal out, and a timer on schedule;  *)
(* or one out, sent on schedule.                                           *)
Waiting(q) == q.call.state = "none" /\ OnSchedule(q.due, q)

Renewing(q) ==
    /\ q.call.state # "none" /\ q.call.kind = "renew"
    /\ OnSchedule(q.call.issued, q)
    /\ q.due = q.call.issued + RenewPeriod

Keeping(q, now) ==
    /\ q.heldAt <= now /\ q.since <= now /\ now <= q.due
    /\ q.since < q.heldAt + 2 * RenewPeriod
    /\ Waiting(q) \/ Renewing(q)

(* The record is the process's until the window of a stamp has passed.     *)
Owns(p, rec, stamp) == rec.owner = {p} /\ stamp + Ttl <= rec.expires

ProcessOK(p, q, rec, now) ==
    /\ q.call.issued <= now
    /\ Active(q) => q.release = "none"
    /\ q.pc = "acquiring" => q.call.kind = "acquire"
    /\ q.call.kind = "acquire" /\ q.call.state # "none" => q.release = "none"
    /\ /\ q.pc \in {"acquiring", "holding"} /\ q.call.state = "landed"
       /\ ~q.late /\ now <= q.call.issued + Ttl
       => Owns(p, rec, q.call.issued)
    /\ q.pc = "holding" =>
         /\ Keeping(q, now)
         /\ ~Exposed(q) => Owns(p, rec, q.heldAt)

Inv ==
    /\ TypeOK
    /\ \A p \in Processes : ProcessOK(p, proc[p], record, clock)

-----------------------------------------------------------------------------
(* The window.                                                             *)

(* The types of the whole state.                                           *)
LEMMA StateTypes ==
    ASSUME Inv
    PROVE  /\ clock \in 0..MaxClock /\ clock \in Nat
           /\ proc \in [Processes -> ProcessStates]
           /\ RenewPeriod \in Nat /\ RenewPeriod > 0 /\ Ttl = 3 * RenewPeriod
           /\ MaxClock \in Nat
BY LeaseAssumption DEF Inv, TypeOK, ProcessStates, Calls

(* What the schedule says of a holder's clock, and the only place the      *)
(* lengths of the periods are compared.                                    *)
LEMMA HeldInTime ==
    ASSUME Inv, NEW p \in Processes, proc[p].pc = "holding"
    PROVE  /\ ~Exposed(proc[p]) => clock <= proc[p].heldAt + Ttl
           /\ clock < proc[p].heldAt + Ttl + RenewPeriod
<1> DEFINE q == proc[p]
           h == proc[p].heldAt
           s == proc[p].since
           b == Base(proc[p])
           d == proc[p].due
           i == proc[p].call.issued
           R == RenewPeriod
<1>1. /\ h \in Nat /\ s \in Nat /\ d \in Nat /\ i \in Nat /\ clock \in Nat
      /\ R \in Nat /\ R > 0 /\ Ttl = 3 * R /\ q.threw \in BOOLEAN
  BY StateTypes DEF ProcessStates, Calls
<1>2. Keeping(q, clock)
  BY DEF Inv, ProcessOK
<1>3. b = IF h < s THEN s ELSE h
  BY DEF Base
<1>4. clock <= d /\ s < h + 2 * R
  BY <1>2 DEF Keeping
<1>5. \/ d <= b + 2 * R
      \/ q.threw /\ s < h + R /\ d <= b + 3 * R
  <2>1. CASE Waiting(q)
    BY <1>1, <1>3, <2>1 DEF Waiting, OnSchedule
  <2>2. CASE Renewing(q)
    <3>1. /\ d = i + R
          /\ i = b + R \/ (q.threw /\ s < h + R /\ i = b + 2 * R)
      BY <2>2 DEF Renewing, OnSchedule
    <3> HIDE DEF q, h, s, b, d, i, R
    <3>2. b \in Nat
      BY <1>1, <1>3
    <3> QED
      BY <1>1, <3>1, <3>2
  <2> QED
    BY <1>2, <2>1, <2>2 DEF Keeping
<1>6. ~Exposed(q) => ~(h < s) \/ (~q.threw /\ ~(s - h > R))
  BY DEF Exposed
<1> HIDE DEF q, h, s, b, d, i
<1>7. ~Exposed(q) => clock <= h + Ttl
  BY <1>1, <1>3, <1>4, <1>5, <1>6
<1>8. clock < h + Ttl + R
  BY <1>1, <1>3, <1>4, <1>5
<1> QED
  BY <1>7, <1>8 DEF q, h, R

(* What the invariant says of the table: the record of a holder that is    *)
(* not exposed is its own, and lasts.                                      *)
LEMMA InvHolderOwns == ASSUME Inv PROVE HolderOwns
<1> SUFFICES ASSUME NEW p \in Processes, proc[p].pc = "holding", ~Exposed(proc[p])
             PROVE  record.owner = {p} /\ clock <= record.expires
  BY DEF HolderOwns
<1>1. Owns(p, record, proc[p].heldAt)
  BY DEF Inv, ProcessOK
<1>2. clock <= proc[p].heldAt + Ttl
  BY HeldInTime
<1>3. clock \in Nat /\ proc[p].heldAt \in Nat /\ Ttl \in Nat /\ record.expires \in Nat
  BY StateTypes DEF ProcessStates, Inv, TypeOK
<1> QED
  BY <1>1, <1>2, <1>3 DEF Owns

-----------------------------------------------------------------------------
(* What every step shares.                                                 *)

(* The stored lease is a record.                                           *)
Records == [owner : {{}} \cup {{p} : p \in Processes}, expires : 0..(MaxClock + Ttl)]

(* A write that takes the record takes it from nobody whose window lasts.  *)
LEMMA ClaimsStand ==
    ASSUME Inv, NEW p \in Processes, NEW r \in Processes, r # p,
           NEW stamp, Owns(r, record, stamp), clock <= stamp + Ttl, stamp \in Nat,
           Land(p) \/ LandLate(p) \/ Release(p)
    PROVE  Owns(r, record', stamp)
<1>1. record.owner = {r} /\ stamp + Ttl <= record.expires /\ r # p
  BY DEF Owns
<1>2. /\ clock \in Nat /\ Ttl \in Nat /\ record.expires \in Nat
      /\ proc[p].call.issued \in Nat /\ proc[p].call.issued <= clock
  BY StateTypes DEF Inv, TypeOK, ProcessOK, ProcessStates, Calls
<1>3. ~(record.expires < proc[p].call.issued)
  BY <1>1, <1>2
<1>4. ~MayAcquire(p, proc[p].call.issued) /\ ~MayRenew(p)
  BY <1>1, <1>3 DEF MayAcquire, MayRenew
<1>5. record' = record
  BY <1>1, <1>4 DEF Land, LandLate, Release
<1> QED
  BY <1>5

(* One process moves, and what the others own stays theirs.                *)
LEMMA ProcessStep ==
    ASSUME Inv, NEW p \in Processes, NEW q \in ProcessStates,
           proc' = [proc EXCEPT ![p] = q], UNCHANGED clock,
           record' \in Records, record' = record \/ Land(p) \/ LandLate(p) \/ Release(p),
           ProcessOK(p, q, record', clock)
    PROVE  Inv'
<1>1. /\ proc' \in [Processes -> ProcessStates] /\ proc'[p] = q
      /\ \A r \in Processes \ {p} : proc'[r] = proc[r]
  BY StateTypes
<1>2. TypeOK'
  BY <1>1 DEF Inv, TypeOK, Records, ProcessStates, Calls
<1>3. ASSUME NEW r \in Processes \ {p} PROVE ProcessOK(r, proc[r], record', clock)
  <2>1. /\ proc[r] \in ProcessStates /\ ProcessOK(r, proc[r], record, clock)
        /\ proc[r].heldAt \in Nat /\ proc[r].call.issued \in Nat
    BY StateTypes DEF Inv, ProcessStates, Calls
  <2>2. ASSUME proc[r].pc = "holding", ~Exposed(proc[r])
        PROVE  Owns(r, record', proc[r].heldAt)
    <3>1. Owns(r, record, proc[r].heldAt) /\ clock <= proc[r].heldAt + Ttl
      BY <2>1, <2>2, HeldInTime DEF ProcessOK
    <3> QED
      BY <2>1, <3>1, ClaimsStand
  <2>3. ASSUME /\ proc[r].pc \in {"acquiring", "holding"} /\ proc[r].call.state = "landed"
               /\ ~proc[r].late /\ clock <= proc[r].call.issued + Ttl
        PROVE  Owns(r, record', proc[r].call.issued)
    <3>1. Owns(r, record, proc[r].call.issued)
      BY <2>1, <2>3 DEF ProcessOK
    <3> QED
      BY <2>1, <2>3, <3>1, ClaimsStand
  <2> QED
    BY <2>1, <2>2, <2>3 DEF ProcessOK
<1>4. \A r \in Processes : ProcessOK(r, proc'[r], record', clock')
  BY <1>1, <1>3
<1> QED
  BY <1>2, <1>4 DEF Inv

(* The fields of a process have their types.                               *)
LEMMA ProcessTypes ==
    ASSUME Inv, NEW p \in Processes
    PROVE  /\ proc[p] \in ProcessStates /\ ProcessOK(p, proc[p], record, clock)
           /\ proc[p].heldAt \in Nat /\ proc[p].since \in Nat /\ proc[p].due \in Nat
           /\ proc[p].call.issued \in Nat /\ proc[p].threw \in BOOLEAN
           /\ proc[p].call \in Calls /\ record \in Records
BY StateTypes DEF Inv, TypeOK, ProcessStates, Calls, Records

-----------------------------------------------------------------------------
(* The steps.                                                              *)

(* A call just sent, and no call, are calls.                               *)
LEMMA CallsTyped ==
    ASSUME Inv, NEW kind \in {"acquire", "renew"}
    PROVE  /\ Sent(kind) \in Calls /\ Sent(kind).kind = kind
           /\ Sent(kind).issued = clock /\ Sent(kind).state = "sent"
           /\ NoCall \in Calls /\ NoCall.state = "none" /\ NoCall.issued = 0
BY StateTypes DEF Sent, NoCall, Calls

(* The acquisition is sent.                                                *)
LEMMA AcquireStep == ASSUME Inv, NEW p \in Processes, Acquire(p) PROVE Inv'
<1> DEFINE q == [Unborn EXCEPT !.pc = "acquiring", !.call = Sent("acquire")]
<1>1. /\ q \in ProcessStates /\ q.pc = "acquiring" /\ q.release = "none"
      /\ q.call = Sent("acquire")
  <2>1. Unborn \in ProcessStates /\ Unborn.release = "none"
    BY StateTypes, CallsTyped DEF Unborn, ProcessStates
  <2>2. Sent("acquire") \in Calls
    BY CallsTyped
  <2> QED
    BY <2>1, <2>2 DEF ProcessStates
<1>2. proc' = [proc EXCEPT ![p] = q] /\ UNCHANGED <<clock, record>>
  BY DEF Acquire, Set
<1> HIDE DEF q
<1>3. ProcessOK(p, q, record, clock)
  BY <1>1, CallsTyped, StateTypes DEF ProcessOK, Active
<1> QED
  BY <1>1, <1>2, <1>3, ProcessStep, ProcessTypes

(* A write reaches the table: a holder's renewal takes its own record on,  *)
(* an acquisition a record nobody claims any more.                         *)
LEMMA LandStep == ASSUME Inv, NEW p \in Processes, Land(p) PROVE Inv'
<1> DEFINE q == proc[p]
           allowed == IF q.call.kind = "acquire" THEN MayAcquire(p, q.call.issued)
                      ELSE MayRenew(p)
           state == IF allowed THEN "landed" ELSE "refused"
           call == [q.call EXCEPT !.state = state]
           n == [q EXCEPT !.call = call]
<1>1. /\ q \in ProcessStates /\ q.call \in Calls /\ ProcessOK(p, q, record, clock)
      /\ q.call.state = "sent" /\ q.call.issued \in Nat /\ q.heldAt \in Nat
  BY ProcessTypes DEF Land
<1>2. call \in Calls /\ call.kind = q.call.kind /\ call.issued = q.call.issued
      /\ call.state = state /\ call.state # "none"
  BY <1>1 DEF Calls
<1>3. /\ n \in ProcessStates /\ n.call = call /\ n.pc = q.pc /\ n.release = q.release
      /\ n.heldAt = q.heldAt /\ n.due = q.due /\ n.since = q.since
      /\ n.threw = q.threw /\ n.late = q.late
  <2> HIDE DEF call
  <2> QED
    BY <1>1, <1>2 DEF ProcessStates
<1>4. proc' = [proc EXCEPT ![p] = n]
  BY DEF Land
<1>5. /\ record' = IF allowed THEN [owner |-> {p}, expires |-> q.call.issued + Ttl] ELSE record
      /\ UNCHANGED clock
  BY DEF Land
<1>6. record' \in Records
  <2>1. q.call.issued + Ttl \in 0..(MaxClock + Ttl)
    <3>1. q.call.issued \in 0..MaxClock
      BY <1>1 DEF Calls
    <3> QED
      BY <3>1, StateTypes
  <2> QED
    BY <1>5, <2>1, ProcessTypes DEF Records
<1> HIDE DEF q, allowed, call, n
<1>7. ASSUME n.pc = "holding"
      PROVE  Keeping(n, clock) /\ (~Exposed(n) => Owns(p, record', n.heldAt))
  <2>1. /\ Keeping(q, clock) /\ q.call.kind = "renew" /\ Renewing(q)
        /\ ~Exposed(q) => Owns(p, record, q.heldAt)
    BY <1>1, <1>3, <1>7 DEF ProcessOK, Keeping, Waiting, Renewing
  <2>2. Keeping(n, clock)
    BY <1>2, <1>3, <2>1 DEF Keeping, Renewing, OnSchedule, Base
  <2>3. q.heldAt <= q.call.issued
    BY <1>1, <2>1, StateTypes DEF Renewing, OnSchedule, Base, ProcessStates
  <2>4. ASSUME ~Exposed(q) PROVE Owns(p, record', q.heldAt)
    <3>1. CASE record' = record
      BY <2>1, <2>4, <3>1
    <3>2. CASE record' = [owner |-> {p}, expires |-> q.call.issued + Ttl]
      BY <1>1, <2>3, <3>2, StateTypes DEF Owns
    <3> QED
      BY <1>5, <3>1, <3>2
  <2>5. Exposed(n) = Exposed(q)
    BY <1>3 DEF Exposed
  <2> QED
    BY <1>3, <2>2, <2>4, <2>5
<1>8. ASSUME n.call.state = "landed"
      PROVE  Owns(p, record', n.call.issued)
  <2>1. allowed
    BY <1>2, <1>3, <1>8
  <2> QED
    BY <1>1, <1>2, <1>3, <1>5, <2>1, StateTypes DEF Owns
<1>9. ProcessOK(p, n, record', clock)
  BY <1>1, <1>2, <1>3, <1>7, <1>8 DEF ProcessOK, Active
<1> QED
  BY <1>3, <1>4, <1>5, <1>6, <1>9, ProcessStep

(* The write of a renewal that threw: it moves its own record alone, and   *)
(* exposes its keeper.                                                     *)
LEMMA LandLateStep == ASSUME Inv, NEW p \in Processes, LandLate(p) PROVE Inv'
<1>1. PICK issued \in proc[p].strays :
        /\ record' = IF MayRenew(p) THEN [owner |-> {p}, expires |-> issued + Ttl] ELSE record
        /\ proc' = [proc EXCEPT ![p].strays = @ \ {issued}, ![p].late = @ \/ MayRenew(p)]
        /\ UNCHANGED clock
  BY DEF LandLate
<1> DEFINE rest == proc[p].strays \ {issued}
           late == proc[p].late \/ MayRenew(p)
           n == [proc[p] EXCEPT !.strays = rest, !.late = late]
<1>2. /\ proc[p] \in ProcessStates /\ ProcessOK(p, proc[p], record, clock)
      /\ issued \in 0..MaxClock
  BY ProcessTypes DEF ProcessStates
<1>3. rest \in SUBSET (0..MaxClock) /\ late \in BOOLEAN
  BY <1>2 DEF ProcessStates
<1>4. proc' = [proc EXCEPT ![p] = n]
  BY <1>1, <1>2, StateTypes DEF ProcessStates
<1>5. late = (proc[p].late \/ MayRenew(p))
  OBVIOUS
<1> HIDE DEF rest, late
<1>6. /\ n \in ProcessStates /\ n.late = late /\ n.pc = proc[p].pc /\ n.call = proc[p].call
      /\ n.heldAt = proc[p].heldAt /\ n.since = proc[p].since /\ n.due = proc[p].due
      /\ n.threw = proc[p].threw /\ n.release = proc[p].release
  BY <1>2, <1>3 DEF ProcessStates
<1> HIDE DEF n
<1>7. record' \in Records
  BY <1>1, <1>2, ProcessTypes, StateTypes DEF Records
<1>8. Keeping(proc[p], clock) => Keeping(n, clock)
  BY <1>6 DEF Keeping, Waiting, Renewing, OnSchedule, Base
<1>9. ~Exposed(n) => ~Exposed(proc[p]) /\ ~n.late
  BY <1>5, <1>6 DEF Exposed
<1>10. ~n.late => record' = record /\ ~proc[p].late
  BY <1>1, <1>5, <1>6
<1>11. ProcessOK(p, n, record', clock)
  BY <1>2, <1>6, <1>8, <1>9, <1>10 DEF ProcessOK, Active
<1> QED
  BY <1>1, <1>4, <1>6, <1>7, <1>11, ProcessStep

(* The release reaches the table: its process claims nothing any more.     *)
LEMMA ReleaseStep == ASSUME Inv, NEW p \in Processes, Release(p) PROVE Inv'
<1> DEFINE n == [proc[p] EXCEPT !.release = "landed"]
<1>1. /\ proc[p] \in ProcessStates /\ ProcessOK(p, proc[p], record, clock)
      /\ proc[p].release = "sent"
  BY ProcessTypes DEF Release
<1>2. /\ n \in ProcessStates /\ n.call = proc[p].call /\ n.pc = proc[p].pc
      /\ n.release = "landed"
  BY <1>1 DEF ProcessStates
<1>3. proc' = [proc EXCEPT ![p] = n] /\ UNCHANGED clock
  BY DEF Release
<1>4. record' \in Records
  BY ProcessTypes, StateTypes DEF Release, Records, NoRecord
<1> HIDE DEF n
<1>5. ProcessOK(p, n, record', clock)
  BY <1>1, <1>2 DEF ProcessOK, Active
<1> QED
  BY <1>2, <1>3, <1>4, <1>5, ProcessStep

(* A process that is past its window, its keeper or its life keeps nothing *)
(* but a call that may still land.                                         *)
LEMMA LeavingStep ==
    ASSUME Inv, NEW p \in Processes, NEW q \in ProcessStates,
           proc' = [proc EXCEPT ![p] = q], UNCHANGED <<clock, record>>,
           q.pc \in {"stopping", "gone"},
           \/ q.call = NoCall
           \/ q.call = proc[p].call /\ q.release = proc[p].release
           \/ q.call = proc[p].call /\ proc[p].pc = "holding"
    PROVE  Inv'
<1>1. /\ proc[p] \in ProcessStates /\ ProcessOK(p, proc[p], record, clock)
      /\ NoCall.state = "none" /\ NoCall.issued = 0 /\ clock \in Nat
      /\ record \in Records
  BY ProcessTypes, CallsTyped, StateTypes
<1>2. proc[p].pc = "holding" => proc[p].call.state = "none" \/ proc[p].call.kind = "renew"
  BY <1>1 DEF ProcessOK, Keeping, Waiting, Renewing
<1>3. ProcessOK(p, q, record, clock)
  BY <1>1, <1>2 DEF ProcessOK, Active
<1> QED
  BY <1>1, <1>3, ProcessStep

(* What losing the lease leaves of a holder.                               *)
LEMMA LostFacts ==
    ASSUME Inv, NEW p \in Processes, NEW q \in ProcessStates
    PROVE  /\ Lost(p, q) \in ProcessStates /\ Lost(p, q).pc \in {"stopping", "gone"}
           /\ Lost(p, q).call = q.call
           /\ Stopped(q) \in ProcessStates /\ Stopped(q).pc = "stopping"
           /\ Stopped(q).call = q.call
<1> DEFINE s == IF q.socket = "open" THEN "closed" ELSE q.socket
<1>1. Stopped(q) = [q EXCEPT !.pc = "stopping", !.release = "sent", !.socket = s]
  BY DEF Stopped, ProcessStates
<1>2. s \in {"none", "connecting", "open", "closed"}
  BY DEF ProcessStates
<1> HIDE DEF s
<1>3. /\ Stopped(q) \in ProcessStates /\ Stopped(q).pc = "stopping"
      /\ Stopped(q).call = q.call
  BY <1>1, <1>2 DEF ProcessStates
<1>4. CASE p \in Pairings
  <2>1. Lost(p, q) = [q EXCEPT !.pc = "gone"]
    BY <1>4 DEF Lost
  <2>2. /\ Lost(p, q) \in ProcessStates /\ Lost(p, q).pc = "gone" /\ Lost(p, q).call = q.call
    BY <2>1 DEF ProcessStates
  <2> QED
    BY <1>3, <2>2
<1>5. CASE p \notin Pairings
  BY <1>3, <1>5 DEF Lost
<1> QED
  BY <1>4, <1>5

(* A holder whose call, timer or stamp moves within its window.            *)
LEMMA HoldingStep ==
    ASSUME Inv, NEW p \in Processes, NEW q \in ProcessStates,
           proc' = [proc EXCEPT ![p] = q], UNCHANGED <<clock, record>>,
           q.pc = "holding", q.release = "none",
           q.call.issued <= clock,
           Keeping(q, clock), ~Exposed(q) => Owns(p, record, q.heldAt),
           q.call.state # "landed"
    PROVE  Inv'
<1>1. record \in Records /\ ProcessOK(p, proc[p], record, clock)
  BY ProcessTypes
<1>2. q.call.kind = "acquire" /\ q.call.state # "none" => q.release = "none"
  OBVIOUS
<1>3. ProcessOK(p, q, record, clock)
  BY <1>1, <1>2 DEF ProcessOK, Active
<1> QED
  BY <1>1, <1>3, ProcessStep

(* The acquisition is answered.                                            *)
LEMMA AcquiredStep == ASSUME Inv, NEW p \in Processes, Acquired(p) PROVE Inv'
<1>1. /\ proc[p] \in ProcessStates /\ ProcessOK(p, proc[p], record, clock)
      /\ proc[p].pc = "acquiring" /\ UNCHANGED <<clock, record>>
      /\ proc[p].call \in Calls /\ proc[p].call.issued \in Nat
      /\ proc[p].call.issued <= clock
      /\ NoCall \in Calls
  BY ProcessTypes, CallsTyped DEF Acquired, ProcessOK
<1>2. CASE /\ proc[p].call.state = "landed"
           /\ clock - proc[p].call.issued < LeaseGrace
           /\ Set(p, [proc[p] EXCEPT !.pc = "holding", !.heldAt = HeldSince(proc[p]),
                                     !.since = clock, !.due = clock + RenewPeriod,
                                     !.call = NoCall])
  <2> DEFINE h == proc[p].call.issued
             due == clock + RenewPeriod
             q == [proc[p] EXCEPT !.pc = "holding", !.heldAt = h, !.since = clock, !.due = due,
                                  !.call = NoCall]
  <2>1. h \in 0..MaxClock /\ clock \in 0..MaxClock /\ due \in 0..(MaxClock + RenewPeriod) /\ h \in Nat
    BY <1>1, StateTypes DEF Calls
  <2>2. proc' = [proc EXCEPT ![p] = q]
    BY <1>2 DEF Set, HeldSince
  <2>3. /\ clock < h + 2 * RenewPeriod /\ h <= clock /\ due = clock + RenewPeriod
        /\ clock <= h + Ttl
    BY <1>1, <1>2, <2>1, StateTypes DEF LeaseGrace
  <2>4. proc[p].late \/ Owns(p, record, h)
    BY <1>1, <1>2, <2>3 DEF ProcessOK
  <2>5. proc[p].release = "none"
    BY <1>1 DEF ProcessOK, Active
  <2> HIDE DEF h, due
  <2>6. /\ q \in ProcessStates /\ q.pc = "holding" /\ q.release = "none"
        /\ q.heldAt = h /\ q.since = clock /\ q.due = due /\ q.call = NoCall
        /\ q.late = proc[p].late
    BY <1>1, <2>1, <2>5 DEF ProcessStates
  <2> HIDE DEF q
  <2>7. OnSchedule(due, q) /\ clock <= due
    BY <2>1, <2>3, <2>6, StateTypes DEF OnSchedule, Base
  <2>8. Keeping(q, clock) /\ q.call.issued <= clock
    BY <2>3, <2>6, <2>7, CallsTyped, StateTypes DEF Keeping, Waiting
  <2>9. ~Exposed(q) => Owns(p, record, q.heldAt)
    BY <2>4, <2>6 DEF Exposed
  <2> QED
    BY <1>1, <2>2, <2>6, <2>8, <2>9, CallsTyped, HoldingStep
<1>3. CASE Set(p, [proc[p] EXCEPT !.pc = "stopping", !.call = NoCall, !.release = "sent",
                                  !.socket = "closed"])
  <2> DEFINE q == [proc[p] EXCEPT !.pc = "stopping", !.call = NoCall, !.release = "sent",
                                  !.socket = "closed"]
  <2>1. /\ q \in ProcessStates /\ q.pc = "stopping" /\ q.call = NoCall
        /\ proc' = [proc EXCEPT ![p] = q]
    BY <1>1, <1>3 DEF ProcessStates, Set
  <2> HIDE DEF q
  <2> QED
    BY <1>1, <2>1, LeavingStep
<1>4. CASE Set(p, [proc[p] EXCEPT !.pc = "gone", !.call = NoCall])
  <2> DEFINE q == [proc[p] EXCEPT !.pc = "gone", !.call = NoCall]
  <2>1. /\ q \in ProcessStates /\ q.pc = "gone" /\ q.call = NoCall
        /\ proc' = [proc EXCEPT ![p] = q]
    BY <1>1, <1>4 DEF ProcessStates, Set
  <2> HIDE DEF q
  <2> QED
    BY <1>1, <2>1, LeavingStep
<1> QED
  BY <1>2, <1>3, <1>4 DEF Acquired

(* What the keeper of a holder may count on.                               *)
LEMMA HolderFacts ==
    ASSUME Inv, NEW p \in Processes, proc[p].pc = "holding"
    PROVE  /\ proc[p] \in ProcessStates /\ proc[p].release = "none"
           /\ Keeping(proc[p], clock)
           /\ ~Exposed(proc[p]) => Owns(p, record, proc[p].heldAt)
           /\ proc[p].call.issued <= clock
           /\ proc[p].call.state # "none" =>
                /\ Renewing(proc[p])
                /\ proc[p].heldAt + RenewPeriod <= proc[p].call.issued
<1>1. /\ proc[p] \in ProcessStates /\ ProcessOK(p, proc[p], record, clock)
      /\ proc[p].heldAt \in Nat /\ proc[p].call.issued \in Nat
  BY ProcessTypes
<1>2. /\ proc[p].release = "none" /\ proc[p].call.issued <= clock
      /\ Keeping(proc[p], clock)
      /\ ~Exposed(proc[p]) => Owns(p, record, proc[p].heldAt)
  BY <1>1 DEF ProcessOK, Active
<1>3. proc[p].call.state # "none" => Renewing(proc[p])
  BY <1>2 DEF Keeping, Waiting
<1>4. Renewing(proc[p]) =>
        proc[p].heldAt + RenewPeriod <= proc[p].call.issued
  BY <1>1, StateTypes, ProcessTypes DEF Renewing, OnSchedule, Base
<1> QED
  BY <1>1, <1>2, <1>3, <1>4

(* The keeper's timer: a renewal goes out on schedule, and one that is     *)
(* still out at the next timer is overdue.                                 *)
LEMMA TickStep == ASSUME Inv, NEW p \in Processes, Tick(p) PROVE Inv'
<1> DEFINE due == clock + RenewPeriod
           q == [proc[p] EXCEPT !.due = due]
<1>1. /\ proc[p].pc = "holding" /\ clock = proc[p].due
      /\ UNCHANGED <<clock, record>> /\ clock \in Nat
      /\ proc[p].heldAt \in Nat /\ proc[p].call.issued \in Nat
  BY ProcessTypes, StateTypes DEF Tick
<1>2. due \in 0..(MaxClock + RenewPeriod) /\ due \in Nat /\ clock <= due
  BY StateTypes
<1>3. CASE proc[p].call.state = "none" /\ Set(p, [q EXCEPT !.call = Sent("renew")])
  <2> DEFINE n == [q EXCEPT !.call = Sent("renew")]
  <2>1. Sent("renew") \in Calls
    BY CallsTyped
  <2> HIDE DEF due
  <2>2. /\ n \in ProcessStates /\ n.pc = "holding" /\ n.release = "none"
        /\ n.heldAt = proc[p].heldAt /\ n.due = due /\ n.call = Sent("renew")
        /\ n.since = proc[p].since /\ n.threw = proc[p].threw /\ n.late = proc[p].late
    BY <1>1, <1>2, <2>1, HolderFacts DEF ProcessStates
  <2>3. proc' = [proc EXCEPT ![p] = n]
    BY <1>3 DEF Set
  <2> HIDE DEF n, q
  <2>4. /\ OnSchedule(clock, proc[p]) /\ proc[p].heldAt <= clock /\ proc[p].since <= clock
        /\ proc[p].since < proc[p].heldAt + 2 * RenewPeriod
    BY <1>1, <1>3, HolderFacts DEF Keeping, Waiting, Renewing
  <2>5. Renewing(n)
    BY <2>2, <2>4, CallsTyped DEF Renewing, OnSchedule, Base, due
  <2>6. Keeping(n, clock)
    BY <1>2, <2>2, <2>4, <2>5 DEF Keeping
  <2>7. n.call.issued <= clock /\ n.call.state # "landed"
    BY <1>1, <2>2, CallsTyped
  <2>8. ~Exposed(n) => Owns(p, record, n.heldAt)
    BY <1>1, <2>2, HolderFacts DEF Exposed
  <2> QED
    BY <1>1, <2>2, <2>3, <2>6, <2>7, <2>8, HoldingStep
<1>4. CASE proc[p].call.state # "none"
  <2>1. Overdue(q)
    <3>1. q.heldAt = proc[p].heldAt
      BY <1>1, HolderFacts DEF ProcessStates
    <3>2. /\ clock = proc[p].call.issued + RenewPeriod
          /\ proc[p].heldAt + RenewPeriod <= proc[p].call.issued
      BY <1>1, <1>4, HolderFacts DEF Renewing
    <3> HIDE DEF q, due
    <3> QED
      BY <1>1, <3>1, <3>2, StateTypes DEF Overdue, LeaseGrace
  <2>2. Set(p, Lost(p, q))
    BY <1>4, <2>1, <1>1, HolderFacts DEF Tick, ProcessStates
  <2>3. q \in ProcessStates /\ q.call = proc[p].call
    <3> HIDE DEF due
    <3> QED
      BY <1>1, <1>2, HolderFacts DEF ProcessStates
  <2> HIDE DEF q
  <2>4. /\ Lost(p, q) \in ProcessStates /\ Lost(p, q).pc \in {"stopping", "gone"}
        /\ Lost(p, q).call = proc[p].call
    BY <2>3, LostFacts
  <2> QED
    BY <1>1, <2>2, <2>4, LeavingStep DEF Set
<1> QED
  <2>1. \/ q.call.state = "none" /\ Set(p, [q EXCEPT !.call = Sent("renew")])
        \/ q.call.state # "none"
    BY DEF Tick
  <2>2. q.call = proc[p].call
    BY <1>1, HolderFacts DEF ProcessStates
  <2> QED
    BY <1>3, <1>4, <2>1, <2>2

(* A renewal is answered: from the instant it was stamped with, the record *)
(* is held for another window.                                             *)
LEMMA RenewedStep == ASSUME Inv, NEW p \in Processes, Renewed(p) PROVE Inv'
<1>1. /\ proc[p].pc = "holding" /\ UNCHANGED <<clock, record>> /\ clock \in Nat
      /\ proc[p].heldAt \in Nat /\ proc[p].call.issued \in Nat
      /\ NoCall \in Calls /\ proc[p] \in ProcessStates
  BY ProcessTypes, StateTypes, CallsTyped DEF Renewed
<1>2. CASE /\ proc[p].call.state = "landed"
           /\ Set(p, [proc[p] EXCEPT !.heldAt = HeldSince(proc[p]), !.call = NoCall])
  <2> DEFINE h == proc[p].call.issued
             n == [proc[p] EXCEPT !.heldAt = h, !.call = NoCall]
  <2>1. h \in 0..MaxClock
    BY <1>1, ProcessTypes DEF Calls
  <2>2. proc' = [proc EXCEPT ![p] = n]
    BY <1>2 DEF Set, HeldSince
  <2>3. /\ n \in ProcessStates /\ n.pc = "holding" /\ n.release = "none"
        /\ n.heldAt = proc[p].call.issued /\ n.due = proc[p].due /\ n.call = NoCall
        /\ n.since = proc[p].since /\ n.late = proc[p].late
    <3> HIDE DEF h
    <3>1. /\ n \in ProcessStates /\ n.pc = "holding" /\ n.release = "none"
          /\ n.heldAt = h /\ n.due = proc[p].due /\ n.call = NoCall
          /\ n.since = proc[p].since /\ n.late = proc[p].late
      BY <1>1, <2>1, HolderFacts DEF ProcessStates
    <3> QED
      BY <3>1 DEF h
  <2> HIDE DEF n, h
  <2>4. /\ proc[p].due = proc[p].call.issued + RenewPeriod
        /\ proc[p].call.issued <= clock /\ clock <= proc[p].due
        /\ proc[p].since <= proc[p].call.issued /\ proc[p].since <= clock
    BY <1>1, <1>2, HolderFacts, ProcessTypes, StateTypes
    DEF Renewing, Keeping, OnSchedule, Base
  <2>5. OnSchedule(n.due, n)
    BY <1>1, <2>3, <2>4, StateTypes, ProcessTypes DEF OnSchedule, Base
  <2>6. Keeping(n, clock) /\ n.call.issued <= clock /\ n.call.state # "landed"
    BY <1>1, <2>3, <2>4, <2>5, CallsTyped, StateTypes, ProcessTypes DEF Keeping, Waiting
  <2>7. clock <= proc[p].call.issued + Ttl
    BY <1>1, <2>4, StateTypes
  <2>8. ~Exposed(n) => Owns(p, record, n.heldAt)
    BY <1>1, <1>2, <2>3, <2>7, ProcessTypes DEF ProcessOK, Exposed
  <2> QED
    BY <1>1, <2>2, <2>3, <2>6, <2>8, HoldingStep
<1>3. CASE Set(p, [Lost(p, proc[p]) EXCEPT !.call = NoCall])
  <2> DEFINE m == Lost(p, proc[p])
             n == [m EXCEPT !.call = NoCall]
  <2>1. m \in ProcessStates /\ m.pc \in {"stopping", "gone"}
    BY <1>1, LostFacts
  <2>2. proc' = [proc EXCEPT ![p] = n]
    BY <1>3 DEF Set
  <2> HIDE DEF m
  <2>3. n \in ProcessStates /\ n.pc \in {"stopping", "gone"} /\ n.call = NoCall
    BY <1>1, <2>1 DEF ProcessStates
  <2> HIDE DEF n
  <2> QED
    BY <1>1, <2>2, <2>3, LeavingStep
<1> QED
  BY <1>2, <1>3 DEF Renewed

(* A renewal throws: within the grace window there is time for one more.   *)
LEMMA RenewThrowsStep == ASSUME Inv, NEW p \in Processes, RenewThrows(p) PROVE Inv'
<1> DEFINE strays == IF proc[p].call.state = "sent"
                     THEN proc[p].strays \cup {proc[p].call.issued} ELSE proc[p].strays
           n == [proc[p] EXCEPT !.call = NoCall, !.threw = TRUE, !.strays = strays]
<1>1. /\ proc[p].pc = "holding" /\ proc[p].call.state # "none"
      /\ UNCHANGED <<clock, record>> /\ clock \in Nat
      /\ proc[p].heldAt \in Nat /\ proc[p].since \in Nat
      /\ proc[p].call.issued \in Nat /\ proc[p].due \in Nat
      /\ NoCall \in Calls /\ proc[p] \in ProcessStates
  BY ProcessTypes, StateTypes, CallsTyped DEF RenewThrows
<1>2. strays \in SUBSET (0..MaxClock)
  BY <1>1 DEF ProcessStates, Calls
<1>3. Set(p, IF GivesUp(n) THEN Lost(p, n) ELSE n)
  BY <1>1 DEF RenewThrows, ProcessStates
<1> HIDE DEF strays
<1>4. /\ n \in ProcessStates /\ n.pc = "holding" /\ n.release = "none" /\ n.threw = TRUE
      /\ n.heldAt = proc[p].heldAt /\ n.since = proc[p].since /\ n.due = proc[p].due
      /\ n.call = NoCall /\ n.late = proc[p].late
  BY <1>1, <1>2, HolderFacts DEF ProcessStates
<1> HIDE DEF n
<1>5. CASE GivesUp(n)
  <2>1. /\ Lost(p, n) \in ProcessStates /\ Lost(p, n).pc \in {"stopping", "gone"}
        /\ Lost(p, n).call = NoCall
    BY <1>4, LostFacts
  <2> QED
    BY <1>1, <1>3, <1>5, <2>1, LeavingStep DEF Set
<1>6. CASE ~GivesUp(n)
  <2>1. clock < proc[p].heldAt + 2 * RenewPeriod
    BY <1>1, <1>4, <1>6, StateTypes DEF GivesUp, LeaseGrace
  <2>2. /\ OnSchedule(proc[p].call.issued, proc[p])
        /\ proc[p].due = proc[p].call.issued + RenewPeriod
        /\ proc[p].call.issued <= clock /\ proc[p].heldAt <= clock /\ clock <= proc[p].due
        /\ proc[p].since <= clock
        /\ proc[p].since < proc[p].heldAt + 2 * RenewPeriod
    BY <1>1, HolderFacts DEF Renewing, Keeping
  <2>3. /\ proc[p].call.issued = Base(proc[p]) + RenewPeriod
        /\ proc[p].since < proc[p].heldAt + RenewPeriod
    BY <1>1, <2>1, <2>2, StateTypes DEF OnSchedule, Base
  <2>4. Base(n) = Base(proc[p]) /\ Base(n) \in Nat
    BY <1>1, <1>4 DEF Base
  <2>5. OnSchedule(n.due, n)
    BY <1>1, <1>4, <2>2, <2>3, <2>4, StateTypes DEF OnSchedule
  <2>6. Keeping(n, clock) /\ n.call.issued <= clock /\ n.call.state # "landed"
    BY <1>1, <1>4, <2>2, <2>5, CallsTyped DEF Keeping, Waiting
  <2>7. ~Exposed(n) => Owns(p, record, n.heldAt)
    BY <1>1, <1>4, HolderFacts DEF Exposed
  <2> QED
    BY <1>1, <1>3, <1>4, <1>6, <2>6, <2>7, HoldingStep DEF Set
<1> QED
  BY <1>5, <1>6

(* A step on the socket alone changes nothing of the lease.                *)
LEMMA SocketStep ==
    ASSUME Inv, NEW p \in Processes, NEW s \in {"connecting", "open"},
           proc' = [proc EXCEPT ![p].socket = s], UNCHANGED <<clock, record>>
    PROVE  Inv'
<1> DEFINE q == [proc[p] EXCEPT !.socket = s]
<1>1. proc[p] \in ProcessStates /\ ProcessOK(p, proc[p], record, clock) /\ record \in Records
  BY ProcessTypes
<1>2. /\ q \in ProcessStates /\ q.pc = proc[p].pc /\ q.call = proc[p].call
      /\ q.heldAt = proc[p].heldAt /\ q.since = proc[p].since /\ q.due = proc[p].due
      /\ q.threw = proc[p].threw /\ q.late = proc[p].late /\ q.release = proc[p].release
  BY <1>1 DEF ProcessStates
<1>3. proc' = [proc EXCEPT ![p] = q]
  OBVIOUS
<1> HIDE DEF q
<1>4. ProcessOK(p, q, record, clock)
  BY <1>1, <1>2 DEF ProcessOK, Active, Keeping, Waiting, Renewing, OnSchedule, Base, Exposed
<1> QED
  BY <1>1, <1>2, <1>3, <1>4, ProcessStep

(* The process stops, exits or crashes.                                    *)
LEMMA EndStep ==
    ASSUME Inv, NEW p \in Processes, Stop(p) \/ Exit(p) \/ Crash(p)
    PROVE  Inv'
<1>1. proc[p] \in ProcessStates /\ UNCHANGED <<clock, record>>
  BY ProcessTypes DEF Stop, Exit, Crash
<1>2. CASE Stop(p)
  <2> DEFINE m == Stopped(proc[p])
             q == [m EXCEPT !.socket = "closed"]
  <2>1. m \in ProcessStates /\ m.pc = "stopping" /\ m.call = proc[p].call
    BY <1>1, LostFacts
  <2>2. proc' = [proc EXCEPT ![p] = q] /\ proc[p].pc = "holding"
    BY <1>2 DEF Stop, Set
  <2> HIDE DEF m
  <2>3. q \in ProcessStates /\ q.pc = "stopping" /\ q.call = proc[p].call
    BY <2>1 DEF ProcessStates
  <2> HIDE DEF q
  <2> QED
    BY <1>1, <2>2, <2>3, LeavingStep
<1>3. CASE Exit(p) \/ Crash(p)
  <2> DEFINE q == [proc[p] EXCEPT !.pc = "gone"]
  <2>1. /\ q \in ProcessStates /\ q.pc = "gone" /\ q.call = proc[p].call
        /\ q.release = proc[p].release
    BY <1>1 DEF ProcessStates
  <2>2. proc' = [proc EXCEPT ![p] = q]
    BY <1>3 DEF Exit, Crash
  <2> HIDE DEF q
  <2> QED
    BY <1>1, <2>1, <2>2, LeavingStep
<1> QED
  BY <1>2, <1>3

(* Time passes, and no timer is skipped.                                   *)
LEMMA AdvanceStep == ASSUME Inv, Advance PROVE Inv'
<1>1. /\ clock' = clock + 1 /\ clock < MaxClock /\ UNCHANGED <<record, proc>>
      /\ clock \in Nat /\ clock' \in 0..MaxClock
  BY StateTypes DEF Advance
<1>2. TypeOK'
  BY <1>1 DEF Inv, TypeOK
<1>3. ASSUME NEW p \in Processes PROVE ProcessOK(p, proc[p], record, clock')
  <2>1. /\ proc[p] \in ProcessStates /\ ProcessOK(p, proc[p], record, clock)
        /\ proc[p].heldAt \in Nat /\ proc[p].due \in Nat /\ proc[p].call.issued \in Nat
    BY ProcessTypes
  <2>2. ASSUME proc[p].pc = "holding" PROVE Keeping(proc[p], clock')
    <3>1. Keeping(proc[p], clock) /\ clock < proc[p].due
      BY <2>1, <2>2 DEF ProcessOK, Advance
    <3>2. /\ proc[p].heldAt <= clock' /\ proc[p].since <= clock' /\ clock' <= proc[p].due
      BY <1>1, <2>1, <3>1, ProcessTypes DEF Keeping
    <3> QED
      BY <3>1, <3>2 DEF Keeping
  <2>3. proc[p].call.issued <= clock'
    BY <1>1, <2>1 DEF ProcessOK
  <2>4. clock' <= proc[p].call.issued + Ttl => clock <= proc[p].call.issued + Ttl
    BY <1>1, <2>1, StateTypes
  <2> QED
    BY <2>1, <2>2, <2>3, <2>4 DEF ProcessOK
<1> QED
  BY <1>1, <1>2, <1>3 DEF Inv

-----------------------------------------------------------------------------
(* The induction.                                                          *)

(* Nobody holds the lease at first.                                        *)
LEMMA InitInv == ASSUME Init PROVE Inv
<1>1. /\ RenewPeriod \in Nat /\ Ttl \in Nat /\ MaxClock \in Nat
  BY LeaseAssumption
<1>2. Unborn \in ProcessStates
  BY <1>1 DEF Unborn, NoCall, ProcessStates, Calls
<1>3. TypeOK
  BY <1>1, <1>2 DEF Init, TypeOK, NoRecord, ProcessStates, Calls
<1>4. ASSUME NEW p \in Processes PROVE ProcessOK(p, proc[p], record, clock)
  BY <1>1 DEF Init, Unborn, NoCall, ProcessOK, Active
<1> QED
  BY <1>3, <1>4 DEF Inv

(* Every step keeps the invariant.                                         *)
LEMMA NextInv == ASSUME Inv, [Next]_vars PROVE Inv'
<1>1. ASSUME NEW p \in Processes, Connect(p) \/ Open(p) PROVE Inv'
  BY <1>1, SocketStep DEF Connect, Open
<1>2. CASE UNCHANGED vars
  BY <1>2 DEF vars, Inv, TypeOK
<1> QED
  BY <1>1, <1>2, AcquireStep, AcquiredStep, TickStep, RenewedStep, RenewThrowsStep,
     EndStep, LandStep, LandLateStep, ReleaseStep, AdvanceStep DEF Next

(* The invariant, on which the theorems below rest.                        *)
THEOREM LeaseInvariance == Spec => []Inv
<1>1. Init => Inv
  BY InitInv
<1>2. Inv /\ [Next]_vars => Inv'
  BY NextInv
<1> QED
  BY <1>1, <1>2, PTL DEF Spec

(* However long its calls take, hang or throw, a keeper that is not        *)
(* exposed owns a record that has not expired (lease.ts:60-67).            *)
THEOREM HolderOwnsHolds == Spec => []HolderOwns
<1>1. Inv => HolderOwns
  BY InvHolderOwns
<1> QED
  BY <1>1, LeaseInvariance, PTL

(* Every keeper gives up less than one renew period after the window of    *)
(* the stamp it holds from (lease.ts:20-26, 88-91).                        *)
THEOREM OverrunIsShortHolds == Spec => []OverrunIsShort
<1>1. Inv => OverrunIsShort
  BY HeldInTime DEF OverrunIsShort
<1> QED
  BY <1>1, LeaseInvariance, PTL

(* A keeper that is not exposed owns a record that has not expired, and    *)
(* one that is gives up less than a renew period after its window          *)
(* (lease.ts:20-26, 60-67).                                                *)
THEOREM LeaseIsHeld == Spec => []LeaseHolds
<1>1. HolderOwns /\ OverrunIsShort => LeaseHolds
  BY DEF LeaseHolds
<1> QED
  BY <1>1, HolderOwnsHolds, OverrunIsShortHolds, PTL

(* A renewal in flight when its holder releases never brings the lease     *)
(* back (lease.ts, release): its condition cannot pass on a deleted row.   *)
THEOREM ReleasesAreFinal == Spec => NeverResurrected
<1>1. ASSUME Inv, [Next]_vars, NEW p \in Processes,
             proc[p].release = "landed", record'.owner = {p}
      PROVE  record.owner = {p}
  <2>1. CASE record' = record
    BY <1>1, <2>1
  <2>2. CASE record' # record
    <3>1. PICK s \in Processes : Land(s) \/ LandLate(s) \/ Release(s)
      BY <1>1, <2>2
      DEF Next, vars, Acquire, Acquired, Tick, Renewed, RenewThrows, Connect, Open, Stop,
          Exit, Crash, Advance
    <3>2. s = p /\ (Land(p) \/ LandLate(p))
      <4>1. ~Release(s)
        BY <1>1, <2>2 DEF Release, NoRecord
      <4>2. CASE Land(s)
        <5>1. record' = record \/ record'.owner = {s}
          BY <4>2 DEF Land
        <5>2. s = p
          BY <1>1, <2>2, <5>1
        <5> QED
          BY <4>2, <5>2
      <4>3. CASE LandLate(s)
        <5>1. record' = record \/ record'.owner = {s}
          BY <4>3 DEF LandLate
        <5>2. s = p
          BY <1>1, <2>2, <5>1
        <5> QED
          BY <4>3, <5>2
      <4> QED
        BY <3>1, <4>1, <4>2, <4>3
    <3>3. CASE Land(p)
      <4>1. /\ proc[p].call \in Calls /\ ProcessOK(p, proc[p], record, clock)
            /\ proc[p].call.state = "sent"
        BY <1>1, <3>3, ProcessTypes DEF Land
      <4>2. proc[p].call.kind # "acquire"
        BY <1>1, <4>1 DEF ProcessOK
      <4> QED
        BY <2>2, <3>3, <4>2 DEF Land, MayRenew
    <3>4. CASE LandLate(p)
      BY <2>2, <3>4 DEF LandLate, MayRenew
    <3> QED
      BY <3>2, <3>3, <3>4
  <2> QED
    BY <2>1, <2>2
<1>2. Inv /\ [Next]_vars =>
        [\A p \in Processes :
           proc[p].release = "landed" /\ record'.owner = {p} => record.owner = {p}]_vars
  BY <1>1
<1> QED
  BY <1>2, LeaseInvariance, PTL DEF Spec, NeverResurrected

=============================================================================
