----------------------------- MODULE SessionLease -----------------------------
(***************************************************************************)
(* The lease on the one WhatsApp session of the bot: the item AUTH#bot /   *)
(* lease and its keeper (whatsapp-bot/src/whatsapp/lease.ts), as the       *)
(* service (main.ts) and the pairing command (pair.ts) use them.           *)
(*                                                                         *)
(* A process is one run of either program: its owner id is its own, and it *)
(* never comes back.  A conditional write is sent at one instant, stamped  *)
(* with it, may reach the table at any later one or never, and its answer  *)
(* may reach the process later still, or never.  The instants are whole    *)
(* units of time and every process reads the same clock; a timer fires at  *)
(* the instant it is due.                                                  *)
(***************************************************************************)
EXTENDS Integers

CONSTANTS
    Processes,
    Pairings,     \* the runs of the pairing command among them
    Ttl,          \* LEASE_TTL_MS
    RenewPeriod,  \* LEASE_RENEW_MS
    MaxClock      \* bound: instants

ASSUME LeaseAssumption ==
    /\ Pairings \subseteq Processes
    /\ RenewPeriod \in Nat \ {0}
    /\ Ttl = 3 * RenewPeriod
    /\ MaxClock \in Nat

LeaseGrace == Ttl - RenewPeriod

VARIABLES
    clock,
    record,  \* the stored lease: its owners (none or one) and its expiry
    proc     \* the processes

vars == <<clock, record, proc>>

NoRecord == [owner |-> {}, expires |-> 0]

(* A write under way: its condition, the instant that stamps it, and what  *)
(* became of it.                                                           *)
NoCall == [kind |-> "renew", issued |-> 0, state |-> "none"]

(* A keeper has the stamp it holds from, the next instant of its timer and *)
(* its one renewal; "since" is when it was built, "threw" whether one of   *)
(* its renewals has thrown.  "strays" are the stamps of renewals that      *)
(* threw before their write reached the table, and "late" tells that one   *)
(* of those has reached it since.                                          *)
Unborn == [pc |-> "off", heldAt |-> 0, since |-> 0, due |-> 0, call |-> NoCall,
           threw |-> FALSE, strays |-> {}, late |-> FALSE,
           release |-> "none", socket |-> "none"]

(* The stored lease and the processes are of the shapes the code gives     *)
(* them; every stamp is an instant that has come (lease.ts, write).        *)
TypeOK ==
    /\ clock \in 0..MaxClock
    /\ record \in [owner : {{}} \cup {{p} : p \in Processes}, expires : 0..(MaxClock + Ttl)]
    /\ proc \in [Processes ->
         [pc : {"off", "acquiring", "holding", "stopping", "gone"},
          heldAt : 0..MaxClock, since : 0..MaxClock, due : 0..(MaxClock + RenewPeriod),
          call : [kind : {"acquire", "renew"}, issued : 0..MaxClock,
                  state : {"none", "sent", "landed", "refused"}],
          threw : BOOLEAN, strays : SUBSET (0..MaxClock), late : BOOLEAN,
          release : {"none", "sent", "landed"},
          socket : {"none", "connecting", "open", "closed"}]]

Init ==
    /\ clock = 0
    /\ record = NoRecord
    /\ proc = [p \in Processes |-> Unborn]

Set(p, q) == proc' = [proc EXCEPT ![p] = q]

Sent(kind) == [kind |-> kind, issued |-> clock, state |-> "sent"]

-----------------------------------------------------------------------------
(* acquireLease: the write is stamped, and sent.                           *)
Acquire(p) ==
    /\ proc[p].pc = "off"
    /\ Set(p, [Unborn EXCEPT !.pc = "acquiring", !.call = Sent("acquire")])
    /\ UNCHANGED <<clock, record>>

(* The acquisition's condition, against its own stamp.                     *)
MayAcquire(p, issued) ==
    record.owner = {} \/ record.expires < issued \/ record.owner = {p}

(* Mutant: a renewal under the acquisition's condition.                    *)
MayRenew_Absent(p) == record.owner = {} \/ record.owner = {p}

MayRenew(p) == record.owner = {p}

(* A write reaches the table, its process alive or not.                    *)
Land(p) ==
    /\ proc[p].call.state = "sent"
    /\ LET issued == proc[p].call.issued
           allowed == IF proc[p].call.kind = "acquire" THEN MayAcquire(p, issued) ELSE MayRenew(p)
       IN  /\ record' = IF allowed THEN [owner |-> {p}, expires |-> issued + Ttl] ELSE record
           /\ proc' = [proc EXCEPT ![p].call.state = IF allowed THEN "landed" ELSE "refused"]
    /\ UNCHANGED clock

(* The write of a renewal that threw reaches the table after all, with the *)
(* expiry of its own stamp.                                                *)
LandLate(p) ==
    /\ \E issued \in proc[p].strays :
        /\ record' = IF MayRenew(p) THEN [owner |-> {p}, expires |-> issued + Ttl] ELSE record
        /\ proc' = [proc EXCEPT ![p].strays = @ \ {issued}, ![p].late = @ \/ MayRenew(p)]
    /\ UNCHANGED clock

(* Mutant: a write holds from its answer.                                  *)
HeldSince_Answer(q) == clock

(* The instant a write was stamped with, from which its expiry counts.     *)
HeldSince(q) == q.call.issued

(* The acquisition is answered: held from its stamp, refused because       *)
(* somebody else holds it, or too late to be trusted, and handed back.     *)
Acquired(p) ==
    /\ proc[p].pc = "acquiring"
    /\ LET q == proc[p] IN
        \/ /\ q.call.state = "landed"
           /\ clock - q.call.issued < LeaseGrace
           /\ Set(p, [q EXCEPT !.pc = "holding", !.heldAt = HeldSince(q), !.since = clock,
                               !.due = clock + RenewPeriod, !.call = NoCall])
        \/ /\ q.call.state = "landed"
           /\ clock - q.call.issued >= LeaseGrace
           /\ Set(p, [q EXCEPT !.pc = "stopping", !.call = NoCall, !.release = "sent",
                               !.socket = "closed"])
        \/ /\ q.call.state = "refused"
           /\ Set(p, [q EXCEPT !.pc = "gone", !.call = NoCall])
    /\ UNCHANGED <<clock, record>>

-----------------------------------------------------------------------------
(* shutdown: the keeper stops, a client that exists closes its socket, and *)
(* the lease is released.  While the client is still being built there is  *)
(* nothing to close.  The pairing command just exits when it loses it.     *)
Stopped(q) ==
    [q EXCEPT !.pc = "stopping", !.release = "sent",
              !.socket = IF @ = "open" THEN "closed" ELSE @]

Lost(p, q) == IF p \in Pairings THEN [q EXCEPT !.pc = "gone"] ELSE Stopped(q)

(* A renewal still in flight is not a renewal.                             *)
Overdue(q) == clock - q.heldAt >= LeaseGrace

(* The keeper's timer: one renewal at a time, and the deadline looked at   *)
(* only while one is outstanding.                                          *)
Tick(p) ==
    /\ proc[p].pc = "holding"
    /\ clock = proc[p].due
    /\ LET q == [proc[p] EXCEPT !.due = clock + RenewPeriod] IN
        \/ /\ q.call.state = "none"
           /\ Set(p, [q EXCEPT !.call = Sent("renew")])
        \/ /\ q.call.state # "none" /\ Overdue(q)
           /\ Set(p, Lost(p, q))
        \/ /\ q.call.state # "none" /\ ~Overdue(q)
           /\ Set(p, q)
    /\ UNCHANGED <<clock, record>>

(* A renewal is answered.                                                  *)
Renewed(p) ==
    /\ proc[p].pc = "holding"
    /\ LET q == proc[p] IN
        \/ /\ q.call.state = "landed"
           /\ Set(p, [q EXCEPT !.heldAt = HeldSince(q), !.call = NoCall])
        \/ /\ q.call.state = "refused"
           /\ Set(p, [Lost(p, q) EXCEPT !.call = NoCall])
    /\ UNCHANGED <<clock, record>>

(* A blip is not a lost lease; a blip that outlasts the grace window is.   *)
GivesUp(q) == clock - q.heldAt >= LeaseGrace

(* A renewal throws, at any instant: its write has landed, or may yet.     *)
RenewThrows(p) ==
    /\ proc[p].pc = "holding"
    /\ proc[p].call.state # "none"
    /\ LET q == proc[p]
           n == [q EXCEPT !.call = NoCall, !.threw = TRUE,
                          !.strays = IF q.call.state = "sent" THEN @ \cup {q.call.issued} ELSE @]
       IN  Set(p, IF GivesUp(n) THEN Lost(p, n) ELSE n)
    /\ UNCHANGED <<clock, record>>

-----------------------------------------------------------------------------
(* connectWhatsApp is awaited, then its socket is opened: its own flag is  *)
(* the only thing that stops it, and nobody can set it before it returns.  *)
(* Neither looks at whether the keeper has given the lease up since.       *)
Connect(p) ==
    /\ proc[p].pc \in {"holding", "stopping"}
    /\ proc[p].socket = "none"
    /\ proc' = [proc EXCEPT ![p].socket = "connecting"]
    /\ UNCHANGED <<clock, record>>

Open(p) ==
    /\ proc[p].pc \in {"holding", "stopping"}
    /\ proc[p].socket = "connecting"
    /\ proc' = [proc EXCEPT ![p].socket = "open"]
    /\ UNCHANGED <<clock, record>>

(* The process stops of its own accord: a signal or a logout once its      *)
(* client exists, no paired device before there is one, or, in the pairing *)
(* command, any error on the way.                                          *)
Stop(p) ==
    /\ proc[p].pc = "holding"
    /\ proc[p].socket # "connecting" \/ p \in Pairings
    /\ Set(p, [Stopped(proc[p]) EXCEPT !.socket = "closed"])
    /\ UNCHANGED <<clock, record>>

(* The release reaches the table: a delete, conditional on still owning.   *)
Release(p) ==
    /\ proc[p].release = "sent"
    /\ record' = IF record.owner = {p} THEN NoRecord ELSE record
    /\ proc' = [proc EXCEPT ![p].release = "landed"]
    /\ UNCHANGED clock

(* The release was answered, or failed: the process exits either way.      *)
Exit(p) ==
    /\ proc[p].pc = "stopping"
    /\ proc' = [proc EXCEPT ![p].pc = "gone"]
    /\ UNCHANGED <<clock, record>>

Crash(p) ==
    /\ proc[p].pc \in {"acquiring", "holding"}
    /\ proc' = [proc EXCEPT ![p].pc = "gone"]
    /\ UNCHANGED <<clock, record>>

(* Time passes, however long a call has been out: no timer is skipped.     *)
Advance ==
    /\ clock < MaxClock
    /\ \A p \in Processes : proc[p].pc = "holding" => proc[p].due > clock
    /\ clock' = clock + 1
    /\ UNCHANGED <<record, proc>>

Next ==
    \/ \E p \in Processes :
        \/ Acquire(p) \/ Acquired(p) \/ Tick(p) \/ Renewed(p) \/ RenewThrows(p)
        \/ Connect(p) \/ Open(p) \/ Stop(p) \/ Exit(p) \/ Crash(p)
        \/ Land(p) \/ LandLate(p) \/ Release(p)
    \/ Advance

Spec == Init /\ [][Next]_vars

-----------------------------------------------------------------------------
(* ONE active session is a correctness rule (lease.ts:1-7), and the holder *)
(* gives up before its record can expire (lease.ts:20-26): no two          *)
(* processes believe at once that the lease is theirs.                     *)
OneHolder ==
    \A p, q \in Processes :
        proc[p].pc = "holding" /\ proc[q].pc = "holding" => p = q

(* A keeper that has yet to renew, whose timer runs behind the stamp it    *)
(* holds from by what the acquisition took: by more than a renew period,   *)
(* or at all once a renewal has thrown.  And one whose record was written  *)
(* back to an older expiry by a renewal that had thrown.                   *)
Exposed(q) ==
    \/ q.late
    \/ q.heldAt < q.since /\ (q.threw \/ q.since - q.heldAt > RenewPeriod)

(* However long its calls take, hang or throw, a process that believes it  *)
(* holds the lease owns the record and the record has not expired, so that *)
(* nobody else can take it (lease.ts:60-67): every keeper that is not      *)
(* exposed.                                                                *)
HolderOwns ==
    \A p \in Processes :
        proc[p].pc = "holding" /\ ~Exposed(proc[p]) =>
            record.owner = {p} /\ clock <= record.expires

(* A keeper whose renewals hang or throw gives up in time, or less than    *)
(* one renew period after the window of the stamp it holds from, however   *)
(* late its acquisition was answered (lease.ts:20-26, 88-91).              *)
OverrunIsShort ==
    \A p \in Processes :
        proc[p].pc = "holding" => clock < proc[p].heldAt + Ttl + RenewPeriod

(* What a keeper is to the others while it believes it holds the lease:     *)
(* the owner of the record, or, when exposed, gone shortly after it.       *)
LeaseHolds == HolderOwns /\ OverrunIsShort

(* A renewal still in flight when its holder releases never brings the     *)
(* lease back once the release has landed (lease.ts:35-40).                *)
NeverResurrected ==
    [][\A p \in Processes :
        proc[p].release = "landed" /\ record'.owner = {p} => record.owner = {p}]_vars

=============================================================================
