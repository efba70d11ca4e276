--------------------------- MODULE RoundStoreProofs ---------------------------
(***************************************************************************)
(* What is proved of RoundStore and of Replay for every value of their     *)
(* constants: the round item keeps what it acknowledged, and the readings  *)
(* of a log it is written with, the derivation and the score, are what     *)
(* RoundStore takes them for.                                              *)
(***************************************************************************)
EXTENDS RoundStore, Replay, SequenceTheorems, FiniteSetTheorems, TLAPS

-----------------------------------------------------------------------------
(* Logs and their prefixes.                                                *)

(* A prefix agrees with the whole wherever it is defined.                  *)
LEMMA PrefixPointwise ==
    ASSUME NEW s \in Logs, NEW t \in Logs
    PROVE  IsPrefix(s, t) <=> /\ Len(s) <= Len(t)
                              /\ \A i \in 1..Len(s) : s[i] = t[i]
<1>1. ASSUME Len(s) <= Len(t)
      PROVE  /\ SubSeq(s, 1, Len(s)) \in Logs
             /\ SubSeq(t, 1, Len(s)) \in Logs
             /\ Len(SubSeq(s, 1, Len(s))) = Len(s)
             /\ Len(SubSeq(t, 1, Len(s))) = Len(s)
             /\ \A i \in 1..Len(s) : /\ SubSeq(s, 1, Len(s))[i] = s[i]
                                     /\ SubSeq(t, 1, Len(s))[i] = t[i]
  BY <1>1 DEF Logs
<1>2. ASSUME IsPrefix(s, t), NEW i \in 1..Len(s) PROVE s[i] = t[i]
  BY <1>1, <1>2 DEF IsPrefix, Logs
<1>3. ASSUME Len(s) <= Len(t), \A i \in 1..Len(s) : s[i] = t[i]
      PROVE  SubSeq(s, 1, Len(s)) = SubSeq(t, 1, Len(s))
  BY <1>1, <1>3 DEF Logs
<1> QED
  BY <1>2, <1>3 DEF IsPrefix

(* A log is a prefix of itself, and the empty log of every log.            *)
LEMMA PrefixReflexive ==
    ASSUME NEW s \in Logs
    PROVE  IsPrefix(s, s) /\ IsPrefix(<<>>, s)
<1>1. <<>> \in Logs /\ Len(<<>>) = 0 /\ Len(s) \in Nat
  BY DEF Logs
<1>2. IsPrefix(s, s)
  BY <1>1, PrefixPointwise
<1>3. IsPrefix(<<>>, s)
  <2>1. \A i \in 1..Len(<<>>) : <<>>[i] = s[i]
    BY <1>1
  <2> QED
    BY <1>1, <2>1, PrefixPointwise
<1> QED
  BY <1>2, <1>3

(* A prefix of a prefix is a prefix.                                       *)
LEMMA PrefixTransitive ==
    ASSUME NEW s \in Logs, NEW t \in Logs, NEW u \in Logs,
           IsPrefix(s, t), IsPrefix(t, u)
    PROVE  IsPrefix(s, u)
<1>1. Len(s) \in Nat /\ Len(t) \in Nat /\ Len(u) \in Nat
  BY DEF Logs
<1> QED
  BY <1>1, PrefixPointwise

(* A batch joins the end: what was a prefix stays one.                     *)
LEMMA PrefixOfAppend ==
    ASSUME NEW s \in Logs, NEW t \in Logs, NEW b \in Logs, IsPrefix(s, t)
    PROVE  /\ t \o b \in Logs
           /\ Len(t \o b) = Len(t) + Len(b)
           /\ IsPrefix(s, t \o b)
<1>1. t \o b \in Logs /\ Len(t \o b) = Len(t) + Len(b)
  BY DEF Logs
<1>2. \A i \in 1..Len(t) : (t \o b)[i] = t[i]
  BY DEF Logs
<1>3. Len(s) \in Nat /\ Len(t) \in Nat /\ Len(b) \in Nat
  BY DEF Logs
<1>4. Len(s) <= Len(t) /\ \A i \in 1..Len(s) : s[i] = t[i]
  BY PrefixPointwise
<1>5. Len(s) <= Len(t \o b) /\ \A i \in 1..Len(s) : s[i] = (t \o b)[i]
  BY <1>1, <1>2, <1>3, <1>4
<1>6. IsPrefix(s, t \o b)
  BY <1>1, <1>5, PrefixPointwise
<1> QED
  BY <1>1, <1>6

(* What solves a sentence still solves it in a longer log.                 *)
LEMMA SolvesOfPrefix ==
    ASSUME NEW s \in Logs, NEW t \in Logs, NEW e, IsPrefix(s, t), Solves(e, s)
    PROVE  Solves(e, t)
<1>1. Len(s) \in Nat /\ Len(t) \in Nat /\ Len(s) <= Len(t)
  BY PrefixPointwise DEF Logs
<1>2. ASSUME NEW h \in Holes
      PROVE  \E i \in 1..Len(t) : Rank[e][h][t[i]] = 0
  <2>1. PICK i \in 1..Len(s) : Rank[e][h][s[i]] = 0
    BY DEF Solves
  <2>2. i \in 1..Len(t) /\ t[i] = s[i]
    BY <1>1, PrefixPointwise
  <2> QED
    BY <2>1, <2>2
<1> QED
  BY <1>2 DEF Solves

(* A batch joins a log and a snapshot of it: every guess of the one is in  *)
(* the other.                                                              *)
LEMMA SnapshotContained ==
    ASSUME NEW s \in Logs, NEW t \in Logs, NEW b \in Logs, IsPrefix(s, t)
    PROVE  \A i \in 1..Len(s \o b) : \E j \in 1..Len(t \o b) : (t \o b)[j] = (s \o b)[i]
<1>1. Len(s) \in Nat /\ Len(t) \in Nat /\ Len(b) \in Nat /\ Len(s) <= Len(t)
  BY PrefixPointwise DEF Logs
<1>2. /\ Len(s \o b) = Len(s) + Len(b)
      /\ Len(t \o b) = Len(t) + Len(b)
  BY DEF Logs
<1>3. ASSUME NEW i \in 1..Len(s \o b)
      PROVE  \E j \in 1..Len(t \o b) : (t \o b)[j] = (s \o b)[i]
  <2>1. CASE i <= Len(s)
    <3>1. i \in 1..Len(s) /\ i \in 1..Len(t) /\ i \in 1..Len(t \o b)
      BY <1>1, <1>2, <2>1
    <3>2. (s \o b)[i] = s[i] /\ (t \o b)[i] = t[i]
      BY <3>1 DEF Logs
    <3>3. s[i] = t[i]
      BY <3>1, PrefixPointwise
    <3> QED
      BY <3>1, <3>2, <3>3
  <2>2. CASE i > Len(s)
    <3> DEFINE k == i - Len(s)
               j == Len(t) + k
    <3>1. k \in 1..Len(b) /\ j \in 1..Len(t \o b)
      BY <1>1, <1>2, <2>2
    <3>2. (s \o b)[i] = b[k]
      BY <1>1, <1>2, <2>2, <3>1 DEF Logs
    <3>3. (t \o b)[j] = b[k]
      BY <1>1, <1>2, <3>1 DEF Logs
    <3> QED
      BY <3>1, <3>2, <3>3
  <2> QED
    BY <1>1, <1>2, <2>1, <2>2
<1> QED
  BY <1>3

(* A solve derived from a stale snapshot and a batch is a solve of the     *)
(* stored log and that batch.                                              *)
LEMMA SolvesOfSnapshot ==
    ASSUME NEW s \in Logs, NEW t \in Logs, NEW b \in Logs, NEW e,
           IsPrefix(s, t), Solves(e, s \o b)
    PROVE  Solves(e, t \o b)
<1>1. ASSUME NEW h \in Holes
      PROVE  \E j \in 1..Len(t \o b) : Rank[e][h][(t \o b)[j]] = 0
  <2>1. PICK i \in 1..Len(s \o b) : Rank[e][h][(s \o b)[i]] = 0
    BY DEF Solves
  <2>2. PICK j \in 1..Len(t \o b) : (t \o b)[j] = (s \o b)[i]
    BY SnapshotContained
  <2> QED
    BY <2>1, <2>2
<1> QED
  BY <1>1 DEF Solves

-----------------------------------------------------------------------------
(* The inductive invariant.                                                *)

Appending == {"read", "confirm", "write", "classify", "restart"}

Pending(q) == q.pc \notin {"idle", "done"}

(* The item still has a log of an edition, unless it names a newer one.    *)
Holds(item, t, log) ==
    \/ item.puzzle > t
    \/ item.puzzle = t /\ IsPrefix(log, item.log)

(* What a request holds in memory is a snapshot of what is still stored.   *)
RequestOK(q, item, e) ==
    /\ q.pc # "idle" => q.tag \in 1..e
    /\ q.pc # "done" => q.answer = "none"
    /\ q.pc \in Appending => q.batch \in Batches
    /\ q.pc \in Appending \ {"read"} => q.seen = <<>> \/ Holds(item, q.tag, q.seen)
    /\ q.pc \in {"settle", "reward"} \/ q.answer \in {"appended", "solved"} =>
         Holds(item, q.tag, q.log)
    /\ (q.pc = "settle" /\ q.solved) \/ q.pc = "reward" \/ q.answer = "solved" =>
         (item.puzzle = q.tag => item.solved)
    /\ Len(q.seen) <= Cap /\ Len(q.log) <= Cap

(* The item is at an edition that was published, its log within the cap,   *)
(* its solve real, and the replica an earlier state of it.                 *)
StoreOK ==
    /\ artifact <= edition
    /\ row.puzzle <= edition
    /\ Len(row.log) <= Cap
    /\ Len(replica.log) <= Cap
    /\ SolveIsReal
    /\ Holds(row, replica.puzzle, replica.log)

(* A request of an older edition arrived before every one of a newer       *)
(* edition, and so before the last write the row took of a newer one.      *)
Timely ==
    /\ \A r \in Requests : Pending(req[r]) =>
         /\ req[r].now <= clock
         /\ req[r].tag < row.puzzle => req[r].now <= row.last
    /\ \A r, s \in Requests :
         Pending(req[r]) /\ Pending(req[s]) /\ req[r].tag < req[s].tag =>
             req[r].now <= req[s].now

Inv ==
    /\ TypeOK
    /\ StoreOK
    /\ \A r \in Requests : RequestOK(req[r], row, edition)
    /\ Timely

-----------------------------------------------------------------------------
(* What the helpers return.                                                *)

(* A request slot not yet used is a request state.                         *)
LEMMA IdleTyped == Idle \in RequestStates
BY BoundsAssumption DEF Idle, RequestStates, Pcs, Answers, Rewards, Logs

(* Answering leaves nothing pending and keeps what was claimed.            *)
LEMMA AnsweredFacts ==
    ASSUME NEW q \in RequestStates, NEW a \in Answers
    PROVE  /\ Answered(q, a) \in RequestStates
           /\ Answered(q, a).pc = "done"
           /\ Answered(q, a).tag = q.tag
           /\ Answered(q, a).log = q.log
           /\ Answered(q, a).seen = <<>>
           /\ Answered(q, a).answer = a
BY IdleTyped DEF Answered, Idle, RequestStates, Pcs

(* A request that finishes keeps what it knows; it claims or rewards a     *)
(* solve only when the row took one.                                       *)
LEMMA FinishedFacts ==
    ASSUME NEW q \in RequestStates
    PROVE  /\ Finished(q) \in RequestStates
           /\ Finished(q).tag = q.tag
           /\ Finished(q).log = q.log
           /\ Finished(q).seen \in {q.seen, <<>>}
           /\ \/ Finished(q).pc = "done" /\ Finished(q).answer = "appended"
              \/ Finished(q).pc = "done" /\ Finished(q).answer = "solved" /\ q.solved
              \/ /\ Finished(q).pc = "reward" /\ Finished(q).answer = q.answer
                 /\ q.solved /\ Finished(q).now = q.now
<1>1. CASE ~(q.solved /\ Solves(q.tag, q.log))
  BY <1>1, AnsweredFacts, "appended" \in Answers DEF Finished, Answers
<1>2. CASE q.solved /\ Solves(q.tag, q.log) /\ q.now \in Day
  BY <1>2 DEF Finished, RequestStates, Pcs, Rewards
<1>3. CASE q.solved /\ Solves(q.tag, q.log) /\ q.now \notin Day
  BY <1>3, AnsweredFacts, "solved" \in Answers DEF Finished, Answers
<1> QED
  BY <1>1, <1>2, <1>3

(* An accepted write leaves the request with the new item's log.           *)
LEMMA AcceptedFacts ==
    ASSUME NEW q \in RequestStates, NEW item \in Items
    PROVE  /\ Accepted(q, item) \in RequestStates
           /\ Accepted(q, item).tag = q.tag
           /\ Accepted(q, item).log = item.log
           /\ Accepted(q, item).seen \in {q.seen, <<>>}
           /\ \/ /\ Accepted(q, item).pc = "settle"
                 /\ Accepted(q, item).solved = item.solved
                 /\ Accepted(q, item).now = q.now /\ Accepted(q, item).answer = q.answer
              \/ Accepted(q, item).pc = "done" /\ Accepted(q, item).answer = "appended"
              \/ /\ Accepted(q, item).pc = "done" /\ Accepted(q, item).answer = "solved"
                 /\ item.solved
              \/ /\ Accepted(q, item).pc = "reward" /\ item.solved
                 /\ Accepted(q, item).now = q.now /\ Accepted(q, item).answer = q.answer
<1> DEFINE p == [q EXCEPT !.log = item.log, !.progress = item.progress, !.solved = item.solved]
<1>1. /\ p \in RequestStates
      /\ p.tag = q.tag /\ p.log = item.log /\ p.seen = q.seen
      /\ p.solved = item.solved /\ p.now = q.now /\ p.answer = q.answer
  BY DEF RequestStates, Items
<1>2. CASE NeedsSettle(p)
  <2>1. Accepted(q, item) = [p EXCEPT !.pc = "settle"]
    BY <1>2 DEF Accepted
  <2> HIDE DEF p
  <2> QED
    BY <1>1, <2>1 DEF RequestStates, Pcs
<1>3. CASE ~NeedsSettle(p)
  <2>1. Accepted(q, item) = Finished(p)
    BY <1>3 DEF Accepted
  <2> HIDE DEF p
  <2> QED
    BY <1>1, <2>1, FinishedFacts
<1> QED
  BY <1>2, <1>3

(* A reward leaves the request rewarding, or answers with the solve.       *)
LEMMA AfterFacts ==
    ASSUME NEW q \in RequestStates, NEW step, NEW next \in SUBSET Rewards
    PROVE  /\ After(q, step, next) \in RequestStates
           /\ After(q, step, next).tag = q.tag
           /\ After(q, step, next).log = q.log
           /\ After(q, step, next).seen \in {q.seen, <<>>}
           /\ \/ /\ After(q, step, next).pc = "done"
                 /\ After(q, step, next).answer = "solved"
              \/ /\ After(q, step, next).pc = q.pc
                 /\ After(q, step, next).now = q.now
                 /\ After(q, step, next).answer = q.answer
                 /\ After(q, step, next).batch = q.batch
                 /\ After(q, step, next).solved = q.solved
<1> DEFINE owed == (q.owed \ {step}) \cup next
<1>1. owed \in SUBSET Rewards
  BY DEF RequestStates
<1>2. CASE owed = {}
  BY <1>2, AnsweredFacts, "solved" \in Answers DEF After, Answers
<1>3. CASE owed # {}
  BY <1>1, <1>3 DEF After, RequestStates
<1> QED
  BY <1>2, <1>3

(* Everything a log derives to is a number.                                *)
LEMMA ProgressTyped ==
    ASSUME NEW t \in Editions, NEW s \in Logs, NEW b \in Logs,
           Len(s) <= Cap, Len(b) <= Cap
    PROVE  /\ Progress(t, s) \in Nat /\ Progress(t, s \o b) \in Nat
           /\ Tries(t, s) \in Nat
<1>1. /\ s \o b \in Logs
      /\ Len(s) \in Nat /\ Len(b) \in Nat /\ Len(s \o b) = Len(s) + Len(b)
  BY DEF Logs
<1>2. /\ s \in [1..Len(s) -> Guesses]
      /\ s \o b \in [1..Len(s \o b) -> Guesses]
  BY <1>1, LenProperties DEF Logs
<1>3. Len(s) \in 0..(2 * Cap) /\ Len(s \o b) \in 0..(2 * Cap)
  BY <1>1, BoundsAssumption
<1>4. s \in LogsUpTo(2 * Cap) /\ s \o b \in LogsUpTo(2 * Cap)
  BY <1>2, <1>3 DEF LogsUpTo
<1> QED
  BY <1>4, ScoringAssumption

-----------------------------------------------------------------------------
(* How the item moves.                                                     *)

(* One item follows another: a newer edition's, or a longer log of the     *)
(* same one.                                                               *)
Follows(new, old) ==
    \/ new.puzzle > old.puzzle
    \/ /\ new.puzzle = old.puzzle
       /\ IsPrefix(old.log, new.log)
       /\ old.solved => new.solved

(* An item follows itself, so a step that leaves it alone is covered.      *)
LEMMA FollowsItself == ASSUME NEW item \in Items PROVE Follows(item, item)
BY PrefixReflexive DEF Follows, Items

(* What an item holds of a log, every item that follows it holds too.      *)
LEMMA HoldsKept ==
    ASSUME NEW old \in Items, NEW new \in Items, Follows(new, old),
           NEW t \in Nat, NEW log \in Logs, Holds(old, t, log)
    PROVE  Holds(new, t, log)
<1>1. /\ old.puzzle \in Nat /\ new.puzzle \in Nat
      /\ old.log \in Logs /\ new.log \in Logs
  BY BoundsAssumption DEF Items
<1>2. CASE new.puzzle > old.puzzle
  BY <1>1, <1>2 DEF Holds
<1>3. CASE new.puzzle = old.puzzle /\ IsPrefix(old.log, new.log)
  BY <1>1, <1>3, PrefixTransitive DEF Holds
<1> QED
  BY <1>2, <1>3 DEF Follows

(* A request keeps its snapshots while others write.                       *)
LEMMA RequestKept ==
    ASSUME NEW old \in Items, NEW new \in Items, Follows(new, old),
           NEW e \in Nat, NEW f \in Nat, e <= f,
           NEW q \in RequestStates, RequestOK(q, old, e)
    PROVE  RequestOK(q, new, f)
<1>1. q.tag \in Nat /\ q.seen \in Logs /\ q.log \in Logs
  BY BoundsAssumption DEF RequestStates
<1>2. /\ Holds(old, q.tag, q.seen) => Holds(new, q.tag, q.seen)
      /\ Holds(old, q.tag, q.log) => Holds(new, q.tag, q.log)
  BY <1>1, HoldsKept
<1>3. q.pc # "idle" => q.tag \in 1..f
  BY <1>1 DEF RequestOK
<1>4. ASSUME Holds(old, q.tag, q.log), old.puzzle = q.tag => old.solved, new.puzzle = q.tag
      PROVE  new.solved
  <2>1. old.puzzle \in Nat /\ new.puzzle \in Nat
    BY BoundsAssumption DEF Items
  <2>2. old.puzzle = q.tag /\ new.puzzle = old.puzzle
    BY <1>1, <1>4, <2>1 DEF Holds, Follows
  <2> QED
    BY <1>4, <2>1, <2>2 DEF Follows
<1> QED
  BY <1>2, <1>3, <1>4 DEF RequestOK

-----------------------------------------------------------------------------
(* What every step of a request shares.                                    *)

RewardsTyped ==
    /\ score \in [edition : 0..MaxEdition, tries : Nat]
    /\ streak \in BOOLEAN
    /\ faults \in 0..MaxFaults

(* The step leaves what it remembers of its arrival as it was, or ends.    *)
SameArrival(q, p) ==
    Pending(q) => Pending(p) /\ q.tag = p.tag /\ q.now = p.now

(* The fields of a typed item and of a typed request have their types.     *)
LEMMA FieldTypes ==
    /\ \A item \in Items : item.puzzle \in Nat /\ item.last \in Nat /\ item.log \in Logs
    /\ \A q \in RequestStates :
         /\ q.tag \in Nat /\ q.now \in Nat
         /\ q.batch \in Logs /\ q.seen \in Logs /\ q.log \in Logs
BY BoundsAssumption DEF Items, RequestStates

(* What the invariant says of the types of the whole state.                *)
LEMMA StateTypes ==
    ASSUME Inv
    PROVE  /\ req \in [Requests -> RequestStates] /\ row \in Items /\ replica \in Items
           /\ edition \in Nat /\ clock \in Nat
           /\ RewardsTyped
BY BoundsAssumption DEF Inv, TypeOK, Editions, RewardsTyped

(* A request's step that keeps its own snapshots, and writes the item only *)
(* with its own tag and its own instant, keeps the invariant.              *)
LEMMA RequestStep ==
    ASSUME Inv, NEW r \in Requests, NEW q \in RequestStates,
           req' = [req EXCEPT ![r] = q],
           UNCHANGED <<edition, artifact, clock, replica>>,
           RewardsTyped',
           row' \in Items, row'.puzzle = 0 => row' = Absent,
           Follows(row', row), Len(row'.log) <= Cap, SolveIsReal',
           \/ row'.puzzle = row.puzzle /\ row'.last = row.last
           \/ Pending(req[r]) /\ row'.puzzle = req[r].tag /\ row'.last = req[r].now,
           RequestOK(q, row', edition),
           SameArrival(q, req[r])
    PROVE  Inv'
<1>1. /\ req \in [Requests -> RequestStates] /\ row \in Items /\ replica \in Items
      /\ edition \in Nat /\ clock \in Nat /\ row.puzzle \in Nat /\ row'.puzzle \in Nat
      /\ row.last \in Nat /\ row'.last \in Nat
      /\ replica.puzzle \in Nat /\ replica.log \in Logs
      /\ \A s \in Requests : req[s].tag \in Nat /\ req[s].now \in Nat
  BY StateTypes, FieldTypes
<1>2. /\ req' \in [Requests -> RequestStates]
      /\ req'[r] = q
      /\ \A s \in Requests \ {r} : req'[s] = req[s]
  BY <1>1
<1>3. TypeOK'
  BY <1>2 DEF Inv, TypeOK, RewardsTyped
<1>4. \A s \in Requests : RequestOK(req'[s], row', edition')
  <2>1. ASSUME NEW s \in Requests \ {r} PROVE RequestOK(req[s], row', edition)
    BY <1>1, RequestKept DEF Inv
  <2> QED
    BY <1>2, <2>1
<1>5. StoreOK'
  <2>1. Holds(row', replica.puzzle, replica.log)
    BY <1>1, HoldsKept DEF Inv, StoreOK
  <2>2. row'.puzzle <= edition
    <3>1. CASE row'.puzzle = row.puzzle
      BY <3>1 DEF Inv, StoreOK
    <3>2. CASE Pending(req[r]) /\ row'.puzzle = req[r].tag
      BY <1>1, <3>2 DEF Inv, RequestOK, Pending
    <3> QED
      BY <3>1, <3>2
  <2> QED
    BY <2>1, <2>2 DEF Inv, StoreOK
<1>6. ASSUME NEW s \in Requests, Pending(req'[s])
      PROVE  Pending(req[s]) /\ req'[s].tag = req[s].tag /\ req'[s].now = req[s].now
  BY <1>2, <1>6 DEF SameArrival
<1>7. Timely'
  <2>1. ASSUME NEW s \in Requests, Pending(req'[s])
        PROVE  /\ req'[s].now <= clock'
               /\ req'[s].tag < row'.puzzle => req'[s].now <= row'.last
    BY <1>1, <1>6, <2>1 DEF Inv, Timely
  <2>2. ASSUME NEW s \in Requests, NEW t \in Requests, Pending(req'[s]), Pending(req'[t]),
               req'[s].tag < req'[t].tag
        PROVE  req'[s].now <= req'[t].now
    BY <1>6, <2>2 DEF Inv, Timely
  <2> QED
    BY <2>1, <2>2 DEF Timely
<1> QED
  BY <1>3, <1>4, <1>5, <1>7 DEF Inv

(* The same for the steps that leave the item alone.                       *)
LEMMA QuietStep ==
    ASSUME Inv, NEW r \in Requests, NEW q \in RequestStates,
           req' = [req EXCEPT ![r] = q],
           UNCHANGED <<edition, artifact, clock, replica, row>>,
           RewardsTyped',
           RequestOK(q, row, edition),
           SameArrival(q, req[r])
    PROVE  Inv'
<1>1. /\ row \in Items /\ (row.puzzle = 0 => row = Absent)
      /\ Len(row.log) <= Cap /\ SolveIsReal
  BY DEF Inv, TypeOK, StoreOK
<1>2. SolveIsReal'
  BY <1>1 DEF SolveIsReal
<1>3. Follows(row', row)
  BY <1>1, FollowsItself
<1> QED
  BY <1>1, <1>2, <1>3, RequestStep

-----------------------------------------------------------------------------
(* The steps of a request that leave the item alone.                       *)

(* A request that is refused, or fails, claims nothing.                    *)
LEMMA RefusedStep ==
    ASSUME Inv, NEW r \in Requests, req[r].pc # "idle",
           NEW a \in Answers \ {"appended", "solved"}, Answer(r, a),
           UNCHANGED <<edition, artifact, clock, replica, row>>, RewardsTyped'
    PROVE  Inv'
<1> DEFINE q == Answered(req[r], a)
<1>1. req[r] \in RequestStates /\ RequestOK(req[r], row, edition)
  BY DEF Inv, TypeOK
<1>2. /\ q \in RequestStates /\ q.pc = "done" /\ q.tag = req[r].tag
      /\ q.log = req[r].log /\ q.seen = <<>> /\ q.answer = a
  BY <1>1, AnsweredFacts
<1>3. req' = [req EXCEPT ![r] = q]
  BY DEF Answer
<1> HIDE DEF q
<1>4. RequestOK(q, row, edition) /\ SameArrival(q, req[r])
  BY <1>1, <1>2, BoundsAssumption DEF RequestOK, Appending, SameArrival, Pending
<1> QED
  BY <1>2, <1>3, <1>4, QuietStep

(* A step that leaves the rewards alone keeps their types.                 *)
LEMMA RewardsUnchanged ==
    ASSUME Inv, UNCHANGED <<score, streak, faults>> PROVE RewardsTyped'
BY StateTypes DEF RewardsTyped

(* Counting a fault keeps the count within its bound.                      *)
LEMMA FaultTyped ==
    ASSUME Inv, faults < MaxFaults, faults' = faults + 1, UNCHANGED <<score, streak>>
    PROVE  RewardsTyped'
BY StateTypes, BoundsAssumption DEF RewardsTyped

(* The pre-write read: either copy is a state the row has been in.         *)
LEMMA ReadStep == ASSUME Inv, NEW r \in Requests, Read(r) PROVE Inv'
<1>1. PICK item \in {row, replica} :
        req' = [req EXCEPT ![r] = [req[r] EXCEPT
            !.pc = IF item.puzzle = req[r].tag THEN "write" ELSE "confirm",
            !.seen = StoredLog(item, req[r].tag)]]
  BY DEF Read
<1> DEFINE q == [req[r] EXCEPT
                    !.pc = IF item.puzzle = req[r].tag THEN "write" ELSE "confirm",
                    !.seen = StoredLog(item, req[r].tag)]
<1>2. /\ req[r] \in RequestStates /\ RequestOK(req[r], row, edition) /\ req[r].pc = "read"
      /\ UNCHANGED <<edition, artifact, clock, replica, row>>
  BY DEF Inv, TypeOK, Read, storeVars
<1>3. /\ item \in Items /\ item.log \in Logs /\ Len(item.log) <= Cap
      /\ Holds(row, item.puzzle, item.log)
  BY PrefixReflexive, FieldTypes, StateTypes DEF Inv, StoreOK, Holds
<1>4. /\ StoredLog(item, req[r].tag) \in Logs
      /\ Len(StoredLog(item, req[r].tag)) <= Cap
      /\ \/ StoredLog(item, req[r].tag) = <<>>
         \/ Holds(row, req[r].tag, StoredLog(item, req[r].tag))
  BY <1>3, BoundsAssumption DEF StoredLog, Logs
<1>5. /\ q \in RequestStates
      /\ q.pc \in {"write", "confirm"} /\ q.tag = req[r].tag /\ q.now = req[r].now
      /\ q.batch = req[r].batch /\ q.answer = req[r].answer /\ q.log = req[r].log
      /\ q.seen = StoredLog(item, req[r].tag)
  BY <1>2, <1>4 DEF RequestStates, Pcs
<1> HIDE DEF q
<1>6. RequestOK(q, row, edition)
  BY <1>2, <1>4, <1>5 DEF RequestOK, Appending
<1>7. SameArrival(q, req[r])
  BY <1>2, <1>5 DEF SameArrival, Pending
<1>8. RewardsTyped'
  BY RewardsUnchanged DEF Read, storeVars
<1> QED
  BY <1>1, <1>2, <1>5, <1>6, <1>7, <1>8, QuietStep DEF q

(* A new request is of the newest edition and arrives last.                *)
LEMMA ArrivalStep ==
    ASSUME Inv, NEW r \in Requests, req[r].pc = "idle",
           NEW q \in RequestStates, req' = [req EXCEPT ![r] = q], UNCHANGED storeVars,
           q.tag = edition, q.now = clock, q.pc \in {"read", "giveUp"},
           q.pc = "read" => q.batch \in Batches,
           q.seen = req[r].seen, q.log = req[r].log, q.answer = req[r].answer
    PROVE  Inv'
<1>1. /\ RequestOK(req[r], row, edition)
      /\ edition \in 1..MaxEdition
      /\ row.puzzle \in Nat /\ row.puzzle <= edition
  BY StateTypes, FieldTypes DEF Inv, TypeOK, StoreOK, Editions
<1>2. /\ req' \in [Requests -> RequestStates] /\ req'[r] = q
      /\ \A s \in Requests \ {r} : req'[s] = req[s]
  BY StateTypes
<1>3. TypeOK' /\ StoreOK'
  BY <1>2 DEF Inv, TypeOK, StoreOK, SolveIsReal, storeVars
<1>4. RequestOK(q, row, edition)
  BY <1>1, BoundsAssumption DEF RequestOK, Appending
<1>5. \A s \in Requests : RequestOK(req'[s], row', edition')
  BY <1>2, <1>4 DEF Inv, storeVars
<1>6. ASSUME NEW s \in Requests \ {r}, Pending(req[s])
      PROVE  req[s].tag <= edition /\ req[s].now <= clock
  BY <1>6 DEF Inv, RequestOK, Timely, Pending
<1>7. \A s \in Requests : req[s].tag \in Nat /\ req[s].now \in Nat
  BY StateTypes, FieldTypes
<1>8. Timely'
  <2>1. ASSUME NEW s \in Requests, Pending(req'[s])
        PROVE  /\ req'[s].now <= clock'
               /\ req'[s].tag < row'.puzzle => req'[s].now <= row'.last
    <3>1. CASE s = r
      BY <1>1, <1>2, <3>1, StateTypes DEF storeVars
    <3>2. CASE s # r
      BY <1>2, <2>1, <3>2 DEF Inv, Timely, storeVars
    <3> QED
      BY <3>1, <3>2
  <2>2. ASSUME NEW s \in Requests, NEW t \in Requests, Pending(req'[s]), Pending(req'[t]),
               req'[s].tag < req'[t].tag
        PROVE  req'[s].now <= req'[t].now
    <3>1. CASE s = r
      BY <1>1, <1>2, <1>6, <1>7, <2>2, <3>1
    <3>2. CASE s # r /\ t = r
      BY <1>2, <1>6, <2>2, <3>2
    <3>3. CASE s # r /\ t # r
      BY <1>2, <2>2, <3>3 DEF Inv, Timely
    <3> QED
      BY <3>1, <3>2, <3>3
  <2> QED
    BY <2>1, <2>2 DEF Timely
<1> QED
  BY <1>3, <1>5, <1>8 DEF Inv

(* Arrival: the tag is an edition already published.                       *)
LEMMA BeginStep == ASSUME Inv, NEW r \in Requests, Begin(r) PROVE Inv'
<1>1. /\ req[r].pc = "idle" /\ req[r] \in RequestStates
      /\ RequestOK(req[r], row, edition)
      /\ UNCHANGED storeVars
  BY DEF Begin, Inv, TypeOK
<1>2. PICK t \in 1..artifact :
        \/ /\ t # edition
           /\ req' = [req EXCEPT ![r] =
                Answered([req[r] EXCEPT !.tag = t], "puzzle_changed")]
        \/ /\ t = edition
           /\ \/ \E b \in Batches :
                   req' = [req EXCEPT ![r] = [req[r] EXCEPT
                       !.pc = "read", !.tag = t, !.batch = b, !.now = clock]]
              \/ req' = [req EXCEPT ![r] = [req[r] EXCEPT
                       !.pc = "giveUp", !.tag = t, !.now = clock]]
  BY DEF Begin
<1>3. /\ clock \in 0..MaxClock /\ MaxEdition \in Nat
      /\ edition \in 1..MaxEdition /\ artifact \in 1..MaxEdition /\ artifact <= edition
  BY BoundsAssumption DEF Inv, TypeOK, StoreOK, Editions
<1>4. t \in 1..edition /\ t \in 0..MaxEdition
  BY <1>3
<1>5. CASE /\ t # edition
           /\ req' = [req EXCEPT ![r] =
                Answered([req[r] EXCEPT !.tag = t], "puzzle_changed")]
  <2> DEFINE p == [req[r] EXCEPT !.tag = t]
             q == Answered(p, "puzzle_changed")
  <2>1. p \in RequestStates /\ p.tag = t /\ p.log = req[r].log
    BY <1>1, <1>4 DEF RequestStates
  <2> HIDE DEF p
  <2>2. /\ q \in RequestStates /\ q.pc = "done" /\ q.tag = t /\ q.log = req[r].log
        /\ q.seen = <<>> /\ q.answer = "puzzle_changed"
    BY <2>1, AnsweredFacts, "puzzle_changed" \in Answers DEF Answers
  <2> HIDE DEF q
  <2>3. RequestOK(q, row, edition)
    BY <1>1, <1>4, <2>2, BoundsAssumption DEF RequestOK, Appending
  <2>4. SameArrival(q, req[r])
    BY <2>2 DEF SameArrival, Pending
  <2>5. RewardsTyped'
    BY <1>1, RewardsUnchanged DEF storeVars
  <2> QED
    BY <1>1, <1>5, <2>2, <2>3, <2>4, <2>5, QuietStep DEF storeVars, p, q
<1>6. ASSUME t = edition, NEW b \in Batches,
             req' = [req EXCEPT ![r] = [req[r] EXCEPT
                 !.pc = "read", !.tag = t, !.batch = b, !.now = clock]]
      PROVE  Inv'
  <2> DEFINE q == [req[r] EXCEPT !.pc = "read", !.tag = t, !.batch = b, !.now = clock]
  <2>1. b \in Logs
    BY BatchAssumption
  <2>2. /\ q \in RequestStates
        /\ q.tag = t /\ q.now = clock /\ q.pc = "read" /\ q.batch = b
        /\ q.seen = req[r].seen /\ q.log = req[r].log /\ q.answer = req[r].answer
    BY <1>1, <1>3, <1>4, <2>1 DEF RequestStates, Pcs
  <2> HIDE DEF q
  <2> QED
    BY <1>1, <1>6, <2>2, ArrivalStep, ZenonT(60) DEF q
<1>7. CASE /\ t = edition
           /\ req' = [req EXCEPT ![r] = [req[r] EXCEPT
                 !.pc = "giveUp", !.tag = t, !.now = clock]]
  <2> DEFINE q == [req[r] EXCEPT !.pc = "giveUp", !.tag = t, !.now = clock]
  <2>1. /\ q \in RequestStates
        /\ q.tag = t /\ q.now = clock /\ q.pc = "giveUp"
        /\ q.seen = req[r].seen /\ q.log = req[r].log /\ q.answer = req[r].answer
    BY <1>1, <1>3, <1>4 DEF RequestStates, Pcs
  <2> HIDE DEF q
  <2> QED
    BY <1>1, <1>7, <2>1, ArrivalStep DEF q
<1> QED
  BY <1>2, <1>5, <1>6, <1>7

(* The consistent confirmation of an absence.                              *)
LEMMA ConfirmStep == ASSUME Inv, NEW r \in Requests, Confirm(r) PROVE Inv'
<1>1. /\ req[r].pc = "confirm" /\ req[r] \in RequestStates
      /\ RequestOK(req[r], row, edition)
      /\ row.log \in Logs /\ Len(row.log) <= Cap
      /\ UNCHANGED storeVars
  BY StateTypes, FieldTypes DEF Confirm, Inv, TypeOK, StoreOK
<1>2. RewardsTyped'
  BY <1>1, RewardsUnchanged DEF storeVars
<1>3. CASE /\ row.puzzle = req[r].tag
           /\ req' = [req EXCEPT ![r] = [req[r] EXCEPT !.pc = "write", !.seen = row.log]]
  <2> DEFINE q == [req[r] EXCEPT !.pc = "write", !.seen = row.log]
  <2>1. /\ q \in RequestStates
        /\ q.pc = "write" /\ q.tag = req[r].tag /\ q.now = req[r].now
        /\ q.batch = req[r].batch /\ q.answer = req[r].answer /\ q.log = req[r].log
        /\ q.seen = row.log
    BY <1>1 DEF RequestStates, Pcs
  <2> HIDE DEF q
  <2>2. Holds(row, q.tag, q.seen)
    BY <1>1, <1>3, <2>1, PrefixReflexive DEF Holds
  <2>3. RequestOK(q, row, edition)
    BY <1>1, <2>1, <2>2 DEF RequestOK, Appending
  <2>4. SameArrival(q, req[r])
    BY <1>1, <2>1 DEF SameArrival, Pending
  <2> QED
    BY <1>1, <1>2, <1>3, <2>1, <2>3, <2>4, QuietStep DEF storeVars, q
<1>4. CASE req' = [req EXCEPT ![r].pc = "write"]
  <2> DEFINE q == [req[r] EXCEPT !.pc = "write"]
  <2>1. /\ q \in RequestStates
        /\ q.pc = "write" /\ q.tag = req[r].tag /\ q.now = req[r].now
        /\ q.batch = req[r].batch /\ q.answer = req[r].answer /\ q.log = req[r].log
        /\ q.seen = req[r].seen
    BY <1>1 DEF RequestStates, Pcs
  <2>2. req' = [req EXCEPT ![r] = q]
    BY <1>4
  <2> HIDE DEF q
  <2>3. RequestOK(q, row, edition)
    BY <1>1, <2>1 DEF RequestOK, Appending
  <2>4. SameArrival(q, req[r])
    BY <1>1, <2>1 DEF SameArrival, Pending
  <2> QED
    BY <1>1, <1>2, <2>1, <2>2, <2>3, <2>4, QuietStep DEF storeVars
<1>5. CASE Answer(r, "forbidden")
  BY <1>1, <1>2, <1>5, RefusedStep, "forbidden" \in Answers \ {"appended", "solved"}
  DEF storeVars, Answers
<1> QED
  BY <1>3, <1>4, <1>5 DEF Confirm

(* The classifying read of a refused append.                               *)
LEMMA ClassifyStep == ASSUME Inv, NEW r \in Requests, Classify(r) PROVE Inv'
<1>1. /\ req[r].pc = "classify" /\ req[r] \in RequestStates
      /\ RequestOK(req[r], row, edition)
      /\ UNCHANGED storeVars
  BY DEF Classify, Inv, TypeOK
<1>2. RewardsTyped'
  BY <1>1, RewardsUnchanged DEF storeVars
<1>3. Refusal(req[r]) \in Answers \ {"appended", "solved"}
  BY DEF Refusal, Answers
<1>4. "too_fast" \in Answers \ {"appended", "solved"}
  BY DEF Answers
<1>5. CASE \E a \in Answers \ {"appended", "solved"} : Answer(r, a)
  BY <1>1, <1>2, <1>5, RefusedStep DEF storeVars
<1>6. CASE req' = [req EXCEPT ![r].pc = "restart"]
  <2> DEFINE q == [req[r] EXCEPT !.pc = "restart"]
  <2>1. /\ q \in RequestStates
        /\ q.pc = "restart" /\ q.tag = req[r].tag /\ q.now = req[r].now
        /\ q.batch = req[r].batch /\ q.answer = req[r].answer /\ q.log = req[r].log
        /\ q.seen = req[r].seen
    BY <1>1 DEF RequestStates, Pcs
  <2>2. req' = [req EXCEPT ![r] = q]
    BY <1>6
  <2> HIDE DEF q
  <2>3. RequestOK(q, row, edition)
    BY <1>1, <2>1 DEF RequestOK, Appending
  <2>4. SameArrival(q, req[r])
    BY <1>1, <2>1 DEF SameArrival, Pending
  <2> QED
    BY <1>1, <1>2, <2>1, <2>2, <2>3, <2>4, QuietStep DEF storeVars
<1> QED
  BY <1>3, <1>4, <1>5, <1>6 DEF Classify

(* The classifying read of a refused give-up.                              *)
LEMMA JudgeStep == ASSUME Inv, NEW r \in Requests, Judge(r) PROVE Inv'
<1>1. RewardsTyped'
  BY RewardsUnchanged DEF Judge, storeVars
<1>2. \E a \in Answers \ {"appended", "solved"} : Answer(r, a)
  BY DEF Judge, Answers
<1> QED
  BY <1>1, <1>2, RefusedStep DEF Judge, storeVars

(* A store call that throws ends the request.                              *)
LEMMA FailStep == ASSUME Inv, NEW r \in Requests, Fail(r) PROVE Inv'
<1>1. RewardsTyped'
  BY FaultTyped DEF Fail
<1>2. "failed" \in Answers \ {"appended", "solved"}
  BY DEF Answers
<1> QED
  BY <1>1, <1>2, RefusedStep DEF Fail

(* A reward answers with a solve the row took, or waits for the other one. *)
LEMMA RewardStep ==
    ASSUME Inv, NEW r \in Requests, NEW step, NEW next \in SUBSET Rewards,
           Rewarding(r, step, next), RewardsTyped',
           UNCHANGED <<edition, artifact, clock, replica, row>>
    PROVE  Inv'
<1> DEFINE q == After(req[r], step, next)
<1>1. /\ req[r].pc = "reward" /\ req[r] \in RequestStates
      /\ RequestOK(req[r], row, edition)
      /\ req' = [req EXCEPT ![r] = q]
  BY DEF Rewarding, Inv, TypeOK
<1>2. /\ q \in RequestStates /\ q.tag = req[r].tag /\ q.log = req[r].log
      /\ q.seen \in {req[r].seen, <<>>}
      /\ \/ q.pc = "done" /\ q.answer = "solved"
         \/ q.pc = "reward" /\ q.now = req[r].now /\ q.answer = req[r].answer
  BY <1>1, AfterFacts
<1> HIDE DEF q
<1>3. RequestOK(q, row, edition)
  BY <1>1, <1>2, BoundsAssumption DEF RequestOK, Appending
<1>4. SameArrival(q, req[r])
  BY <1>1, <1>2 DEF SameArrival, Pending
<1> QED
  BY <1>1, <1>2, <1>3, <1>4, QuietStep

(* The streak day.                                                         *)
LEMMA CreditStep == ASSUME Inv, NEW r \in Requests, Credit(r) PROVE Inv'
<1>1. RewardsTyped'
  BY StateTypes DEF Credit, RewardsTyped
<1> QED
  BY <1>1, RewardStep DEF Credit

(* The full artifact, of the round's revision or of another.               *)
LEMMA LoadArtifactStep == ASSUME Inv, NEW r \in Requests, LoadArtifact(r) PROVE Inv'
<1>1. RewardsTyped'
  BY RewardsUnchanged DEF LoadArtifact, storeVars
<1>2. {} \in SUBSET Rewards /\ {"submit"} \in SUBSET Rewards
  BY DEF Rewards
<1> QED
  BY <1>1, <1>2, RewardStep DEF LoadArtifact, storeVars

(* A submission is a typed score row.                                      *)
LEMMA ScoreTyped ==
    ASSUME Inv, NEW r \in Requests, req[r].pc # "idle"
    PROVE  ScoreOf(req[r]) \in [edition : 0..MaxEdition, tries : Nat]
<1>1. /\ req[r] \in RequestStates /\ edition \in 1..MaxEdition
      /\ req[r].tag \in 1..edition /\ Len(req[r].log) <= Cap /\ req[r].log \in Logs
  BY StateTypes, FieldTypes DEF Inv, TypeOK, RequestOK, Editions
<1>2. req[r].tag \in Editions /\ req[r].tag \in 0..MaxEdition
  BY <1>1, BoundsAssumption DEF Editions
<1>3. <<>> \in Logs /\ Len(<<>>) <= Cap
  BY BoundsAssumption DEF Logs
<1>4. Tries(req[r].tag, req[r].log) \in Nat
  BY <1>1, <1>2, <1>3, ProgressTyped
<1> QED
  BY <1>2, <1>4 DEF ScoreOf

(* The create-only submission of a score.                                  *)
LEMMA SubmitStep == ASSUME Inv, NEW r \in Requests, Submit(r) PROVE Inv'
<1>1. PICK next \in {{}, {"replace"}} : Rewarding(r, "submit", next)
  BY DEF Submit
<1>2. req[r].pc # "idle"
  BY <1>1 DEF Rewarding
<1>3. RewardsTyped'
  BY <1>2, ScoreTyped, StateTypes DEF Submit, RewardsTyped
<1> QED
  BY <1>1, <1>3, RewardStep DEF Submit, Rewards

(* The replacement of another revision's score.                            *)
LEMMA ReplaceScoreStep == ASSUME Inv, NEW r \in Requests, ReplaceScore(r) PROVE Inv'
<1>1. req[r].pc # "idle"
  BY DEF ReplaceScore, Rewarding
<1>2. RewardsTyped'
  BY <1>1, ScoreTyped, StateTypes DEF ReplaceScore, RewardsTyped
<1> QED
  BY <1>2, RewardStep DEF ReplaceScore

(* A reward that throws, applied or not.                                   *)
LEMMA RewardThrowsStep == ASSUME Inv, NEW r \in Requests, RewardThrows(r) PROVE Inv'
<1>1. PICK step \in Rewards : Rewarding(r, step, {})
  BY DEF RewardThrows
<1>2. req[r].pc # "idle"
  BY <1>1 DEF Rewarding
<1>3. score' \in {score, ScoreOf(req[r])} /\ streak' \in {streak, TRUE}
  BY DEF RewardThrows
<1>4. faults' \in 0..MaxFaults
  BY StateTypes, BoundsAssumption DEF RewardThrows, RewardsTyped
<1>5. RewardsTyped'
  BY <1>2, <1>3, <1>4, ScoreTyped, StateTypes DEF RewardsTyped
<1> QED
  BY <1>1, <1>5, RewardStep DEF RewardThrows

-----------------------------------------------------------------------------
(* The steps of a request that write the item.                             *)

(* The accepted writes: whatever follows the stored item, is solved only   *)
(* by its own log and carries the writer's tag and instant.                *)
LEMMA WriteStep ==
    ASSUME Inv, NEW r \in Requests, Pending(req[r]), NEW item \in Items,
           item.puzzle = req[r].tag, item.last = req[r].now,
           Follows(item, row), Len(item.log) <= Cap,
           item.solved => Solves(item.puzzle, item.log),
           Write(r, item), UNCHANGED <<edition, artifact, clock, replica>>, RewardsTyped'
    PROVE  Inv'
<1> DEFINE q == Accepted(req[r], item)
<1>1. /\ req[r] \in RequestStates /\ RequestOK(req[r], row, edition)
      /\ req[r].tag \in 1..edition /\ req[r].answer = "none" /\ edition \in Nat
      /\ row' = item /\ req' = [req EXCEPT ![r] = q]
  BY StateTypes DEF Write, Inv, TypeOK, RequestOK, Pending
<1>2. /\ q \in RequestStates /\ q.tag = req[r].tag /\ q.log = item.log
      /\ q.seen \in {req[r].seen, <<>>}
      /\ \/ /\ q.pc = "settle" /\ q.solved = item.solved
            /\ q.now = req[r].now /\ q.answer = "none"
         \/ q.pc = "done" /\ q.answer = "appended"
         \/ q.pc = "done" /\ q.answer = "solved" /\ item.solved
         \/ /\ q.pc = "reward" /\ item.solved
            /\ q.now = req[r].now /\ q.answer = "none"
  BY <1>1, AcceptedFacts
<1> HIDE DEF q
<1>3. Holds(item, q.tag, q.log)
  BY <1>2, FieldTypes, PrefixReflexive DEF Holds
<1>4. RequestOK(q, item, edition)
  BY <1>1, <1>2, <1>3, BoundsAssumption DEF RequestOK, Appending
<1>5. SameArrival(q, req[r])
  BY <1>2 DEF SameArrival, Pending
<1>6. SolveIsReal' /\ (row'.puzzle = 0 => row' = Absent)
  BY <1>1 DEF SolveIsReal
<1> QED
  BY <1>1, <1>2, <1>4, <1>5, <1>6, RequestStep

(* What the append and the restart write is derived from a snapshot of the *)
(* log it joins.                                                           *)
LEMMA SnapshotFacts ==
    ASSUME Inv, NEW r \in Requests, req[r].pc \in {"write", "restart"}
    PROVE  /\ req[r] \in RequestStates /\ RequestOK(req[r], row, edition)
           /\ req[r].tag \in Editions /\ req[r].tag \in 0..MaxEdition /\ req[r].tag # 0
           /\ req[r].batch \in Logs /\ Len(req[r].batch) \in 1..Cap
           /\ req[r].seen \in Logs
           /\ row.puzzle < req[r].tag => req[r].seen = <<>>
           /\ row.puzzle = req[r].tag => IsPrefix(req[r].seen, row.log)
           /\ Progress(req[r].tag, Derived(req[r])) \in Nat
           /\ Solves(req[r].tag, Derived(req[r])) \in BOOLEAN
<1>1. /\ req[r] \in RequestStates /\ RequestOK(req[r], row, edition)
      /\ edition \in 1..MaxEdition /\ row.puzzle \in Nat /\ row.log \in Logs
      /\ req[r].tag \in Nat /\ req[r].seen \in Logs
  BY StateTypes, FieldTypes DEF Inv, TypeOK, Editions
<1>2. /\ req[r].tag \in 1..edition /\ req[r].batch \in Batches /\ Len(req[r].seen) <= Cap
      /\ req[r].seen = <<>> \/ Holds(row, req[r].tag, req[r].seen)
  BY <1>1 DEF RequestOK, Appending
<1>3. /\ req[r].tag \in Editions /\ req[r].tag \in 0..MaxEdition /\ req[r].tag # 0
  BY <1>1, <1>2, BoundsAssumption DEF Editions
<1>4. req[r].batch \in Logs /\ Len(req[r].batch) \in 1..Cap
  BY <1>2, BatchAssumption
<1>5. Progress(req[r].tag, Derived(req[r])) \in Nat
  <2>1. Len(req[r].seen) <= Cap /\ Len(req[r].batch) <= Cap
    BY <1>2, <1>4, BoundsAssumption
  <2> QED
    BY <1>1, <1>3, <1>4, <2>1, ProgressTyped DEF Derived
<1>6. row.puzzle < req[r].tag => req[r].seen = <<>>
  BY <1>1, <1>2 DEF Holds
<1>7. row.puzzle = req[r].tag => IsPrefix(req[r].seen, row.log)
  BY <1>1, <1>2, PrefixReflexive DEF Holds
<1>8. Solves(req[r].tag, Derived(req[r])) \in BOOLEAN
  BY DEF Solves
<1> QED
  BY <1>1, <1>3, <1>4, <1>5, <1>6, <1>7, <1>8

(* A restart never goes back: a request of an older edition than the row's *)
(* arrived no later than the row was last written, so it is not paced.     *)
LEMMA RestartIsNewer ==
    ASSUME Inv, NEW r \in Requests, req[r].pc = "restart", RestartAllowed(req[r])
    PROVE  row.puzzle < req[r].tag
<1>1. /\ row.puzzle \in Nat /\ row.last \in Nat
      /\ req[r].tag \in Nat /\ req[r].now \in Nat /\ req[r].tag # 0
  BY StateTypes, FieldTypes, SnapshotFacts
<1>2. req[r].tag < row.puzzle => req[r].now <= row.last
  BY DEF Inv, Timely, Pending
<1> QED
  BY <1>1, <1>2, BoundsAssumption DEF RestartAllowed, Paced

(* What an allowed append writes is typed, capped and really solved.       *)
LEMMA AppendedFacts ==
    ASSUME Inv, NEW r \in Requests, req[r].pc = "write", AppendAllowed(req[r])
    PROVE  /\ Appended(req[r]) \in Items
           /\ \/ row.puzzle = req[r].tag
              \/ row.puzzle = 0 /\ row.log = <<>> /\ req[r].seen = <<>>
           /\ row.log \o req[r].batch \in Logs
           /\ Len(row.log \o req[r].batch) = Len(row.log) + Len(req[r].batch)
           /\ Len(row.log \o req[r].batch) <= Cap
           /\ IsPrefix(row.log, row.log \o req[r].batch)
           /\ Solves(req[r].tag, Derived(req[r])) =>
                Solves(req[r].tag, row.log \o req[r].batch)
<1> DEFINE q == req[r]
<1>1. /\ row \in Items /\ row.log \in Logs /\ row.puzzle \in Nat
      /\ row.puzzle = 0 => row = Absent
      /\ req[r].now \in 0..MaxClock
  BY StateTypes, FieldTypes DEF Inv, TypeOK, RequestStates
<1>2. \/ row.puzzle = q.tag
      \/ row.puzzle = 0 /\ row.log = <<>> /\ q.seen = <<>>
  BY <1>1, SnapshotFacts DEF AppendAllowed, Absent
<1>3. /\ row.log \o q.batch \in Logs
      /\ Len(row.log \o q.batch) = Len(row.log) + Len(q.batch)
      /\ IsPrefix(row.log, row.log \o q.batch)
  BY <1>1, SnapshotFacts, PrefixReflexive, PrefixOfAppend
<1>4. Len(row.log \o q.batch) <= Cap
  <2>1. CASE row.puzzle = 0
    <3>1. Len(row.log) = 0 /\ Len(q.batch) <= Cap /\ Len(q.batch) \in Nat
      BY <1>1, <2>1, SnapshotFacts, BoundsAssumption DEF Absent, Logs
    <3> QED
      BY <1>3, <3>1, BoundsAssumption
  <2>2. CASE row.puzzle # 0
    <3>1. /\ Len(row.log) <= Cap - Len(q.batch)
          /\ Len(row.log) \in Nat /\ Len(q.batch) \in Nat /\ Cap \in Nat
      <4>1. row.log \in Logs /\ Len(q.batch) \in 1..Cap /\ Cap \in Nat
        BY <1>1, SnapshotFacts, BoundsAssumption
      <4>2. Len(row.log) <= Cap - Len(q.batch)
        BY <1>1, <2>2 DEF AppendAllowed
      <4>3. Len(row.log) \in Nat
        BY <4>1 DEF Logs
      <4>4. \A n \in 1..Cap : n \in Nat
        BY <4>1
      <4> QED
        BY <4>1, <4>2, <4>3, <4>4
    <3>2. Len(row.log) + Len(q.batch) <= Cap
      <4>1. ASSUME NEW m \in Nat, NEW n \in Nat, NEW c \in Nat, m <= c - n
            PROVE  m + n <= c
        BY <4>1
      <4> QED
        BY <3>1, <4>1
    <3> QED
      BY <1>3, <3>2
  <2> QED
    BY <2>1, <2>2
<1>5. Solves(q.tag, Derived(q)) => Solves(q.tag, row.log \o q.batch)
  <2>1. IsPrefix(q.seen, row.log) /\ q.seen \in Logs /\ q.batch \in Logs
    BY <1>1, <1>2, SnapshotFacts, PrefixReflexive
  <2> QED
    BY <1>1, <2>1, SolvesOfSnapshot DEF Derived
<1>6. Appended(q) \in Items
  <2>1. row.version + 1 \in Nat
    BY <1>1 DEF Items
  <2> QED
    BY <1>1, <1>3, <2>1, SnapshotFacts DEF Appended, Derivation, Items
<1> QED
  BY <1>2, <1>3, <1>4, <1>5, <1>6

(* The appended item is one the row may take.                              *)
LEMMA AppendFollows ==
    ASSUME Inv, NEW r \in Requests, req[r].pc = "write", AppendAllowed(req[r])
    PROVE  LET item == Appended(req[r])
           IN  /\ item \in Items /\ item.puzzle = req[r].tag /\ item.last = req[r].now
               /\ Len(item.log) <= Cap
               /\ item.solved => Solves(item.puzzle, item.log)
               /\ Follows(item, row)
<1> DEFINE item == Appended(req[r])
<1>1. /\ item \in Items /\ item.puzzle = req[r].tag /\ item.last = req[r].now
      /\ Len(item.log) <= Cap
      /\ item.solved => Solves(item.puzzle, item.log)
  BY AppendedFacts DEF Appended, Derivation
<1>2. Follows(item, row)
  <2>1. item.log = row.log \o req[r].batch /\ item.puzzle = req[r].tag
    BY DEF Appended, Derivation
  <2>2. ~row.solved
    BY DEF AppendAllowed
  <2> HIDE DEF item
  <2>3. IsPrefix(row.log, item.log)
    BY <2>1, AppendedFacts
  <2>4. row.puzzle = req[r].tag \/ row.puzzle = 0
    BY AppendedFacts
  <2>5. req[r].tag # 0 /\ req[r].tag \in Nat /\ row.puzzle \in Nat
    BY StateTypes, FieldTypes, SnapshotFacts
  <2> QED
    BY <2>1, <2>2, <2>3, <2>4, <2>5 DEF Follows
<1> QED
  BY <1>1, <1>2

(* The append, allowed or refused.                                         *)
LEMMA AppendBatchStep == ASSUME Inv, NEW r \in Requests, AppendBatch(r) PROVE Inv'
<1>1. /\ req[r].pc = "write" /\ req[r] \in RequestStates /\ Pending(req[r])
      /\ RequestOK(req[r], row, edition)
  BY SnapshotFacts DEF AppendBatch, Pending
<1>2. RewardsTyped'
  BY RewardsUnchanged DEF AppendBatch
<1>3. CASE AppendAllowed(req[r]) /\ Write(r, Appended(req[r]))
  <2> DEFINE item == Appended(req[r])
  <2>1. /\ item \in Items /\ item.puzzle = req[r].tag /\ item.last = req[r].now
        /\ Len(item.log) <= Cap
        /\ item.solved => Solves(item.puzzle, item.log)
        /\ Follows(item, row)
    BY <1>1, <1>3, AppendFollows
  <2> HIDE DEF item
  <2> QED
    BY <1>1, <1>2, <1>3, <2>1, WriteStep DEF AppendBatch, item
<1>4. CASE req' = [req EXCEPT ![r].pc = "classify"] /\ UNCHANGED row
  <2> DEFINE q == [req[r] EXCEPT !.pc = "classify"]
  <2>1. /\ q \in RequestStates
        /\ q.pc = "classify" /\ q.tag = req[r].tag /\ q.now = req[r].now
        /\ q.batch = req[r].batch /\ q.answer = req[r].answer /\ q.log = req[r].log
        /\ q.seen = req[r].seen
    BY <1>1 DEF RequestStates, Pcs
  <2>2. req' = [req EXCEPT ![r] = q]
    BY <1>4
  <2> HIDE DEF q
  <2>3. RequestOK(q, row, edition)
    BY <1>1, <2>1 DEF RequestOK, Appending
  <2>4. SameArrival(q, req[r])
    BY <1>1, <2>1 DEF SameArrival, Pending
  <2> QED
    BY <1>1, <1>2, <1>4, <2>1, <2>2, <2>3, <2>4, QuietStep DEF AppendBatch
<1>5. \/ AppendAllowed(req[r]) /\ Write(r, Appended(req[r]))
      \/ req' = [req EXCEPT ![r].pc = "classify"] /\ UNCHANGED row
  BY DEF AppendBatch
<1> QED
  BY <1>3, <1>4, <1>5

(* An allowed restart replaces an older edition's record, solved for real. *)
LEMMA RestartedFacts ==
    ASSUME Inv, NEW r \in Requests, req[r].pc = "restart", RestartAllowed(req[r])
    PROVE  /\ Restarted(req[r]) \in Items
           /\ row.puzzle < req[r].tag
           /\ Solves(req[r].tag, Derived(req[r])) => Solves(req[r].tag, req[r].batch)
<1>1. row \in Items /\ req[r].now \in 0..MaxClock /\ row.version + 1 \in Nat
  <2>1. row \in Items
    BY StateTypes
  <2>2. req[r] \in RequestStates
    BY SnapshotFacts
  <2>3. row.version \in Nat
    BY <2>1 DEF Items
  <2>4. req[r].now \in 0..MaxClock
    BY <2>2 DEF RequestStates
  <2> QED
    BY <2>1, <2>3, <2>4
<1>2. row.puzzle < req[r].tag /\ req[r].seen = <<>>
  BY RestartIsNewer, SnapshotFacts
<1>3. Derived(req[r]) = req[r].batch
  BY <1>2, SnapshotFacts DEF Derived, Logs
<1>4. Restarted(req[r]) \in Items
  BY <1>1, SnapshotFacts DEF Restarted, Derivation, Items
<1> QED
  BY <1>2, <1>3, <1>4

(* What an allowed restart writes follows the record it replaces.          *)
LEMMA RestartFollows ==
    ASSUME Inv, NEW r \in Requests, req[r].pc = "restart", RestartAllowed(req[r])
    PROVE  LET item == Restarted(req[r])
           IN  /\ item \in Items /\ item.puzzle = req[r].tag /\ item.last = req[r].now
               /\ Len(item.log) <= Cap
               /\ item.solved => Solves(item.puzzle, item.log)
               /\ Follows(item, row)
<1> DEFINE item == Restarted(req[r])
<1>1. /\ item \in Items /\ item.puzzle = req[r].tag /\ item.last = req[r].now
      /\ Len(item.log) <= Cap
      /\ item.solved => Solves(item.puzzle, item.log)
  BY RestartedFacts, SnapshotFacts, BoundsAssumption DEF Restarted, Derivation
<1>2. Follows(item, row)
  BY <1>1, RestartedFacts DEF Follows
<1> QED
  BY <1>1, <1>2

(* The restart, allowed or refused.                                        *)
LEMMA RestartStep == ASSUME Inv, NEW r \in Requests, Restart(r) PROVE Inv'
<1>1. req[r].pc = "restart" /\ Pending(req[r])
  BY DEF Restart, Pending
<1>2. RewardsTyped'
  BY RewardsUnchanged DEF Restart
<1>3. CASE RestartAllowed(req[r]) /\ Write(r, Restarted(req[r]))
  <2> DEFINE item == Restarted(req[r])
  <2>1. /\ item \in Items /\ item.puzzle = req[r].tag /\ item.last = req[r].now
        /\ Len(item.log) <= Cap
        /\ item.solved => Solves(item.puzzle, item.log)
        /\ Follows(item, row)
    BY <1>1, <1>3, RestartFollows
  <2> HIDE DEF item
  <2> QED
    BY <1>1, <1>2, <1>3, <2>1, WriteStep DEF Restart, item
<1>4. CASE Answer(r, "too_fast") /\ UNCHANGED row
  BY <1>1, <1>2, <1>4, RefusedStep, "too_fast" \in Answers \ {"appended", "solved"}
  DEF Restart, Answers
<1> QED
  BY <1>3, <1>4 DEF Restart

(* The corrective write touches the summary only, and a solve it stores is *)
(* derived from a log the item still holds.                                *)
LEMMA SettledFacts ==
    ASSUME Inv, NEW r \in Requests, req[r].pc = "settle", SettleAllowed(req[r])
    PROVE  /\ Settled(req[r]) \in Items
           /\ row.puzzle = req[r].tag /\ row.puzzle # 0
           /\ Settled(req[r]).puzzle = row.puzzle /\ Settled(req[r]).log = row.log
           /\ Settled(req[r]).last = row.last /\ Settled(req[r]).gaveUp = row.gaveUp
           /\ Settled(req[r]).solved = (row.solved \/ Solves(req[r].tag, req[r].log))
           /\ Settled(req[r]).version = row.version + 1
           /\ Settled(req[r]).solved => Solves(row.puzzle, row.log)
           /\ Follows(Settled(req[r]), row)
           /\ Progress(req[r].tag, req[r].log) \in Nat
<1> DEFINE q == req[r]
           item == Settled(q)
<1>1. /\ q \in RequestStates /\ RequestOK(q, row, edition) /\ row \in Items
      /\ row.log \in Logs /\ q.log \in Logs /\ row.puzzle \in Nat /\ q.tag \in Nat
      /\ edition \in 1..MaxEdition
      /\ row.solved => Solves(row.puzzle, row.log)
  BY StateTypes, FieldTypes DEF Inv, TypeOK, StoreOK, SolveIsReal, Editions
<1>2. /\ q.tag \in 1..edition /\ Holds(row, q.tag, q.log) /\ Len(q.log) <= Cap
      /\ row.puzzle = q.tag
  BY <1>1 DEF RequestOK, SettleAllowed
<1>3. IsPrefix(q.log, row.log) /\ q.tag \in Editions /\ q.tag # 0
  <2>1. ~(row.puzzle > q.tag)
    BY <1>1, <1>2
  <2> QED
    BY <1>1, <1>2, <2>1, BoundsAssumption DEF Holds, Editions
<1>4. Progress(q.tag, q.log) \in Nat
  <2>1. <<>> \in Logs /\ Len(<<>>) <= Cap
    BY BoundsAssumption DEF Logs
  <2> QED
    BY <1>1, <1>2, <1>3, <2>1, ProgressTyped
<1>5. /\ item \in Items
      /\ item.puzzle = row.puzzle /\ item.log = row.log
      /\ item.last = row.last /\ item.gaveUp = row.gaveUp
      /\ item.solved = (row.solved \/ Solves(q.tag, q.log))
      /\ item.version = row.version + 1
  <2> DEFINE b == row.solved \/ Solves(q.tag, q.log)
             n == row.version + 1
  <2>1. b \in BOOLEAN /\ n \in Nat
    BY <1>1 DEF Solves, Items
  <2>2. item = [row EXCEPT !.progress = Progress(q.tag, q.log), !.solved = b, !.version = n]
    BY DEF Settled
  <2> HIDE DEF b, n, item
  <2>3. /\ item \in Items
        /\ item.puzzle = row.puzzle /\ item.log = row.log
        /\ item.last = row.last /\ item.gaveUp = row.gaveUp
        /\ item.solved = b /\ item.version = n
    BY <1>1, <1>4, <2>1, <2>2 DEF Items
  <2> QED
    BY <2>3 DEF b, n
<1> HIDE DEF item
<1>6. item.solved => Solves(row.puzzle, row.log)
  BY <1>1, <1>2, <1>3, <1>5, SolvesOfPrefix
<1>7. Follows(item, row)
  BY <1>1, <1>5, PrefixReflexive DEF Follows
<1> QED
  BY <1>2, <1>3, <1>4, <1>5, <1>6, <1>7 DEF item

(* The request after a corrective write: it finishes, or tries again.      *)
LEMMA SettlingStep ==
    ASSUME Inv, NEW r \in Requests, req[r].pc = "settle",
           NEW p \in RequestStates,
           p.tag = req[r].tag, p.log = req[r].log, p.seen = req[r].seen,
           p.now = req[r].now, p.answer = req[r].answer, p.pc = "settle",
           \/ UNCHANGED row
           \/ SettleAllowed(req[r]) /\ row' = Settled(req[r]),
           p.solved => req[r].solved \/ row'.solved,
           NEW q, q = p \/ q = Finished(p), req' = [req EXCEPT ![r] = q],
           UNCHANGED <<edition, artifact, clock, replica>>, RewardsTyped'
    PROVE  Inv'
<1>1. /\ req[r] \in RequestStates /\ RequestOK(req[r], row, edition)
      /\ row \in Items /\ Len(row.log) <= Cap /\ SolveIsReal
      /\ row.puzzle = 0 => row = Absent
      /\ row.puzzle \in Nat /\ req[r].tag \in Nat /\ edition \in Nat
      /\ req[r].log \in Logs
  BY StateTypes, FieldTypes DEF Inv, TypeOK, StoreOK
<1>2. /\ row' \in Items /\ Follows(row', row)
      /\ row'.puzzle = row.puzzle /\ row'.last = row.last
      /\ row'.log = row.log
      /\ row'.puzzle = 0 => row' = Absent
      /\ row'.solved => Solves(row'.puzzle, row'.log)
  BY <1>1, FollowsItself, SettledFacts DEF SolveIsReal
<1>3. /\ req[r].tag \in 1..edition /\ req[r].answer = "none"
      /\ Holds(row', req[r].tag, req[r].log)
      /\ Len(req[r].seen) <= Cap /\ Len(req[r].log) <= Cap
      /\ req[r].solved => (row.puzzle = req[r].tag => row.solved)
  BY <1>1, <1>2, HoldsKept DEF RequestOK
<1>4. p.solved => (row'.puzzle = p.tag => row'.solved)
  BY <1>1, <1>2, <1>3 DEF Follows
<1>5. /\ q \in RequestStates /\ q.tag = p.tag /\ q.log = p.log
      /\ q.seen \in {p.seen, <<>>}
      /\ \/ q.pc = "settle" /\ q.solved = p.solved /\ q.now = p.now /\ q.answer = p.answer
         \/ q.pc = "done" /\ q.answer = "appended"
         \/ q.pc = "done" /\ q.answer = "solved" /\ p.solved
         \/ q.pc = "reward" /\ q.answer = p.answer /\ p.solved /\ q.now = p.now
  BY FinishedFacts
<1>6. RequestOK(q, row', edition)
  BY <1>1, <1>3, <1>4, <1>5, BoundsAssumption DEF RequestOK, Appending
<1>7. SameArrival(q, req[r])
  BY <1>5 DEF SameArrival, Pending
<1>8. SolveIsReal' /\ Len(row'.log) <= Cap
  BY <1>1, <1>2 DEF SolveIsReal
<1> QED
  BY <1>2, <1>5, <1>6, <1>7, <1>8, RequestStep

(* One answered try of the corrective write.                               *)
LEMMA SettleStep == ASSUME Inv, NEW r \in Requests, Settle(r) PROVE Inv'
<1>1. /\ req[r].pc = "settle" /\ req[r] \in RequestStates
      /\ UNCHANGED <<edition, artifact, clock, replica>>
  BY DEF Settle, Inv, TypeOK
<1>2. RewardsTyped'
  BY RewardsUnchanged DEF Settle
<1>3. CASE /\ SettleAllowed(req[r]) /\ row' = Settled(req[r])
           /\ req' = [req EXCEPT ![r] = Finished(Confirmed(req[r]))]
  <2> DEFINE p == Confirmed(req[r])
             q == Finished(p)
             b == req[r].solved \/ Solves(req[r].tag, req[r].log)
  <2>1. b \in BOOLEAN
    BY <1>1 DEF Solves, RequestStates
  <2>2. p = [req[r] EXCEPT !.progress = Progress(req[r].tag, req[r].log), !.solved = b]
    BY DEF Confirmed
  <2>3. Progress(req[r].tag, req[r].log) \in Nat
    BY <1>1, <1>3, SettledFacts
  <2> HIDE DEF b, p
  <2>4. /\ p \in RequestStates
        /\ p.tag = req[r].tag /\ p.log = req[r].log /\ p.seen = req[r].seen
        /\ p.now = req[r].now /\ p.answer = req[r].answer /\ p.pc = "settle"
        /\ p.solved = b
    BY <1>1, <2>1, <2>2, <2>3 DEF RequestStates
  <2>5. p.solved => req[r].solved \/ row'.solved
    BY <1>1, <1>3, <2>4, SettledFacts DEF b
  <2>6. q = Finished(p) /\ req' = [req EXCEPT ![r] = q]
    BY <1>3 DEF p
  <2>7. SettleAllowed(req[r]) /\ row' = Settled(req[r])
    BY <1>3
  <2> HIDE DEF q
  <2> QED
    BY <1>1, <1>2, <2>4, <2>5, <2>6, <2>7, SettlingStep
<1>4. CASE req' = [req EXCEPT ![r] = Finished(req[r])] /\ UNCHANGED row
  <2> DEFINE q == Finished(req[r])
  <2>1. q = Finished(req[r]) /\ req' = [req EXCEPT ![r] = q]
    BY <1>4
  <2> HIDE DEF q
  <2> QED
    BY <1>1, <1>2, <1>4, <2>1, SettlingStep
<1> QED
  BY <1>3, <1>4 DEF Settle, Unconfirmed

(* One try of the corrective write that threw, applied or not.             *)
LEMMA SettleThrowsStep == ASSUME Inv, NEW r \in Requests, SettleThrows(r) PROVE Inv'
<1>1. /\ req[r].pc = "settle" /\ req[r] \in RequestStates
      /\ UNCHANGED <<edition, artifact, clock, replica>>
      /\ \/ UNCHANGED row
         \/ SettleAllowed(req[r]) /\ row' = Settled(req[r])
      /\ req' = [req EXCEPT ![r] = TriedAgain(req[r])]
  BY DEF SettleThrows, Inv, TypeOK
<1>2. RewardsTyped'
  BY FaultTyped DEF SettleThrows
<1>3. CASE req[r].attempts + 1 < MaxAttempts
  <2> DEFINE p == [req[r] EXCEPT !.attempts = req[r].attempts + 1]
  <2>1. /\ p \in RequestStates
        /\ p.tag = req[r].tag /\ p.log = req[r].log /\ p.seen = req[r].seen
        /\ p.now = req[r].now /\ p.answer = req[r].answer /\ p.pc = "settle"
        /\ p.solved = req[r].solved
    BY <1>1, <1>3, BoundsAssumption DEF RequestStates
  <2>2. TriedAgain(req[r]) = p
    BY <1>3 DEF TriedAgain
  <2> HIDE DEF p
  <2> QED
    BY <1>1, <1>2, <2>1, <2>2, SettlingStep
<1>4. CASE ~(req[r].attempts + 1 < MaxAttempts)
  <2> DEFINE q == Finished(req[r])
  <2>1. q = Finished(req[r]) /\ TriedAgain(req[r]) = q
    BY <1>4 DEF TriedAgain, Unconfirmed
  <2> HIDE DEF q
  <2> QED
    BY <1>1, <1>2, <2>1, SettlingStep
<1> QED
  BY <1>3, <1>4

(* The give-up marks a record that exists and is not solved.               *)
LEMMA GivenUpFacts ==
    ASSUME Inv, NEW r \in Requests, req[r].pc = "giveUp", GiveUpAllowed(req[r])
    PROVE  /\ GivenUp \in Items /\ GivenUp.puzzle = row.puzzle /\ GivenUp.puzzle # 0
           /\ GivenUp.log = row.log /\ GivenUp.last = row.last
           /\ GivenUp.solved = row.solved
           /\ Follows(GivenUp, row) /\ Len(GivenUp.log) <= Cap
           /\ GivenUp.solved => Solves(GivenUp.puzzle, GivenUp.log)
<1>1. /\ RequestOK(req[r], row, edition) /\ edition \in Nat
      /\ row \in Items /\ row.log \in Logs /\ Len(row.log) <= Cap /\ SolveIsReal
      /\ row.version + 1 \in Nat
  BY StateTypes, FieldTypes DEF Inv, StoreOK, Items
<1>2. req[r].tag \in 1..edition
  BY <1>1 DEF RequestOK
<1>3. /\ GivenUp \in Items /\ GivenUp.puzzle = row.puzzle /\ GivenUp.log = row.log
      /\ GivenUp.last = row.last /\ GivenUp.solved = row.solved
  <2> DEFINE n == row.version + 1
  <2>1. n \in Nat
    BY <1>1
  <2>2. GivenUp = [row EXCEPT !.gaveUp = TRUE, !.version = n]
    BY DEF GivenUp
  <2> HIDE DEF n
  <2> QED
    BY <1>1, <2>1, <2>2 DEF Items
<1>4. GivenUp.puzzle # 0
  BY <1>1, <1>2, <1>3 DEF GiveUpAllowed
<1>5. Follows(GivenUp, row)
  BY <1>1, <1>3, PrefixReflexive DEF Follows
<1> QED
  BY <1>1, <1>3, <1>4, <1>5 DEF SolveIsReal

(* The give-up, allowed or refused.                                        *)
LEMMA GiveUpStep == ASSUME Inv, NEW r \in Requests, GiveUp(r) PROVE Inv'
<1>1. /\ req[r].pc = "giveUp" /\ req[r] \in RequestStates
      /\ RequestOK(req[r], row, edition)
      /\ UNCHANGED <<edition, artifact, clock, replica>>
  BY StateTypes DEF GiveUp, Inv
<1>2. RewardsTyped'
  BY RewardsUnchanged DEF GiveUp
<1>3. CASE GiveUpAllowed(req[r]) /\ row' = GivenUp /\ Answer(r, "given_up")
  <2> DEFINE q == Answered(req[r], "given_up")
  <2>1. req[r].answer = "none"
    BY <1>1 DEF RequestOK
  <2>2. /\ q \in RequestStates /\ q.pc = "done" /\ q.tag = req[r].tag
        /\ q.log = req[r].log /\ q.seen = <<>> /\ q.answer = "given_up"
    BY <1>1, AnsweredFacts, "given_up" \in Answers DEF Answers
  <2>3. req' = [req EXCEPT ![r] = q]
    BY <1>3 DEF Answer
  <2>4. /\ row' \in Items /\ row'.puzzle = row.puzzle /\ row'.puzzle # 0
        /\ row'.last = row.last /\ Follows(row', row) /\ Len(row'.log) <= Cap
        /\ row'.solved => Solves(row'.puzzle, row'.log)
    BY <1>1, <1>3, GivenUpFacts
  <2> HIDE DEF q
  <2>5. RequestOK(q, row', edition)
    BY <1>1, <2>2, BoundsAssumption DEF RequestOK, Appending
  <2>6. SameArrival(q, req[r]) /\ SolveIsReal'
    BY <2>2, <2>4 DEF SameArrival, Pending, SolveIsReal
  <2> QED
    BY <1>1, <1>2, <2>2, <2>3, <2>4, <2>5, <2>6, RequestStep
<1>4. CASE req' = [req EXCEPT ![r].pc = "judge"] /\ UNCHANGED row
  <2> DEFINE q == [req[r] EXCEPT !.pc = "judge"]
  <2>1. /\ q \in RequestStates
        /\ q.pc = "judge" /\ q.tag = req[r].tag /\ q.now = req[r].now
        /\ q.answer = req[r].answer /\ q.log = req[r].log /\ q.seen = req[r].seen
    BY <1>1 DEF RequestStates, Pcs
  <2>2. req' = [req EXCEPT ![r] = q]
    BY <1>4
  <2> HIDE DEF q
  <2>3. RequestOK(q, row, edition)
    BY <1>1, <2>1 DEF RequestOK, Appending
  <2>4. SameArrival(q, req[r])
    BY <1>1, <2>1 DEF SameArrival, Pending
  <2> QED
    BY <1>1, <1>2, <1>4, <2>1, <2>2, <2>3, <2>4, QuietStep
<1> QED
  BY <1>3, <1>4 DEF GiveUp

(* A write of the request's own item whose answer is lost: the request     *)
(* learns nothing, and the row takes an item that follows it.              *)
LEMMA UnheardStep ==
    ASSUME Inv, NEW r \in Requests, Pending(req[r]), NEW q \in RequestStates,
           req' = [req EXCEPT ![r] = q],
           \/ /\ q = [req[r] EXCEPT !.pc = "classify"]
              /\ req[r].pc = "write"
           \/ q \in {Answered(req[r], a) : a \in {"too_fast", "failed"}},
           row' \in Items, row'.puzzle # 0, Follows(row', row), Len(row'.log) <= Cap,
           row'.solved => Solves(row'.puzzle, row'.log),
           \/ row'.puzzle = row.puzzle /\ row'.last = row.last
           \/ row'.puzzle = req[r].tag /\ row'.last = req[r].now,
           UNCHANGED <<edition, artifact, clock, replica>>, RewardsTyped'
    PROVE  Inv'
<1>1. /\ req[r] \in RequestStates /\ RequestOK(req[r], row, edition)
      /\ row \in Items /\ edition \in Nat
  BY StateTypes DEF Inv
<1>2. RequestOK(req[r], row', edition)
  BY <1>1, RequestKept
<1>3. CASE q = [req[r] EXCEPT !.pc = "classify"] /\ req[r].pc = "write"
  <2>1. /\ q.pc = "classify" /\ q.tag = req[r].tag /\ q.now = req[r].now
        /\ q.batch = req[r].batch /\ q.answer = req[r].answer /\ q.log = req[r].log
        /\ q.seen = req[r].seen
    BY <1>1, <1>3 DEF RequestStates
  <2>2. RequestOK(q, row', edition)
    BY <1>2, <1>3, <2>1 DEF RequestOK, Appending
  <2>3. SameArrival(q, req[r]) /\ SolveIsReal'
    BY <2>1 DEF SameArrival, Pending, SolveIsReal
  <2> QED
    BY <2>2, <2>3, RequestStep
<1>4. CASE q \in {Answered(req[r], a) : a \in {"too_fast", "failed"}}
  <2>1. PICK a \in {"too_fast", "failed"} : q = Answered(req[r], a)
    BY <1>4
  <2>2. a \in Answers
    BY <2>1 DEF Answers
  <2>3. /\ q.pc = "done" /\ q.tag = req[r].tag
        /\ q.log = req[r].log /\ q.seen = <<>> /\ q.answer = a
    BY <1>1, <2>1, <2>2, AnsweredFacts
  <2>4. RequestOK(q, row', edition)
    BY <1>2, <2>1, <2>3, BoundsAssumption DEF RequestOK, Appending, Pending
  <2>5. SameArrival(q, req[r]) /\ SolveIsReal'
    BY <2>3 DEF SameArrival, Pending, SolveIsReal
  <2> QED
    BY <2>4, <2>5, RequestStep
<1> QED
  BY <1>3, <1>4

(* A write that was applied and whose answer was lost.                     *)
LEMMA LostAnswerStep == ASSUME Inv, NEW r \in Requests, LostAnswer(r) PROVE Inv'
<1>1. RewardsTyped' /\ UNCHANGED <<edition, artifact, clock, replica>>
  BY FaultTyped DEF LostAnswer
<1>2. req[r] \in RequestStates
  BY StateTypes
<1>3. CASE /\ req[r].pc = "write" /\ AppendAllowed(req[r])
           /\ row' = Appended(req[r])
           /\ req' = [req EXCEPT ![r].pc = "classify"]
  <2> DEFINE q == [req[r] EXCEPT !.pc = "classify"]
  <2>1. q \in RequestStates /\ req' = [req EXCEPT ![r] = q]
    BY <1>2, <1>3 DEF RequestStates, Pcs
  <2>2. Pending(req[r]) /\ req[r].tag # 0
    BY <1>3, SnapshotFacts DEF Pending
  <2> HIDE DEF q
  <2> QED
    BY <1>1, <1>3, <2>1, <2>2, AppendFollows, UnheardStep DEF q
<1>4. CASE /\ req[r].pc = "restart" /\ RestartAllowed(req[r])
           /\ row' = Restarted(req[r])
           /\ Answer(r, "too_fast")
  <2> DEFINE q == Answered(req[r], "too_fast")
  <2>1. q \in RequestStates /\ req' = [req EXCEPT ![r] = q]
    BY <1>2, <1>4, AnsweredFacts, "too_fast" \in Answers DEF Answer, Answers
  <2>2. Pending(req[r]) /\ req[r].tag # 0
    BY <1>4, SnapshotFacts DEF Pending
  <2>3. q \in {Answered(req[r], a) : a \in {"too_fast", "failed"}}
    OBVIOUS
  <2> HIDE DEF q
  <2> QED
    BY <1>1, <1>4, <2>1, <2>2, <2>3, RestartFollows, UnheardStep
<1>5. CASE /\ req[r].pc = "giveUp" /\ GiveUpAllowed(req[r])
           /\ row' = GivenUp
           /\ Answer(r, "failed")
  <2> DEFINE q == Answered(req[r], "failed")
  <2>1. q \in RequestStates /\ req' = [req EXCEPT ![r] = q]
    BY <1>2, <1>5, AnsweredFacts, "failed" \in Answers DEF Answer, Answers
  <2>2. Pending(req[r])
    BY <1>5 DEF Pending
  <2>3. q \in {Answered(req[r], a) : a \in {"too_fast", "failed"}}
    OBVIOUS
  <2> HIDE DEF q
  <2> QED
    BY <1>1, <1>5, <2>1, <2>2, <2>3, GivenUpFacts, UnheardStep
<1> QED
  BY <1>3, <1>4, <1>5 DEF LostAnswer

-----------------------------------------------------------------------------
(* The steps of everything else, and the induction.                        *)

(* Time, a correction being published, and replication.                    *)
LEMMA EnvironmentStep == ASSUME Inv, Environment PROVE Inv'
<1>1. /\ req \in [Requests -> RequestStates] /\ row \in Items /\ replica \in Items
      /\ edition \in Nat /\ edition' \in Nat /\ edition <= edition'
      /\ clock \in Nat /\ clock' \in Nat /\ clock <= clock'
      /\ row.puzzle \in Nat /\ row.log \in Logs
      /\ \A r \in Requests : req[r].now \in Nat
      /\ UNCHANGED <<row, req>>
  BY StateTypes, FieldTypes
  DEF Environment, Tick, PublishSlice, PublishArtifact, Replicate
<1>2. TypeOK'
  BY BoundsAssumption
  DEF Inv, TypeOK, Environment, Tick, PublishSlice, PublishArtifact, Replicate, Editions
<1>3. StoreOK'
  <2>1. artifact' <= edition' /\ row'.puzzle <= edition' /\ edition \in Nat /\ artifact \in Nat
    BY <1>1, BoundsAssumption
    DEF Inv, TypeOK, StoreOK, Environment, Tick, PublishSlice, PublishArtifact, Replicate, Editions
  <2>2. Len(row'.log) <= Cap /\ SolveIsReal'
    BY <1>1 DEF Inv, StoreOK, SolveIsReal
  <2>3. Holds(row', replica'.puzzle, replica'.log) /\ Len(replica'.log) <= Cap
    <3>1. CASE UNCHANGED replica
      BY <1>1, <3>1 DEF Inv, StoreOK
    <3>2. CASE replica' = row
      BY <1>1, <3>2, PrefixReflexive DEF Inv, StoreOK, Holds
    <3> QED
      BY <3>1, <3>2 DEF Environment, Tick, PublishSlice, PublishArtifact, Replicate
  <2> QED
    BY <2>1, <2>2, <2>3 DEF StoreOK
<1>4. \A r \in Requests : RequestOK(req'[r], row', edition')
  <2>1. ASSUME NEW r \in Requests PROVE RequestOK(req[r], row, edition')
    <3>1. RequestOK(req[r], row, edition) /\ req[r] \in RequestStates
      BY <1>1 DEF Inv
    <3> QED
      BY <1>1, <3>1, FollowsItself, RequestKept
  <2> QED
    BY <1>1, <2>1
<1>5. Timely'
  BY <1>1 DEF Inv, Timely, Pending
<1> QED
  BY <1>2, <1>3, <1>4, <1>5 DEF Inv

(* The empty store satisfies the invariant.                                *)
LEMMA InitInv == ASSUME Init PROVE Inv
<1>1. Absent \in Items /\ <<>> \in Logs /\ Len(<<>>) = 0
  BY BoundsAssumption DEF Absent, Items, Logs
<1>2. TypeOK
  <2>1. req \in [Requests -> RequestStates]
    BY IdleTyped DEF Init
  <2>2. row \in Items /\ row = Absent /\ replica \in Items /\ replica = Absent
    BY <1>1 DEF Init
  <2>3. /\ edition \in Editions /\ artifact \in Editions
        /\ clock \in 0..MaxClock /\ faults \in 0..MaxFaults
    BY BoundsAssumption DEF Init, Editions
  <2>4. score \in [edition : 0..MaxEdition, tries : Nat]
    BY BoundsAssumption DEF Init, NoScore
  <2>5. streak \in BOOLEAN
    BY DEF Init
  <2> QED
    BY <2>1, <2>2, <2>3, <2>4, <2>5 DEF TypeOK
<1>3. StoreOK
  BY <1>1, PrefixReflexive, BoundsAssumption DEF Init, StoreOK, SolveIsReal, Holds, Absent
<1>4. \A r \in Requests : RequestOK(req[r], row, edition)
  BY <1>1, BoundsAssumption DEF Init, RequestOK, Idle, Appending
<1>5. Timely
  BY DEF Init, Timely, Pending, Idle
<1> QED
  BY <1>2, <1>3, <1>4, <1>5 DEF Inv

(* Every step keeps the invariant.                                         *)
LEMMA NextInv == ASSUME Inv, [Next]_vars PROVE Inv'
<1>1. ASSUME NEW r \in Requests, Begin(r) PROVE Inv'
  BY <1>1, BeginStep
<1>2. ASSUME NEW r \in Requests, Step(r) PROVE Inv'
  BY <1>2, ReadStep, ConfirmStep, AppendBatchStep, ClassifyStep, RestartStep, SettleStep,
     CreditStep, LoadArtifactStep, SubmitStep, ReplaceScoreStep, GiveUpStep, JudgeStep
  DEF Step
<1>3. ASSUME NEW r \in Requests, Throw(r) PROVE Inv'
  BY <1>3, SettleThrowsStep, RewardThrowsStep, FailStep, LostAnswerStep DEF Throw
<1>4. CASE Environment
  BY <1>4, EnvironmentStep
<1>5. CASE UNCHANGED vars
  BY <1>5 DEF vars, Inv, TypeOK, StoreOK, SolveIsReal, Timely
<1> QED
  BY <1>1, <1>2, <1>3, <1>4, <1>5 DEF Next

(* The invariant, on which every theorem below rests.                      *)
THEOREM Invariance == Spec => []Inv
<1>1. Init => Inv
  BY InitInv
<1>2. Inv /\ [Next]_vars => Inv'
  BY NextInv
<1> QED
  BY <1>1, <1>2, PTL DEF Spec

-----------------------------------------------------------------------------
(* The row's promises.                                                     *)

(* Every value in the store and in a request's memory is of its type.      *)
THEOREM TypeCorrect == Spec => []TypeOK
<1>1. Inv => TypeOK
  BY DEF Inv
<1> QED
  BY <1>1, Invariance, PTL

(* No interleaving of appends and restarts takes a log past the cap.       *)
THEOREM CapHolds == Spec => []CapRespected
<1>1. Inv => CapRespected
  BY DEF Inv, StoreOK, CapRespected
<1> QED
  BY <1>1, Invariance, PTL

(* A stored solve is a solve of the stored log, though the append that     *)
(* wrote it was derived from a snapshot and the corrective write from an   *)
(* answer (rounds.ts, deriveRound and settleAppend).                       *)
THEOREM SolvesAreReal == Spec => []SolveIsReal
<1>1. Inv => SolveIsReal
  BY DEF Inv, StoreOK
<1> QED
  BY <1>1, Invariance, PTL

(* What an answer acknowledged is in the row until a newer revision's      *)
(* round replaces it (dynamoRoundStore.ts, the append and the restart).    *)
THEOREM AcknowledgementsHold == Spec => []AcknowledgedKept
<1>1. Inv => AcknowledgedKept
  BY DEF Inv, RequestOK, Holds, AcknowledgedKept
<1> QED
  BY <1>1, Invariance, PTL

(* An answer that says solved is backed by the row (rounds.ts,             *)
(* settleAppend: the answer carries the state as stored).                  *)
THEOREM SolveAnswersAreDurable == Spec => []SolveAnswerIsDurable
<1>1. Inv => SolveAnswerIsDurable
  BY DEF Inv, RequestOK, SolveAnswerIsDurable
<1> QED
  BY <1>1, Invariance, PTL

-----------------------------------------------------------------------------
(* The row implements the contract its readers rely on.                    *)

Round(item) == [puzzle |-> item.puzzle, log |-> item.log,
                solved |-> item.solved, gaveUp |-> item.gaveUp]

(* Of all the steps, only the writes of a request move the row.            *)
LEMMA RowWrites ==
    ASSUME [Next]_vars, row' # row
    PROVE  \E r \in Requests :
             \/ req[r].pc = "write" /\ AppendAllowed(req[r]) /\ row' = Appended(req[r])
             \/ req[r].pc = "restart" /\ RestartAllowed(req[r]) /\ row' = Restarted(req[r])
             \/ req[r].pc = "settle" /\ SettleAllowed(req[r]) /\ row' = Settled(req[r])
             \/ req[r].pc = "giveUp" /\ GiveUpAllowed(req[r]) /\ row' = GivenUp
<1>1. PICK r \in Requests : \/ AppendBatch(r) \/ Restart(r) \/ Settle(r) \/ SettleThrows(r)
                           \/ GiveUp(r) \/ LostAnswer(r)
  BY DEF Next, vars, storeVars, Begin, Step, Throw, Environment, Read, Confirm, Classify,
         Credit, LoadArtifact, Submit, ReplaceScore, Judge, RewardThrows, Fail,
         Tick, PublishSlice, PublishArtifact, Replicate
<1>2. CASE AppendBatch(r)
  BY <1>2 DEF AppendBatch, Write
<1>3. CASE Restart(r)
  BY <1>3 DEF Restart, Write
<1>4. CASE Settle(r)
  BY <1>4 DEF Settle
<1>5. CASE SettleThrows(r)
  BY <1>5 DEF SettleThrows
<1>6. CASE GiveUp(r)
  BY <1>6 DEF GiveUp
<1>7. CASE LostAnswer(r)
  BY <1>7 DEF LostAnswer
<1> QED
  BY <1>1, <1>2, <1>3, <1>4, <1>5, <1>6, <1>7

(* An allowed append is the contract's Accept, or its Start.               *)
LEMMA AppendImplements ==
    ASSUME Inv, NEW r \in Requests, req[r].pc = "write", AppendAllowed(req[r]),
           row' = Appended(req[r])
    PROVE  Contract!Next
<1> DEFINE b == req[r].batch
           t == req[r].tag
           s == Solves(t, Derived(req[r]))
<1>1. /\ t \in Contract!Editions /\ b \in Batches /\ s \in BOOLEAN /\ Len(b) <= Cap
      /\ b \in Logs /\ t # 0 /\ t \in Nat
  BY SnapshotFacts, FieldTypes DEF Contract!Editions, Editions, RequestOK, Appending
<1>2. /\ row'.puzzle = t /\ row'.log = row.log \o b
      /\ row'.solved = s /\ row'.gaveUp = FALSE
  BY DEF Appended, Derivation
<1>3. s => Contract!Solves(t, row.log \o b)
  BY AppendedFacts DEF Contract!Solves, Solves
<1>4. CASE row.puzzle = t
  <2>1. ~row.solved /\ ~row.gaveUp /\ Len(row.log) + Len(b) <= Cap
    BY AppendedFacts DEF AppendAllowed
  <2>2. row.solved = FALSE /\ row.gaveUp = FALSE
    BY <2>1, StateTypes DEF Items
  <2> HIDE DEF s, b, t
  <2>3. Round(row)' = Contract!Record(row.puzzle, row.log \o b, s, FALSE)
    BY <1>2, <1>4 DEF Round, Contract!Record
  <2>4. /\ Round(row).puzzle = t /\ Round(row).log = row.log
        /\ ~Round(row).solved /\ ~Round(row).gaveUp
    BY <1>4, <2>1 DEF Round
  <2>5. Contract!Accept(b)
    BY <1>1, <1>3, <1>4, <2>1, <2>3, <2>4 DEF Contract!Accept, Round
  <2> QED
    BY <1>1, <2>5 DEF Contract!Next
<1>5. CASE row.puzzle = 0 /\ row.log = <<>>
  <2>1. row.log \o b = b
    BY <1>1, <1>5 DEF Logs
  <2> HIDE DEF s, b, t
  <2>2. Round(row)' = Contract!Record(t, b, s, FALSE)
    BY <1>2, <2>1 DEF Round, Contract!Record
  <2>3. Round(row).puzzle < t
    BY <1>1, <1>5 DEF Round
  <2>4. Contract!Start(t, b)
    BY <1>1, <1>3, <2>1, <2>2, <2>3 DEF Contract!Start, Round
  <2> QED
    BY <1>1, <2>4 DEF Contract!Next
<1> QED
  BY <1>4, <1>5, AppendedFacts

(* An allowed restart is the contract's Start.                             *)
LEMMA RestartImplements ==
    ASSUME Inv, NEW r \in Requests, req[r].pc = "restart", RestartAllowed(req[r]),
           row' = Restarted(req[r])
    PROVE  Contract!Next
<1> DEFINE b == req[r].batch
           t == req[r].tag
           s == Solves(t, Derived(req[r]))
<1>1. /\ t \in Contract!Editions /\ b \in Batches /\ s \in BOOLEAN /\ Len(b) <= Cap
  BY SnapshotFacts DEF Contract!Editions, Editions, RequestOK, Appending
<1>2. /\ row'.puzzle = t /\ row'.log = b
      /\ row'.solved = s /\ row'.gaveUp = FALSE
  BY DEF Restarted, Derivation
<1>3. row.puzzle < t /\ (s => Contract!Solves(t, b))
  BY RestartedFacts DEF Contract!Solves, Solves
<1> HIDE DEF s, b, t
<1>4. Round(row)' = Contract!Record(t, b, s, FALSE)
  BY <1>2 DEF Round, Contract!Record
<1>5. Round(row).puzzle < t
  BY <1>3 DEF Round
<1>6. Contract!Start(t, b)
  BY <1>1, <1>3, <1>4, <1>5 DEF Contract!Start, Round
<1> QED
  BY <1>1, <1>6 DEF Contract!Next

(* A corrective write is the contract's RecordSolve, or a stutter.         *)
LEMMA SettleImplements ==
    ASSUME Inv, NEW r \in Requests, req[r].pc = "settle", SettleAllowed(req[r]),
           row' = Settled(req[r])
    PROVE  Contract!Next \/ Round(row)' = Round(row)
<1>1. /\ row.puzzle # 0
      /\ row'.puzzle = row.puzzle /\ row'.log = row.log /\ row'.gaveUp = row.gaveUp
      /\ row'.solved = (row.solved \/ Solves(req[r].tag, req[r].log))
      /\ row'.solved => Solves(row.puzzle, row.log)
  BY SettledFacts
<1>2. row.solved \in BOOLEAN /\ row'.solved \in BOOLEAN
  BY StateTypes, SettledFacts DEF Items
<1>3. CASE row'.solved = row.solved
  BY <1>1, <1>3 DEF Round
<1>4. CASE row'.solved = TRUE
  <2>1. Contract!Solves(row.puzzle, row.log)
    BY <1>1, <1>4 DEF Contract!Solves, Solves
  <2>2. Round(row)' = Contract!Record(row.puzzle, row.log, TRUE, row.gaveUp)
    BY <1>1, <1>4 DEF Round, Contract!Record
  <2>3. Contract!RecordSolve
    BY <1>1, <2>1, <2>2 DEF Contract!RecordSolve, Round
  <2> QED
    BY <2>3 DEF Contract!Next
<1>5. row'.solved = row.solved \/ row'.solved = TRUE
  BY <1>1, <1>2
<1> QED
  BY <1>3, <1>4, <1>5

(* An allowed give-up is the contract's GiveUp.                            *)
LEMMA GiveUpImplements ==
    ASSUME Inv, NEW r \in Requests, req[r].pc = "giveUp", GiveUpAllowed(req[r]),
           row' = GivenUp
    PROVE  Contract!Next
<1>1. /\ row'.puzzle = row.puzzle /\ row'.log = row.log /\ row'.solved = row.solved
      /\ row'.gaveUp = TRUE
  BY StateTypes DEF Items, GivenUp
<1>2. row.puzzle # 0 /\ ~row.solved
  <2>1. req[r].pc = "giveUp" /\ RequestOK(req[r], row, edition) /\ edition \in Nat
    BY StateTypes DEF Inv
  <2>2. req[r].tag \in 1..edition
    BY <2>1 DEF RequestOK
  <2> QED
    BY <2>1, <2>2 DEF GiveUpAllowed
<1>3. row.solved = FALSE
  BY <1>2, StateTypes DEF Items
<1>4. Round(row)' = Contract!Record(row.puzzle, row.log, FALSE, TRUE)
  BY <1>1, <1>3 DEF Round, Contract!Record
<1>5. Contract!GiveUp
  BY <1>2, <1>4 DEF Contract!GiveUp, Round
<1> QED
  BY <1>5 DEF Contract!Next

(* Every step is a step of the contract, or a stutter.                     *)
LEMMA NextImplements ==
    ASSUME Inv, [Next]_vars
    PROVE  Contract!Next \/ Round(row)' = Round(row)
<1>1. CASE row' = row
  BY <1>1 DEF Round
<1>2. CASE row' # row
  BY <1>2, RowWrites, AppendImplements, RestartImplements, SettleImplements, GiveUpImplements
<1> QED
  BY <1>1, <1>2

(* The route's separate reads and writes implement the one-step round      *)
(* record of roundStore.ts and its reference memoryRoundStore.ts.          *)
THEOREM Implementation == Spec => ImplementsContract
<1>1. Init => Contract!Init
  BY DEF Init, Contract!Init, Contract!NoRound, Contract!Record, Absent
<1>2. Inv /\ [Next]_vars => [Contract!Next]_(Round(row))
  BY NextImplements
<1> QED
  BY <1>1, <1>2, Invariance, PTL DEF Spec, ImplementsContract, Contract!Spec, Round

-----------------------------------------------------------------------------
(* What a step may never do to the row.                                    *)

(* An append extends the log of a round that is not over.                  *)
LEMMA AppendKeeps ==
    ASSUME Inv, NEW r \in Requests, req[r].pc = "write", AppendAllowed(req[r]),
           row' = Appended(req[r])
    PROVE  /\ row'.puzzle >= row.puzzle
           /\ row'.version = row.version + 1
           /\ IsPrefix(row.log, row'.log)
           /\ ~row.solved /\ ~row.gaveUp
<1>1. row.puzzle \in Nat /\ req[r].tag \in Nat
  BY StateTypes, FieldTypes
<1>2. row.puzzle = req[r].tag \/ row.puzzle = 0
  BY AppendedFacts
<1>3. /\ row'.puzzle = req[r].tag /\ row'.log = row.log \o req[r].batch
      /\ row'.version = row.version + 1
  BY DEF Appended, Derivation
<1>4. IsPrefix(row.log, row'.log)
  BY <1>3, AppendedFacts
<1> QED
  BY <1>1, <1>2, <1>3, <1>4 DEF AppendAllowed

(* A restart moves the item to a newer edition.                            *)
LEMMA RestartKeeps ==
    ASSUME Inv, NEW r \in Requests, req[r].pc = "restart", RestartAllowed(req[r]),
           row' = Restarted(req[r])
    PROVE  row'.puzzle > row.puzzle /\ row'.version = row.version + 1
<1>1. row.puzzle < req[r].tag
  BY RestartedFacts
<1>2. row'.puzzle = req[r].tag /\ row'.version = row.version + 1
  BY DEF Restarted, Derivation
<1>3. row.puzzle \in Nat /\ req[r].tag \in Nat
  BY StateTypes, FieldTypes
<1> QED
  BY <1>1, <1>2, <1>3

(* A corrective write leaves the log alone and takes no flag back.         *)
LEMMA SettleKeeps ==
    ASSUME Inv, NEW r \in Requests, req[r].pc = "settle", SettleAllowed(req[r]),
           row' = Settled(req[r])
    PROVE  /\ row'.puzzle = row.puzzle /\ row'.version = row.version + 1
           /\ row'.log = row.log /\ row'.gaveUp = row.gaveUp
           /\ row.solved => row'.solved
BY SettledFacts

(* A give-up leaves the log alone and takes no flag back.                  *)
LEMMA GiveUpKeeps ==
    ASSUME Inv, NEW r \in Requests, req[r].pc = "giveUp", GiveUpAllowed(req[r]),
           row' = GivenUp
    PROVE  /\ row'.puzzle = row.puzzle /\ row'.version = row.version + 1
           /\ row'.log = row.log /\ row'.solved = row.solved
           /\ row'.gaveUp
BY StateTypes DEF Items, GivenUp

(* The log of an edition is append-only and its end is final               *)
(* (dynamoRoundStore.ts, the append's and the settle's conditions).        *)
THEOREM LogsOnlyGrow == Spec => LogOnlyGrows
<1>1. Inv /\ [Next]_vars =>
        [row'.puzzle = row.puzzle =>
          /\ IsPrefix(row.log, row'.log)
          /\ row.solved => row'.solved
          /\ row.gaveUp => row'.gaveUp
          /\ row.solved \/ row.gaveUp => row'.log = row.log]_row
  <2> SUFFICES ASSUME Inv, [Next]_vars, row' # row, row'.puzzle = row.puzzle
               PROVE  /\ IsPrefix(row.log, row'.log)
                      /\ row.solved => row'.solved
                      /\ row.gaveUp => row'.gaveUp
                      /\ row.solved \/ row.gaveUp => row'.log = row.log
    OBVIOUS
  <2>1. row.log \in Logs /\ row.puzzle \in Nat
    BY StateTypes, FieldTypes DEF Items
  <2>2. IsPrefix(row.log, row.log)
    BY <2>1, PrefixReflexive
  <2>3. PICK r \in Requests :
          \/ req[r].pc = "write" /\ AppendAllowed(req[r]) /\ row' = Appended(req[r])
          \/ req[r].pc = "restart" /\ RestartAllowed(req[r]) /\ row' = Restarted(req[r])
          \/ req[r].pc = "settle" /\ SettleAllowed(req[r]) /\ row' = Settled(req[r])
          \/ req[r].pc = "giveUp" /\ GiveUpAllowed(req[r]) /\ row' = GivenUp
    BY RowWrites
  <2>4. CASE req[r].pc = "write" /\ AppendAllowed(req[r]) /\ row' = Appended(req[r])
    BY <2>4, AppendKeeps
  <2>5. CASE req[r].pc = "restart" /\ RestartAllowed(req[r]) /\ row' = Restarted(req[r])
    <3>1. row'.puzzle > row.puzzle
      BY <2>5, RestartKeeps
    <3> QED
      BY <2>1, <3>1
  <2>6. CASE req[r].pc = "settle" /\ SettleAllowed(req[r]) /\ row' = Settled(req[r])
    BY <2>2, <2>6, SettleKeeps
  <2>7. CASE req[r].pc = "giveUp" /\ GiveUpAllowed(req[r]) /\ row' = GivenUp
    BY <2>2, <2>7, GiveUpKeeps
  <2> QED
    BY <2>3, <2>4, <2>5, <2>6, <2>7
<1> QED
  BY <1>1, Invariance, PTL DEF Spec, LogOnlyGrows

(* No request takes the row back to a retired edition, and every write     *)
(* moves the version (dynamoRoundStore.ts, VERSION_BUMP).                  *)
LEMMA WritesMoveForward ==
    ASSUME Inv, [Next]_vars, row' # row
    PROVE  row'.puzzle >= row.puzzle /\ row'.version > row.version
<1>1. row.puzzle \in Nat /\ row.version \in Nat
  BY StateTypes DEF Items
<1>2. PICK r \in Requests :
        \/ req[r].pc = "write" /\ AppendAllowed(req[r]) /\ row' = Appended(req[r])
        \/ req[r].pc = "restart" /\ RestartAllowed(req[r]) /\ row' = Restarted(req[r])
        \/ req[r].pc = "settle" /\ SettleAllowed(req[r]) /\ row' = Settled(req[r])
        \/ req[r].pc = "giveUp" /\ GiveUpAllowed(req[r]) /\ row' = GivenUp
  BY RowWrites
<1>3. row'.version = row.version + 1 /\ (row'.puzzle >= row.puzzle \/ row'.puzzle > row.puzzle
                                          \/ row'.puzzle = row.puzzle)
  BY <1>2, AppendKeeps, RestartKeeps, SettleKeeps, GiveUpKeeps
<1>4. row'.puzzle \in Int
  <2>1. Inv'
    BY NextInv
  <2> QED
    BY <2>1, BoundsAssumption DEF Inv, TypeOK, Items
<1> QED
  BY <1>1, <1>3, <1>4

(* A stale request from before a republish never overwrites the newer      *)
(* sentence's round (dynamoRoundStore.ts, the restart's write interval).   *)
THEOREM NeverBack == Spec => NeverBackToRetired
<1>1. Inv /\ [Next]_vars => [row'.puzzle >= row.puzzle]_row
  BY WritesMoveForward
<1> QED
  BY <1>1, Invariance, PTL DEF Spec, NeverBackToRetired

(* The version compared by planRoundMove witnesses every change.           *)
THEOREM VersionsMove == Spec => VersionMoves
<1>1. Inv /\ [Next]_vars => [row'.version > row.version]_row
  BY WritesMoveForward
<1> QED
  BY <1>1, Invariance, PTL DEF Spec, VersionMoves

-----------------------------------------------------------------------------
(* The rewards of a finished round agree with the row.                     *)

(* A request that settles or rewards holds a log, and rewards what solves. *)
Entitled(q) ==
    /\ q.pc \in {"settle", "reward"} => q.log # <<>>
    /\ q.pc = "reward" => Solves(q.tag, q.log)

(* The score row and the streak day are of a solve the item holds, or of   *)
(* an edition it left behind.                                              *)
ScoreEarned(s, item) ==
    s.edition # 0 =>
        \/ item.puzzle > s.edition
        \/ /\ item.puzzle = s.edition
           /\ item.solved
           /\ \E n \in 1..Len(item.log) :
                /\ Solves(item.puzzle, SubSeq(item.log, 1, n))
                /\ s.tries = Tries(item.puzzle, SubSeq(item.log, 1, n))

StreakEarned(item) == item.puzzle > 1 \/ (item.puzzle = 1 /\ item.solved)

RewardInv ==
    /\ Inv
    /\ \A r \in Requests : Entitled(req[r])
    /\ RewardsAreEarned

(* The start of a log is the same in every log it is a prefix of.          *)
LEMMA PrefixSubSeq ==
    ASSUME NEW s \in Logs, NEW t \in Logs, IsPrefix(s, t), NEW n \in 1..Len(s)
    PROVE  n \in 1..Len(t) /\ SubSeq(t, 1, n) = SubSeq(s, 1, n)
<1>1. Len(s) \in Nat /\ Len(t) \in Nat /\ Len(s) <= Len(t)
  BY PrefixPointwise DEF Logs
<1>2. n \in 1..Len(t) /\ \A i \in 1..n : s[i] = t[i]
  BY <1>1, PrefixPointwise
<1>3. /\ SubSeq(s, 1, n) \in Logs /\ SubSeq(t, 1, n) \in Logs
      /\ Len(SubSeq(s, 1, n)) = n /\ Len(SubSeq(t, 1, n)) = n
      /\ \A i \in 1..n : SubSeq(s, 1, n)[i] = s[i] /\ SubSeq(t, 1, n)[i] = t[i]
  BY <1>1, <1>2 DEF Logs
<1>4. SubSeq(t, 1, n) = SubSeq(s, 1, n)
  BY <1>2, <1>3 DEF Logs
<1> QED
  BY <1>2, <1>4

(* A log whose own start it is.                                            *)
LEMMA WholePrefix ==
    ASSUME NEW s \in Logs, NEW t \in Logs, IsPrefix(s, t), s # <<>>
    PROVE  Len(s) \in 1..Len(t) /\ SubSeq(t, 1, Len(s)) = s
<1>1. Len(s) \in Nat /\ Len(s) # 0
  BY DEF Logs
<1>2. Len(s) \in 1..Len(s)
  BY <1>1
<1>3. SubSeq(s, 1, Len(s)) = s
  BY <1>1 DEF Logs
<1> QED
  BY <1>2, <1>3, PrefixSubSeq

(* What is earned stays earned by every item that follows.                 *)
LEMMA EarnedKept ==
    ASSUME NEW old \in Items, NEW new \in Items, Follows(new, old),
           NEW s \in [edition : 0..MaxEdition, tries : Nat]
    PROVE  /\ ScoreEarned(s, old) => ScoreEarned(s, new)
           /\ StreakEarned(old) => StreakEarned(new)
<1>1. /\ old.puzzle \in Nat /\ new.puzzle \in Nat /\ s.edition \in Nat
      /\ old.log \in Logs /\ new.log \in Logs
  BY BoundsAssumption DEF Items
<1>2. StreakEarned(old) => StreakEarned(new)
  BY <1>1 DEF StreakEarned, Follows
<1>3. ASSUME ScoreEarned(s, old), s.edition # 0 PROVE ScoreEarned(s, new)
  <2>1. CASE new.puzzle > s.edition
    BY <2>1 DEF ScoreEarned
  <2>2. CASE ~(new.puzzle > s.edition)
    <3>1. /\ old.puzzle = s.edition /\ new.puzzle = s.edition
          /\ new.solved /\ IsPrefix(old.log, new.log)
      BY <1>1, <1>3, <2>2 DEF ScoreEarned, Follows
    <3>2. PICK n \in 1..Len(old.log) :
                /\ Solves(old.puzzle, SubSeq(old.log, 1, n))
                /\ s.tries = Tries(old.puzzle, SubSeq(old.log, 1, n))
      BY <1>1, <1>3, <3>1 DEF ScoreEarned
    <3>3. n \in 1..Len(new.log) /\ SubSeq(new.log, 1, n) = SubSeq(old.log, 1, n)
      BY <1>1, <3>1, PrefixSubSeq
    <3> QED
      BY <3>1, <3>2, <3>3 DEF ScoreEarned
  <2> QED
    BY <2>1, <2>2
<1>4. ScoreEarned(s, old) => ScoreEarned(s, new)
  BY <1>3 DEF ScoreEarned
<1> QED
  BY <1>2, <1>4

(* A rewarding request rewards a solve the row holds.                      *)
LEMMA RewardDue ==
    ASSUME Inv, NEW r \in Requests, req[r].pc = "reward", Entitled(req[r])
    PROVE  ScoreEarned(ScoreOf(req[r]), row) /\ StreakEarned(row)
<1>1. /\ req[r] \in RequestStates /\ RequestOK(req[r], row, edition) /\ edition \in Nat
      /\ row.puzzle \in Nat /\ row.log \in Logs /\ req[r].log \in Logs /\ req[r].tag \in Nat
  BY StateTypes, FieldTypes DEF Inv
<1>2. /\ req[r].tag \in 1..edition /\ Holds(row, req[r].tag, req[r].log)
      /\ row.puzzle = req[r].tag => row.solved
      /\ req[r].log # <<>> /\ Solves(req[r].tag, req[r].log)
  BY <1>1 DEF RequestOK, Entitled
<1>3. StreakEarned(row)
  BY <1>1, <1>2 DEF Holds, StreakEarned
<1>4. ScoreOf(req[r]).edition = req[r].tag
      /\ ScoreOf(req[r]).tries = Tries(req[r].tag, req[r].log)
  BY DEF ScoreOf
<1>5. CASE row.puzzle > req[r].tag
  BY <1>3, <1>4, <1>5 DEF ScoreEarned
<1>6. CASE row.puzzle = req[r].tag /\ IsPrefix(req[r].log, row.log)
  <2> DEFINE n == Len(req[r].log)
  <2>1. n \in 1..Len(row.log) /\ SubSeq(row.log, 1, n) = req[r].log
    BY <1>1, <1>2, <1>6, WholePrefix
  <2> HIDE DEF n
  <2> QED
    BY <1>2, <1>3, <1>4, <1>6, <2>1 DEF ScoreEarned
<1> QED
  BY <1>2, <1>3, <1>5, <1>6 DEF Holds

(* Every step leaves the row an item that follows it.                      *)
LEMMA RowFollows == ASSUME Inv, [Next]_vars PROVE Follows(row', row)
<1>1. CASE row' = row
  BY <1>1, StateTypes, FollowsItself
<1>2. CASE row' # row
  BY <1>2, RowWrites, AppendFollows, RestartFollows, SettledFacts, GivenUpFacts
<1> QED
  BY <1>1, <1>2

(* The steps of a request that neither write what they keep nor reward:    *)
(* the request is not left settling or rewarding.                          *)
LEMMA OrdinarySteps ==
    ASSUME Inv, NEW r \in Requests,
           \/ Begin(r) \/ Read(r) \/ Confirm(r) \/ Classify(r) \/ Judge(r)
           \/ GiveUp(r) \/ Fail(r) \/ LostAnswer(r)
    PROVE  /\ UNCHANGED <<score, streak>>
           /\ \A s \in Requests \ {r} : req'[s] = req[s]
           /\ req'[r].pc \notin {"settle", "reward"}
           /\ req[r].pc \notin {"settle", "reward"}
<1>1. /\ req \in [Requests -> RequestStates] /\ req[r] \in RequestStates
      /\ \A s \in Requests : req[s] \in RequestStates
  BY StateTypes
<1>2. /\ \A q, a : req' = [req EXCEPT ![r] = Answered(q, a)] => req'[r].pc = "done"
      /\ \A a : Answer(r, a) => req'[r].pc = "done"
      /\ \A pc : req' = [req EXCEPT ![r].pc = pc] => req'[r].pc = pc
  BY <1>1, ZenonT(60) DEF Answer, Answered, Idle, RequestStates
<1>3. CASE Begin(r)
  <2>1. PICK t \in 1..artifact :
          \/ /\ t # edition
             /\ req' = [req EXCEPT ![r] = Answered([@ EXCEPT !.tag = t], "puzzle_changed")]
          \/ /\ t = edition
             /\ \/ \E b \in Batches :
                     req' = [req EXCEPT ![r] = [@ EXCEPT
                         !.pc = "read", !.tag = t, !.batch = b, !.now = clock]]
                \/ req' = [req EXCEPT ![r] = [@ EXCEPT
                         !.pc = "giveUp", !.tag = t, !.now = clock]]
    BY <1>3 DEF Begin
  <2>2. req'[r].pc \in {"done", "read", "giveUp"}
    <3>1. CASE t # edition
      BY <1>2, <2>1, <3>1
    <3>2. CASE t = edition
      BY <1>1, <2>1, <3>2, ZenonT(60) DEF RequestStates
    <3> QED
      BY <3>1, <3>2
  <2> QED
    BY <1>1, <1>3, <2>1, <2>2 DEF Begin, storeVars
<1>4. CASE Read(r)
  BY <1>1, <1>4 DEF Read, RequestStates, storeVars
<1>5. CASE Confirm(r)
  <2>1. req'[r].pc \in {"write", "done"}
    <3>1. CASE req' = [req EXCEPT ![r] = [@ EXCEPT !.pc = "write", !.seen = row.log]]
      BY <1>1, <3>1 DEF RequestStates
    <3> QED
      BY <1>2, <1>5, <3>1 DEF Confirm
  <2> QED
    BY <1>1, <1>5, <2>1 DEF Confirm, storeVars, Answer
<1>6. CASE Classify(r)
  <2>1. req'[r].pc \in {"restart", "done"}
    BY <1>2, <1>6 DEF Classify
  <2> QED
    BY <1>1, <1>6, <2>1 DEF Classify, storeVars, Answer
<1>7. CASE Judge(r)
  BY <1>1, <1>7 DEF Judge, RequestStates, Answer, Answered, Idle, storeVars
<1>8. CASE GiveUp(r)
  <2>1. req'[r].pc \in {"judge", "done"}
    BY <1>2, <1>8 DEF GiveUp
  <2> QED
    BY <1>1, <1>8, <2>1 DEF GiveUp, Answer
<1>9. CASE Fail(r)
  BY <1>1, <1>9 DEF Fail, RequestStates, Answer, Answered, Idle
<1>10. CASE LostAnswer(r)
  <2>1. req'[r].pc \in {"classify", "done"}
    BY <1>2, <1>10 DEF LostAnswer
  <2> QED
    BY <1>1, <1>10, <2>1 DEF LostAnswer, Answer
<1> QED
  BY <1>3, <1>4, <1>5, <1>6, <1>7, <1>8, <1>9, <1>10

(* The append and the restart: refused, or answered with the new item.     *)
LEMMA WritingSteps ==
    ASSUME Inv, NEW r \in Requests, AppendBatch(r) \/ Restart(r)
    PROVE  /\ UNCHANGED <<score, streak, faults>>
           /\ \A s \in Requests \ {r} : req'[s] = req[s]
           /\ req[r] \in RequestStates /\ req[r].pc \in {"write", "restart"}
           /\ \/ row' = row /\ req'[r].pc \notin {"settle", "reward"}
              \/ /\ req'[r] = Accepted(req[r], row')
                 /\ row' \in Items /\ row'.puzzle = req[r].tag /\ row'.log # <<>>
                 /\ \/ req[r].pc = "write" /\ AppendAllowed(req[r]) /\ row' = Appended(req[r])
                    \/ req[r].pc = "restart" /\ RestartAllowed(req[r]) /\ row' = Restarted(req[r])
<1>1. req \in [Requests -> RequestStates] /\ req[r] \in RequestStates
  BY StateTypes
<1>2. CASE req[r].pc = "write" /\ AppendAllowed(req[r]) /\ Write(r, Appended(req[r]))
  <2>1. row' = Appended(req[r]) /\ row'.log = row.log \o req[r].batch
    BY <1>2 DEF Write, Appended, Derivation
  <2>2. /\ row.log \in Logs /\ Len(req[r].batch) \in 1..Cap
        /\ row'.log \in Logs /\ Len(row'.log) = Len(row.log) + Len(req[r].batch)
    BY <1>2, <2>1, AppendedFacts, SnapshotFacts, StateTypes, FieldTypes
  <2>3. Len(row.log) \in Nat /\ Len(<<>>) = 0
    BY <2>2 DEF Logs
  <2>4. row'.log # <<>>
    <3>1. \A m \in Nat, n \in 1..Cap : m + n # 0
      BY BoundsAssumption
    <3>2. Len(row'.log) # 0
      BY <2>2, <2>3, <3>1
    <3> QED
      BY <2>3, <3>2
  <2>5. row' \in Items /\ row'.puzzle = req[r].tag
    BY <1>2, <2>1, AppendFollows
  <2> QED
    BY <1>1, <1>2, <2>1, <2>4, <2>5 DEF AppendBatch, Restart, Write
<1>3. CASE req[r].pc = "restart" /\ RestartAllowed(req[r]) /\ Write(r, Restarted(req[r]))
  <2>1. row' = Restarted(req[r]) /\ row'.log = req[r].batch
    BY <1>3 DEF Write, Restarted, Derivation
  <2>2. Len(req[r].batch) \in 1..Cap /\ Len(<<>>) = 0
    BY <1>3, SnapshotFacts
  <2>3. row'.log # <<>>
    BY <2>1, <2>2, BoundsAssumption
  <2>4. row' \in Items /\ row'.puzzle = req[r].tag
    BY <1>3, <2>1, RestartFollows
  <2> QED
    BY <1>1, <1>3, <2>1, <2>3, <2>4 DEF AppendBatch, Restart, Write
<1>4. CASE /\ row' = row /\ req[r].pc \in {"write", "restart"}
           /\ \/ req' = [req EXCEPT ![r].pc = "classify"]
              \/ Answer(r, "too_fast")
  <2>1. CASE req' = [req EXCEPT ![r].pc = "classify"]
    BY <1>1, <1>4, <2>1 DEF AppendBatch, Restart, RequestStates
  <2>2. CASE Answer(r, "too_fast")
    BY <1>1, <1>4, <2>2 DEF AppendBatch, Restart, Answer, Answered, Idle
  <2> QED
    BY <1>4, <2>1, <2>2
<1> QED
  BY <1>2, <1>3, <1>4 DEF AppendBatch, Restart

(* The corrective write: applied or not, the request settles on, or        *)
(* finishes with the log it had.                                           *)
LEMMA SettlingSteps ==
    ASSUME Inv, NEW r \in Requests, Settle(r) \/ SettleThrows(r)
    PROVE  /\ UNCHANGED <<score, streak>>
           /\ \A s \in Requests \ {r} : req'[s] = req[s]
           /\ req[r] \in RequestStates /\ req[r].pc = "settle"
           /\ req'[r].tag = req[r].tag /\ req'[r].log = req[r].log
           /\ req'[r].pc = "reward" => Solves(req'[r].tag, req'[r].log)
<1>1. /\ req \in [Requests -> RequestStates] /\ req[r] \in RequestStates
      /\ req[r].pc = "settle"
  BY StateTypes DEF Settle, SettleThrows
<1>2. ASSUME NEW q, q.tag = req[r].tag, q.log = req[r].log,
             q.pc = "settle", q \in RequestStates
      PROVE  /\ Finished(q).tag = req[r].tag /\ Finished(q).log = req[r].log
             /\ Finished(q).pc = "reward" => Solves(req[r].tag, req[r].log)
  BY <1>2, FinishedFacts DEF Finished, Answered, Idle
<1>3. \E q : /\ q.tag = req[r].tag /\ q.log = req[r].log /\ q.pc = "settle"
             /\ q \in RequestStates
             /\ req' = [req EXCEPT ![r] = q] \/ req' = [req EXCEPT ![r] = Finished(q)]
  <2>1. CASE req' = [req EXCEPT ![r] = Finished(req[r])]
    BY <1>1, <2>1
  <2>2. CASE SettleAllowed(req[r]) /\ req' = [req EXCEPT ![r] = Finished(Confirmed(req[r]))]
    <3> DEFINE b == req[r].solved \/ Solves(req[r].tag, req[r].log)
               p == Confirmed(req[r])
    <3>1. b \in BOOLEAN /\ Progress(req[r].tag, req[r].log) \in Nat
      BY <1>1, <2>2, SettledFacts DEF RequestStates, Solves
    <3>2. p = [req[r] EXCEPT !.progress = Progress(req[r].tag, req[r].log), !.solved = b]
      BY DEF Confirmed
    <3>3. req' = [req EXCEPT ![r] = Finished(p)]
      BY <2>2
    <3> HIDE DEF b, p
    <3>4. /\ p \in RequestStates
          /\ p.tag = req[r].tag /\ p.log = req[r].log /\ p.pc = "settle"
      BY <1>1, <3>1, <3>2 DEF RequestStates
    <3> QED
      BY <3>3, <3>4
  <2>3. CASE /\ req[r].attempts + 1 < MaxAttempts
             /\ req' = [req EXCEPT ![r] = [req[r] EXCEPT !.attempts = req[r].attempts + 1]]
    <3> DEFINE p == [req[r] EXCEPT !.attempts = req[r].attempts + 1]
    <3>1. /\ p \in RequestStates
          /\ p.tag = req[r].tag /\ p.log = req[r].log /\ p.pc = "settle"
      BY <1>1, <2>3, BoundsAssumption DEF RequestStates
    <3> HIDE DEF p
    <3> QED
      BY <2>3, <3>1 DEF p
  <2> QED
    BY <2>1, <2>2, <2>3 DEF Settle, SettleThrows, Unconfirmed, TriedAgain
<1>4. PICK q : /\ q.tag = req[r].tag /\ q.log = req[r].log /\ q.pc = "settle"
               /\ q \in RequestStates
               /\ req' = [req EXCEPT ![r] = q] \/ req' = [req EXCEPT ![r] = Finished(q)]
  BY <1>3
<1>5. req'[r] = q \/ req'[r] = Finished(q)
  BY <1>1, <1>4
<1>6. /\ req'[r].tag = req[r].tag /\ req'[r].log = req[r].log
      /\ req'[r].pc = "reward" => Solves(req'[r].tag, req'[r].log)
  BY <1>2, <1>4, <1>5
<1> QED
  BY <1>1, <1>4, <1>6 DEF Settle, SettleThrows

(* A step of the rewards leaves the request rewarding the same log, and    *)
(* writes a reward only of that.                                           *)
LEMMA RewardingSteps ==
    ASSUME Inv, NEW r \in Requests,
           \/ Credit(r) \/ LoadArtifact(r) \/ Submit(r) \/ ReplaceScore(r) \/ RewardThrows(r)
    PROVE  /\ score' \in {score, ScoreOf(req[r])} /\ streak' \in {streak, TRUE}
           /\ row' = row
           /\ \A s \in Requests \ {r} : req'[s] = req[s]
           /\ req[r].pc = "reward"
           /\ req'[r].tag = req[r].tag /\ req'[r].log = req[r].log
           /\ req'[r].pc \in {"reward", "done"}
<1>1. \E step \in Rewards : \E next \in SUBSET Rewards : Rewarding(r, step, next)
  BY DEF Credit, LoadArtifact, Submit, ReplaceScore, RewardThrows, Rewards
<1>2. PICK step \in Rewards : \E next \in SUBSET Rewards : Rewarding(r, step, next)
  BY <1>1
<1>3. PICK next \in SUBSET Rewards : Rewarding(r, step, next)
  BY <1>2
<1>4. /\ req \in [Requests -> RequestStates] /\ req[r] \in RequestStates
      /\ req[r].pc = "reward" /\ req' = [req EXCEPT ![r] = After(req[r], step, next)]
  BY <1>3, StateTypes DEF Rewarding
<1>5. /\ After(req[r], step, next).tag = req[r].tag
      /\ After(req[r], step, next).log = req[r].log
      /\ After(req[r], step, next).pc \in {"reward", "done"}
  BY <1>4, AfterFacts
<1>6. /\ score' \in {score, ScoreOf(req[r])} /\ streak' \in {streak, TRUE} /\ row' = row
  BY DEF Credit, LoadArtifact, Submit, ReplaceScore, RewardThrows, storeVars
<1> QED
  BY <1>4, <1>5, <1>6

(* A request accepted by the row holds the new item's log.                 *)
LEMMA AcceptedEntitled ==
    ASSUME NEW q \in RequestStates, NEW item \in Items, item.log # <<>>
    PROVE  Entitled(Accepted(q, item))
<1> DEFINE p == [q EXCEPT !.log = item.log, !.progress = item.progress, !.solved = item.solved]
<1>1. /\ p \in RequestStates /\ p.log = item.log /\ p.tag = q.tag
      /\ Accepted(q, item) = [p EXCEPT !.pc = "settle"] \/ Accepted(q, item) = Finished(p)
  BY DEF Accepted, RequestStates, Items
<1> HIDE DEF p
<1>2. CASE Accepted(q, item) = [p EXCEPT !.pc = "settle"]
  BY <1>1, <1>2 DEF Entitled, RequestStates
<1>3. CASE Accepted(q, item) = Finished(p)
  <2>1. \/ Finished(p).pc = "done"
        \/ Finished(p) = [p EXCEPT !.pc = "reward", !.owed = {"credit", "load"}]
           /\ Solves(p.tag, p.log)
    BY DEF Finished, Answered, Idle
  <2>2. CASE Finished(p).pc = "done"
    BY <1>3, <2>2 DEF Entitled
  <2>3. CASE /\ Finished(p) = [p EXCEPT !.pc = "reward", !.owed = {"credit", "load"}]
             /\ Solves(p.tag, p.log)
    BY <1>1, <1>3, <2>3 DEF Entitled, RequestStates
  <2> QED
    BY <2>1, <2>2, <2>3
<1> QED
  BY <1>1, <1>2, <1>3

(* The rewards and what they are owed to, after every step.                *)
LEMMA RewardStepKeeps == ASSUME RewardInv, [Next]_vars PROVE RewardInv'
<1>1. Inv /\ Inv' /\ Follows(row', row)
  BY NextInv, RowFollows DEF RewardInv
<1>2. /\ row \in Items /\ row' \in Items /\ ScoreEarned(score, row)
      /\ streak => StreakEarned(row)
      /\ score \in [edition : 0..MaxEdition, tries : Nat]
      /\ \A r \in Requests : Entitled(req[r])
  BY <1>1 DEF RewardInv, Inv, TypeOK, RewardsAreEarned, ScoreEarned, StreakEarned
<1>3. ScoreEarned(score, row') /\ (streak => StreakEarned(row'))
  BY <1>1, <1>2, EarnedKept
<1>4. SUFFICES /\ ScoreEarned(score', row') /\ (streak' => StreakEarned(row'))
               /\ \A r \in Requests : Entitled(req'[r])
  BY <1>1, <1>4 DEF RewardInv, RewardsAreEarned, ScoreEarned, StreakEarned
<1>5. ASSUME NEW r \in Requests, Entitled(req'[r]), \A s \in Requests \ {r} : req'[s] = req[s]
      PROVE  \A s \in Requests : Entitled(req'[s])
  BY <1>2, <1>5
<1>6. ASSUME NEW r \in Requests,
             \/ Begin(r) \/ Read(r) \/ Confirm(r) \/ Classify(r) \/ Judge(r)
             \/ GiveUp(r) \/ Fail(r) \/ LostAnswer(r)
      PROVE  /\ ScoreEarned(score', row') /\ (streak' => StreakEarned(row'))
             /\ \A s \in Requests : Entitled(req'[s])
  <2>1. /\ UNCHANGED <<score, streak>> /\ req'[r].pc \notin {"settle", "reward"}
        /\ \A s \in Requests \ {r} : req'[s] = req[s]
    BY <1>1, <1>6, OrdinarySteps
  <2> QED
    BY <1>3, <1>5, <2>1 DEF Entitled
<1>7. ASSUME NEW r \in Requests, AppendBatch(r) \/ Restart(r)
      PROVE  /\ ScoreEarned(score', row') /\ (streak' => StreakEarned(row'))
             /\ \A s \in Requests : Entitled(req'[s])
  <2>1. /\ UNCHANGED <<score, streak, faults>>
        /\ \A s \in Requests \ {r} : req'[s] = req[s]
        /\ req[r] \in RequestStates
        /\ \/ req'[r].pc \notin {"settle", "reward"}
           \/ req'[r] = Accepted(req[r], row') /\ row'.log # <<>>
    BY <1>1, <1>7, WritingSteps
  <2>2. Entitled(req'[r])
    BY <1>2, <2>1, AcceptedEntitled DEF Entitled
  <2> QED
    BY <1>3, <1>5, <2>1, <2>2
<1>8. ASSUME NEW r \in Requests, Settle(r) \/ SettleThrows(r)
      PROVE  /\ ScoreEarned(score', row') /\ (streak' => StreakEarned(row'))
             /\ \A s \in Requests : Entitled(req'[s])
  <2>1. /\ UNCHANGED <<score, streak>>
        /\ \A s \in Requests \ {r} : req'[s] = req[s]
        /\ req[r].pc = "settle" /\ req'[r].log = req[r].log
        /\ req'[r].pc = "reward" => Solves(req'[r].tag, req'[r].log)
    BY <1>1, <1>8, SettlingSteps
  <2>2. Entitled(req'[r])
    BY <1>2, <2>1 DEF Entitled
  <2> QED
    BY <1>3, <1>5, <2>1, <2>2
<1>9. ASSUME NEW r \in Requests,
             \/ Credit(r) \/ LoadArtifact(r) \/ Submit(r) \/ ReplaceScore(r) \/ RewardThrows(r)
      PROVE  /\ ScoreEarned(score', row') /\ (streak' => StreakEarned(row'))
             /\ \A s \in Requests : Entitled(req'[s])
  <2>1. /\ score' \in {score, ScoreOf(req[r])} /\ streak' \in {streak, TRUE} /\ row' = row
        /\ \A s \in Requests \ {r} : req'[s] = req[s]
        /\ req[r].pc = "reward"
        /\ req'[r].tag = req[r].tag /\ req'[r].log = req[r].log
        /\ req'[r].pc \in {"reward", "done"}
    BY <1>1, <1>9, RewardingSteps
  <2>2. ScoreEarned(ScoreOf(req[r]), row) /\ StreakEarned(row)
    BY <1>1, <1>2, <2>1, RewardDue
  <2>3. ScoreEarned(score', row') /\ (streak' => StreakEarned(row'))
    BY <1>2, <2>1, <2>2
  <2>4. Entitled(req'[r])
    BY <1>2, <2>1 DEF Entitled
  <2> QED
    BY <1>5, <2>1, <2>3, <2>4
<1>10. CASE UNCHANGED <<score, streak, req>>
  BY <1>2, <1>3, <1>10
<1>11. CASE Environment \/ UNCHANGED vars
  BY <1>10, <1>11
  DEF vars, Environment, Tick, PublishSlice, PublishArtifact, Replicate
<1> QED
  BY <1>6, <1>7, <1>8, <1>9, <1>11 DEF Next, Step, Throw

(* A score row and a streak day exist only of a solve the row holds, or    *)
(* held when a correction retired it (rounds.ts, the rewards of a finished *)
(* round; dynamoScoreStore.ts, submit and replace).                        *)
THEOREM RewardsEarned == Spec => []RewardsAreEarned
<1>1. Init => RewardInv
  <2>1. ASSUME Init PROVE Inv /\ RewardsAreEarned /\ \A r \in Requests : Entitled(req[r])
    BY <2>1, InitInv DEF Init, NoScore, RewardsAreEarned, Entitled, Idle
  <2> QED
    BY <2>1 DEF RewardInv
<1>2. RewardInv /\ [Next]_vars => RewardInv'
  BY RewardStepKeeps
<1>3. RewardInv => RewardsAreEarned
  BY DEF RewardInv
<1> QED
  BY <1>1, <1>2, <1>3, PTL DEF Spec

-----------------------------------------------------------------------------
(* The summary stored beside the log.                                      *)

Exact(item) ==
    /\ item.progress = Progress(item.puzzle, item.log)
    /\ Solves(item.puzzle, item.log) => item.solved

Settling(q, item) == q.pc = "settle" /\ q.tag = item.puzzle /\ q.log = item.log

(* As long as no call was lost, the summary is at most what the log        *)
(* derives to, and whoever holds the whole log settles what it lacks.      *)
Summarised ==
    faults = 0 /\ row.puzzle # 0 =>
        /\ row.progress <= Progress(row.puzzle, row.log)
        /\ Exact(row) \/ \E r \in Requests : Settling(req[r], row)

(* A log whose every guess is in another derives to no more than it.       *)
LEMMA ProgressMonotone ==
    ASSUME NEW t \in Editions, NEW s \in Logs, NEW u \in Logs, Len(u) <= Cap,
           Len(s) <= Len(u), \A i \in 1..Len(s) : \E j \in 1..Len(u) : s[i] = u[j]
    PROVE  Progress(t, s) <= Progress(t, u)
<1>1. Len(s) \in Nat /\ Len(u) \in Nat /\ Len(s) \in 0..Cap /\ Len(u) \in 0..Cap
  BY BoundsAssumption DEF Logs
<1>2. s \in [1..Len(s) -> Guesses] /\ u \in [1..Len(u) -> Guesses]
  BY LenProperties DEF Logs
<1>3. s \in LogsUpTo(Cap) /\ u \in LogsUpTo(Cap)
  BY <1>1, <1>2 DEF LogsUpTo
<1> QED
  BY <1>3, MonotoneAssumption

(* A prefix of a log derives to no more than the log.                      *)
LEMMA PrefixProgress ==
    ASSUME NEW t \in Editions, NEW s \in Logs, NEW u \in Logs, Len(u) <= Cap, IsPrefix(s, u)
    PROVE  Progress(t, s) <= Progress(t, u)
<1>1. Len(s) \in Nat /\ Len(u) \in Nat /\ Len(s) <= Len(u)
  BY PrefixPointwise DEF Logs
<1>2. \A i \in 1..Len(s) : i \in 1..Len(u) /\ s[i] = u[i]
  BY <1>1, PrefixPointwise
<1> QED
  BY <1>1, <1>2, ProgressMonotone

(* What is derived from a stale snapshot and a batch is no more than what  *)
(* the stored log and that batch derive to.                                *)
LEMMA SnapshotProgress ==
    ASSUME NEW e \in Editions, NEW s \in Logs, NEW t \in Logs, NEW b \in Logs,
           IsPrefix(s, t), Len(t \o b) <= Cap
    PROVE  Progress(e, s \o b) <= Progress(e, t \o b)
<1>1. Len(s) \in Nat /\ Len(t) \in Nat /\ Len(b) \in Nat /\ Len(s) <= Len(t)
  BY PrefixPointwise DEF Logs
<1>2. /\ s \o b \in Logs /\ t \o b \in Logs
      /\ Len(s \o b) = Len(s) + Len(b)
      /\ Len(t \o b) = Len(t) + Len(b)
  BY DEF Logs
<1>3. \A i \in 1..Len(s \o b) : \E j \in 1..Len(t \o b) : (s \o b)[i] = (t \o b)[j]
  BY <1>1, SnapshotContained
<1>4. Len(s \o b) <= Len(t \o b)
  BY <1>1, <1>2
<1> QED
  BY <1>2, <1>3, <1>4, ProgressMonotone

(* The append and the restart write no more than the log derives to.       *)
LEMMA WritesNoMore ==
    ASSUME Inv, NEW r \in Requests,
           \/ req[r].pc = "write" /\ AppendAllowed(req[r]) /\ row' = Appended(req[r])
           \/ req[r].pc = "restart" /\ RestartAllowed(req[r]) /\ row' = Restarted(req[r])
    PROVE  row'.progress <= Progress(row'.puzzle, row'.log)
<1>1. CASE req[r].pc = "write" /\ AppendAllowed(req[r]) /\ row' = Appended(req[r])
  <2>1. /\ row'.progress = Progress(req[r].tag, req[r].seen \o req[r].batch)
        /\ row'.puzzle = req[r].tag /\ row'.log = row.log \o req[r].batch
    BY <1>1 DEF Appended, Derivation, Derived
  <2>2. IsPrefix(req[r].seen, row.log) /\ row.log \in Logs /\ req[r].seen \in Logs
        /\ req[r].batch \in Logs /\ req[r].tag \in Editions
        /\ Len(row.log \o req[r].batch) <= Cap
    BY <1>1, AppendedFacts, SnapshotFacts, PrefixReflexive, StateTypes, FieldTypes
  <2> QED
    BY <2>1, <2>2, SnapshotProgress
<1>2. CASE req[r].pc = "restart" /\ RestartAllowed(req[r]) /\ row' = Restarted(req[r])
  <2>1. /\ row'.progress = Progress(req[r].tag, Derived(req[r]))
        /\ row'.puzzle = req[r].tag /\ row'.log = req[r].batch
    BY <1>2 DEF Restarted, Derivation
  <2>2. req[r].seen = <<>> /\ req[r].batch \in Logs
    BY <1>2, RestartIsNewer, SnapshotFacts
  <2>3. Derived(req[r]) = req[r].batch
    BY <2>2 DEF Derived, Logs
  <2>4. Progress(req[r].tag, Derived(req[r])) \in Nat
    BY <1>2, SnapshotFacts
  <2> QED
    BY <2>1, <2>3, <2>4
<1> QED
  BY <1>1, <1>2

(* Accepted: exact as written, or owed the corrective write.               *)
LEMMA AcceptedSettles ==
    ASSUME NEW q \in RequestStates, NEW item \in Items, item.puzzle = q.tag
    PROVE  Exact(item) \/ Settling(Accepted(q, item), item)
<1> DEFINE p == [q EXCEPT !.log = item.log, !.progress = item.progress, !.solved = item.solved]
<1>1. /\ p \in RequestStates /\ p.log = item.log /\ p.tag = q.tag
      /\ p.progress = item.progress /\ p.solved = item.solved
      /\ NeedsSettle(p) => Accepted(q, item) = [p EXCEPT !.pc = "settle"]
  BY DEF Accepted, RequestStates, Items
<1> HIDE DEF p
<1>2. CASE NeedsSettle(p)
  BY <1>1, <1>2 DEF Settling, RequestStates
<1>3. CASE ~NeedsSettle(p)
  BY <1>1, <1>3 DEF NeedsSettle, Exact
<1> QED
  BY <1>2, <1>3

(* What the corrective write finds, and what it leaves.                    *)
LEMMA SettleSummarises ==
    ASSUME Inv, Summarised, faults = 0, NEW r \in Requests, Settle(r)
    PROVE  /\ row'.puzzle = row.puzzle /\ row'.log = row.log
           /\ row'.puzzle # 0 => row'.progress <= Progress(row'.puzzle, row'.log)
           /\ Settling(req[r], row) => Exact(row')
           /\ row.puzzle # 0 /\ Exact(row) => Exact(row')
<1>1. /\ req[r].pc = "settle" /\ req[r] \in RequestStates
      /\ RequestOK(req[r], row, edition) /\ edition \in 1..MaxEdition
      /\ row.log \in Logs /\ row.puzzle \in Nat /\ Len(row.log) <= Cap
      /\ req[r].log \in Logs /\ req[r].tag \in Nat
      /\ row.progress \in Nat
  BY StateTypes, FieldTypes DEF Settle, Inv, StoreOK, TypeOK, Editions, Items
<1>2. CASE SettleAllowed(req[r]) /\ row' = Settled(req[r])
  <2> DEFINE t == req[r].tag
             m == Progress(req[r].tag, req[r].log)
             n == Progress(row.puzzle, row.log)
  <2>1. /\ row.puzzle = t /\ row.puzzle # 0 /\ row'.puzzle = row.puzzle /\ row'.log = row.log
        /\ row'.solved = (row.solved \/ Solves(t, req[r].log))
        /\ m \in Nat
    BY <1>1, <1>2, SettledFacts
  <2>2. row'.progress = m
    <3>1. row \in Items
      BY StateTypes
    <3> QED
      BY <1>2, <3>1 DEF Settled, Items
  <2>3. row.progress <= m
    BY <1>2 DEF SettleAllowed
  <2>4. t \in Editions /\ IsPrefix(req[r].log, row.log)
    BY <1>1, <2>1, BoundsAssumption DEF RequestOK, Holds, Editions
  <2>5. m <= n
    BY <1>1, <2>1, <2>4, PrefixProgress
  <2>6. n \in Nat
    <3>1. <<>> \in Logs /\ Len(<<>>) <= Cap
      BY BoundsAssumption DEF Logs
    <3> QED
      BY <1>1, <2>1, <2>4, <3>1, ProgressTyped
  <2>7. Settling(req[r], row) => Exact(row')
    BY <2>1, <2>2 DEF Settling, Exact
  <2>8. Exact(row) => Exact(row')
    <3>1. ASSUME row.progress = n PROVE m = n
      BY <2>1, <2>3, <2>5, <2>6, <3>1
    <3> QED
      BY <2>1, <2>2, <3>1 DEF Exact
  <2> QED
    BY <2>1, <2>2, <2>5, <2>7, <2>8
<1>3. CASE ~SettleAllowed(req[r]) /\ UNCHANGED row
  <2>1. ~Settling(req[r], row) \/ row.puzzle = 0
    <3>1. req[r].tag = row.puzzle => ~(row.progress <= Progress(row.puzzle, req[r].log))
      BY <1>3 DEF SettleAllowed
    <3>2. row.puzzle # 0 => row.progress <= Progress(row.puzzle, row.log)
      BY DEF Summarised
    <3> QED
      BY <3>1, <3>2 DEF Settling
  <2>2. req[r].tag # 0
    BY <1>1 DEF RequestOK
  <2>3. ~Settling(req[r], row)
    BY <2>1, <2>2 DEF Settling
  <2> QED
    BY <1>3, <2>3 DEF Exact, Summarised
<1> QED
  BY <1>2, <1>3 DEF Settle

(* Every step that throws nothing keeps the summary.                       *)
LEMMA SummaryStep == ASSUME Inv, Summarised, [Next]_vars PROVE Summarised'
<1>1. /\ row \in Items /\ row.puzzle \in Nat /\ row.log \in Logs /\ faults \in Nat
      /\ Inv' /\ req \in [Requests -> RequestStates]
  BY StateTypes, FieldTypes, NextInv, BoundsAssumption DEF Inv, TypeOK
<1>2. SUFFICES ASSUME faults' = 0, row'.puzzle # 0
               PROVE  /\ row'.progress <= Progress(row'.puzzle, row'.log)
                      /\ Exact(row') \/ \E r \in Requests : Settling(req'[r], row')
  BY DEF Summarised
<1>3. faults = 0 /\ \A r \in Requests : ~Throw(r)
  <2>1. \A r \in Requests : Throw(r) => faults' = faults + 1
    BY DEF Throw, SettleThrows, RewardThrows, Fail, LostAnswer
  <2>2. faults + 1 # 0
    BY <1>1
  <2>3. \A r \in Requests : ~Throw(r)
    BY <1>2, <2>1, <2>2
  <2>4. UNCHANGED faults
    BY <2>3
    DEF Next, vars, storeVars, Begin, Step, Environment, Read, Confirm, AppendBatch, Classify,
        Restart, Settle, Credit, LoadArtifact, Submit, ReplaceScore, GiveUp, Judge,
        Tick, PublishSlice, PublishArtifact, Replicate
  <2> QED
    BY <1>2, <2>3, <2>4
<1>4. ASSUME NEW r \in Requests, row' = row, req[r].pc # "settle",
             \A s \in Requests \ {r} : req'[s] = req[s]
      PROVE  /\ row'.progress <= Progress(row'.puzzle, row'.log)
             /\ Exact(row') \/ \E s \in Requests : Settling(req'[s], row')
  <2>1. /\ row.progress <= Progress(row.puzzle, row.log)
        /\ Exact(row) \/ \E s \in Requests : Settling(req[s], row)
    BY <1>2, <1>3, <1>4 DEF Summarised
  <2>2. ASSUME NEW s \in Requests, Settling(req[s], row) PROVE Settling(req'[s], row')
    BY <1>4, <2>2 DEF Settling
  <2> QED
    BY <1>4, <2>1, <2>2
<1>5. ASSUME NEW r \in Requests,
             Begin(r) \/ Read(r) \/ Confirm(r) \/ Classify(r) \/ Judge(r)
      PROVE  /\ row'.progress <= Progress(row'.puzzle, row'.log)
             /\ Exact(row') \/ \E s \in Requests : Settling(req'[s], row')
  <2>1. row' = row
    BY <1>5 DEF Begin, Read, Confirm, Classify, Judge, storeVars
  <2> QED
    BY <1>4, <1>5, <2>1, OrdinarySteps
<1>6. ASSUME NEW r \in Requests, GiveUp(r)
      PROVE  /\ row'.progress <= Progress(row'.puzzle, row'.log)
             /\ Exact(row') \/ \E s \in Requests : Settling(req'[s], row')
  <2>1. /\ req[r].pc = "giveUp" /\ \A s \in Requests \ {r} : req'[s] = req[s]
    BY <1>6, OrdinarySteps DEF GiveUp
  <2>2. CASE row' = row
    BY <1>4, <2>1, <2>2
  <2>3. CASE row' = GivenUp
    <3>1. /\ row'.puzzle = row.puzzle /\ row'.log = row.log
          /\ row'.progress = row.progress /\ row'.solved = row.solved
      BY <1>1, <2>3 DEF GivenUp, Items
    <3>2. /\ row.progress <= Progress(row.puzzle, row.log)
          /\ Exact(row) \/ \E s \in Requests : Settling(req[s], row)
      BY <1>2, <1>3, <3>1 DEF Summarised
    <3>3. ASSUME NEW s \in Requests, Settling(req[s], row) PROVE Settling(req'[s], row')
      BY <2>1, <3>1, <3>3 DEF Settling
    <3>4. Exact(row) => Exact(row')
      BY <3>1 DEF Exact
    <3> QED
      BY <3>1, <3>2, <3>3, <3>4
  <2> QED
    BY <1>6, <2>2, <2>3 DEF GiveUp
<1>7. ASSUME NEW r \in Requests, AppendBatch(r) \/ Restart(r)
      PROVE  /\ row'.progress <= Progress(row'.puzzle, row'.log)
             /\ Exact(row') \/ \E s \in Requests : Settling(req'[s], row')
  <2>1. /\ \A s \in Requests \ {r} : req'[s] = req[s]
        /\ req[r] \in RequestStates /\ req[r].pc \in {"write", "restart"}
        /\ \/ row' = row
           \/ /\ req'[r] = Accepted(req[r], row')
              /\ row' \in Items /\ row'.puzzle = req[r].tag
              /\ \/ req[r].pc = "write" /\ AppendAllowed(req[r]) /\ row' = Appended(req[r])
                 \/ req[r].pc = "restart" /\ RestartAllowed(req[r]) /\ row' = Restarted(req[r])
    BY <1>7, WritingSteps
  <2>2. CASE row' = row
    BY <1>4, <2>1, <2>2
  <2>3. CASE /\ req'[r] = Accepted(req[r], row')
             /\ row' \in Items /\ row'.puzzle = req[r].tag
             /\ \/ req[r].pc = "write" /\ AppendAllowed(req[r]) /\ row' = Appended(req[r])
                \/ req[r].pc = "restart" /\ RestartAllowed(req[r]) /\ row' = Restarted(req[r])
    <3>1. row'.progress <= Progress(row'.puzzle, row'.log)
      BY <2>3, WritesNoMore
    <3>2. Exact(row') \/ Settling(req'[r], row')
      BY <2>1, <2>3, AcceptedSettles
    <3> QED
      BY <3>1, <3>2
  <2> QED
    BY <2>1, <2>2, <2>3
<1>8. ASSUME NEW r \in Requests, Settle(r)
      PROVE  /\ row'.progress <= Progress(row'.puzzle, row'.log)
             /\ Exact(row') \/ \E s \in Requests : Settling(req'[s], row')
  <2>1. \A s \in Requests \ {r} : req'[s] = req[s]
    BY <1>8, SettlingSteps
  <2>2. /\ row'.puzzle = row.puzzle /\ row'.log = row.log
        /\ row'.progress <= Progress(row'.puzzle, row'.log)
        /\ Settling(req[r], row) => Exact(row')
        /\ Exact(row) => Exact(row')
    BY <1>2, <1>3, <1>8, SettleSummarises
  <2>3. Exact(row) \/ \E s \in Requests : Settling(req[s], row)
    BY <1>2, <1>3, <2>2 DEF Summarised
  <2>4. ASSUME NEW s \in Requests, Settling(req[s], row)
        PROVE  Exact(row') \/ Settling(req'[s], row')
    BY <2>1, <2>2, <2>4 DEF Settling
  <2> QED
    BY <2>2, <2>3, <2>4
<1>9. ASSUME NEW r \in Requests,
             Credit(r) \/ LoadArtifact(r) \/ Submit(r) \/ ReplaceScore(r)
      PROVE  /\ row'.progress <= Progress(row'.puzzle, row'.log)
             /\ Exact(row') \/ \E s \in Requests : Settling(req'[s], row')
  <2>1. /\ row' = row /\ req[r].pc = "reward"
        /\ \A s \in Requests \ {r} : req'[s] = req[s]
    BY <1>9, RewardingSteps
  <2> QED
    BY <1>4, <2>1
<1>10. CASE Environment \/ UNCHANGED vars
  <2>1. UNCHANGED <<row, req>>
    BY <1>10 DEF vars, Environment, Tick, PublishSlice, PublishArtifact, Replicate
  <2> QED
    BY <1>2, <1>3, <2>1 DEF Summarised
<1> QED
  BY <1>3, <1>5, <1>6, <1>7, <1>8, <1>9, <1>10 DEF Next, Step

(* The union of two racing batches is not lost: when no corrective write   *)
(* is under way and none was cut short, the stored summary is the log's    *)
(* (rounds.ts, settleAppend; dynamoRoundStore.ts, settle's condition).     *)
THEOREM SummariesSettle == Spec => []SummarySettles
<1>1. Init => Summarised
  BY DEF Init, Absent, Summarised
<1>2. Inv /\ Summarised /\ [Next]_vars => Summarised'
  BY SummaryStep
<1>3. Inv /\ Summarised => SummarySettles
  BY DEF Inv, StoreOK, SolveIsReal, Summarised, Exact, Settling, SummarySettles
<1> QED
  BY <1>1, <1>2, <1>3, Invariance, PTL DEF Spec

-----------------------------------------------------------------------------
(* What a log means (module Replay).  First, induction over the naturals,  *)
(* for a set of them.                                                      *)

(* A set of naturals that is not empty has a least element: the intervals  *)
(* from 0 to its members are finite sets, and those are well-founded under *)
(* strict inclusion.                                                       *)
LEMMA Least ==
    ASSUME NEW T, T \subseteq Nat, T # {}
    PROVE  \E k \in T : \A j \in T : k <= j
<1> DEFINE Intervals == {0..k : k \in T}
<1>1. Intervals \subseteq FiniteSubsetsOf(Nat)
  <2> SUFFICES ASSUME NEW k \in T
               PROVE  0..k \in SUBSET Nat /\ IsFiniteSet(0..k)
    BY DEF FiniteSubsetsOf
  <2>1. k \in Int /\ 0 \in Int
    OBVIOUS
  <2> QED
    BY <2>1, FS_Interval
<1>2. Intervals # {}
  OBVIOUS
<1>3. IsWellFoundedOn(StrictSubsetOrdering(Nat), FiniteSubsetsOf(Nat))
  BY FS_StrictSubsetOrderingWellFounded
<1>4. PICK x \in Intervals : \A y \in Intervals : ~(<<y, x>> \in StrictSubsetOrdering(Nat))
  <2> HIDE DEF Intervals
  <2> QED
    BY <1>1, <1>2, <1>3, WFMin
<1>5. PICK k \in T : x = 0..k
  OBVIOUS
<1>6. ASSUME NEW j \in T
      PROVE  k <= j
  <2>1. ~(<<0..j, 0..k>> \in StrictSubsetOrdering(Nat))
    BY <1>4, <1>5
  <2>2. ~(0..j \subseteq 0..k /\ 0..j # 0..k)
    <3>1. 0..j \in SUBSET Nat /\ 0..k \in SUBSET Nat
      OBVIOUS
    <3> QED
      BY <2>1, <3>1 DEF StrictSubsetOrdering
  <2>3. j \in Nat /\ k \in Nat
    OBVIOUS
  <2>4. j < k => 0..j \subseteq 0..k /\ k \in 0..k /\ k \notin 0..j
    BY <2>3
  <2>5. ~(j < k)
    BY <2>2, <2>4
  <2> QED
    BY <2>3, <2>5
<1> QED
  BY <1>6

(* A set with 0 and the successor of each of its naturals has them all.    *)
LEMMA Inductive ==
    ASSUME NEW T, 0 \in T, \A n \in Nat : n \in T => n + 1 \in T
    PROVE  Nat \subseteq T
<1> SUFFICES ASSUME ~(Nat \subseteq T)
             PROVE  FALSE
  OBVIOUS
<1>1. PICK k \in Nat \ T : \A j \in Nat \ T : k <= j
  BY Least
<1>2. k # 0 /\ k - 1 \in Nat /\ (k - 1) + 1 = k
  BY <1>1
<1>3. k - 1 \in T
  BY <1>1, <1>2
<1> QED
  BY <1>1, <1>2, <1>3

(* The least element is Min, and nothing else is.                          *)
LEMMA MinIsLeast ==
    ASSUME NEW T, T \subseteq Nat, T # {}
    PROVE  /\ Min(T) \in T
           /\ \A j \in T : Min(T) <= j
<1>1. \E k \in T : \A j \in T : k <= j
  BY Least
<1> QED
  BY <1>1 DEF Min

-----------------------------------------------------------------------------
(* Sums.                                                                   *)

SumUpTo(f, shares, n) ==
    f = [k \in 0..n |-> IF k = 0 THEN 0 ELSE f[k - 1] + shares[k]]

LEMMA SumExtends ==
    ASSUME NEW shares, NEW n \in Nat, shares[n + 1] \in Int,
           NEW f \in [0..n -> Int], SumUpTo(f, shares, n)
    PROVE  \E g \in [0..n + 1 -> Int] : SumUpTo(g, shares, n + 1)
<1> DEFINE next == f[n] + shares[n + 1]
           g == [k \in 0..n + 1 |-> IF k <= n THEN f[k] ELSE next]
<1>1. next \in Int
  OBVIOUS
<1>2. g \in [0..n + 1 -> Int]
  <2>1. \A k \in 0..n + 1 : k <= n => f[k] \in Int
    OBVIOUS
  <2> HIDE DEF next
  <2> QED
    BY <1>1, <2>1
<1>3. \A k \in 0..n : f[k] = IF k = 0 THEN 0 ELSE f[k - 1] + shares[k]
  BY DEF SumUpTo
<1>4. ASSUME NEW k \in 0..n + 1
      PROVE  g[k] = IF k = 0 THEN 0 ELSE g[k - 1] + shares[k]
  <2>1. CASE k = n + 1
    <3>1. g[k] = next /\ g[k - 1] = f[n] /\ k # 0
      BY <2>1
    <3> HIDE DEF g
    <3> QED
      BY <2>1, <3>1
  <2>2. CASE k <= n
    <3>1. k \in 0..n /\ g[k] = f[k] /\ (k # 0 => g[k - 1] = f[k - 1])
      BY <2>2
    <3> HIDE DEF g
    <3> QED
      BY <1>3, <3>1
  <2> QED
    BY <2>1, <2>2
<1>5. SumUpTo(g, shares, n + 1)
  <2> HIDE DEF g
  <2> QED
    BY <1>2, <1>4 DEF SumUpTo
<1> QED
  BY <1>2, <1>5

LEMMA SumExists ==
    ASSUME NEW shares, NEW n \in Nat, \A k \in 1..n : shares[k] \in Int
    PROVE  \E f \in [0..n -> Int] : SumUpTo(f, shares, n)
<1> DEFINE T == {m \in Nat : m <= n => \E f \in [0..m -> Int] : SumUpTo(f, shares, m)}
<1>1. 0 \in T
  <2>1. [k \in 0..0 |-> 0] \in [0..0 -> Int] /\ SumUpTo([k \in 0..0 |-> 0], shares, 0)
    BY DEF SumUpTo
  <2> QED
    BY <2>1
<1>2. ASSUME NEW m \in Nat, m \in T
      PROVE  m + 1 \in T
  <2> SUFFICES ASSUME m + 1 <= n
               PROVE  \E f \in [0..m + 1 -> Int] : SumUpTo(f, shares, m + 1)
    OBVIOUS
  <2>1. PICK f \in [0..m -> Int] : SumUpTo(f, shares, m)
    BY <1>2
  <2>2. shares[m + 1] \in Int
    OBVIOUS
  <2> QED
    BY <2>1, <2>2, SumExtends
<1>3. Nat \subseteq T
  <2> HIDE DEF T
  <2> QED
    BY <1>1, <1>2, Inductive
<1> QED
  BY <1>3

(* A total is the last of the partial sums.                                *)
LEMMA TotalIs ==
    ASSUME NEW shares, NEW n \in Nat, Len(shares) = n,
           \A k \in 1..n : shares[k] \in Int
    PROVE  \E f : /\ Total(shares) = f[n]
                  /\ f[0] = 0
                  /\ \A k \in 1..n : f[k] = f[k - 1] + shares[k]
<1>1. PICK h : h = CHOOSE f : SumUpTo(f, shares, n)
  OBVIOUS
<1>2. SumUpTo(h, shares, n)
  BY <1>1, SumExists
<1>3. Total(shares) = h[n]
  BY <1>1 DEF Total, SumUpTo
<1>4. \A k \in 0..n : h[k] = IF k = 0 THEN 0 ELSE h[k - 1] + shares[k]
  BY <1>2 DEF SumUpTo
<1>5. h[0] = 0 /\ \A k \in 1..n : h[k] = h[k - 1] + shares[k]
  BY <1>4
<1> QED
  BY <1>3, <1>5

(* A total of more is more.                                                *)
LEMMA TotalRises ==
    ASSUME NEW shares, NEW others, NEW n \in Nat, Len(shares) = n, Len(others) = n,
           \A k \in 1..n : shares[k] \in Int /\ others[k] \in Int /\ shares[k] <= others[k]
    PROVE  Total(shares) <= Total(others)
<1>1. PICK f : /\ Total(shares) = f[n]
               /\ f[0] = 0
               /\ \A k \in 1..n : f[k] = f[k - 1] + shares[k]
  BY TotalIs
<1>2. PICK g : /\ Total(others) = g[n]
               /\ g[0] = 0
               /\ \A k \in 1..n : g[k] = g[k - 1] + others[k]
  BY TotalIs
<1> DEFINE T == {m \in Nat : m <= n => f[m] \in Int /\ g[m] \in Int /\ f[m] <= g[m]}
<1>3. 0 \in T
  BY <1>1, <1>2
<1>4. ASSUME NEW m \in Nat, m \in T
      PROVE  m + 1 \in T
  <2> SUFFICES ASSUME m + 1 <= n
               PROVE  f[m + 1] \in Int /\ g[m + 1] \in Int /\ f[m + 1] <= g[m + 1]
    OBVIOUS
  <2>1. f[m] \in Int /\ g[m] \in Int /\ f[m] <= g[m] /\ m + 1 \in 1..n
    BY <1>4
  <2>2. f[m + 1] = f[m] + shares[m + 1] /\ g[m + 1] = g[m] + others[m + 1]
    BY <1>1, <1>2, <2>1
  <2>3. shares[m + 1] \in Int /\ others[m + 1] \in Int /\ shares[m + 1] <= others[m + 1]
    BY <2>1
  <2> QED
    BY <2>1, <2>2, <2>3
<1>5. Nat \subseteq T
  <2> HIDE DEF T
  <2> QED
    BY <1>3, <1>4, Inductive
<1> QED
  BY <1>1, <1>2, <1>5

LEMMA OnePercentMore ==
    ASSUME NEW m \in Nat, NEW x \in Nat, NEW s \in Nat, x <= 100 * m, s <= 100
    PROVE  /\ x + s \in Nat
           /\ x + s <= 100 * (m + 1)
           /\ x + s = 100 * (m + 1) <=> x = 100 * m /\ s = 100
  OBVIOUS

(* Percentages add up to 100 each only when each is 100.                   *)
LEMMA TotalOfPercents ==
    ASSUME NEW shares, NEW n \in Nat, Len(shares) = n,
           \A k \in 1..n : shares[k] \in Nat /\ shares[k] <= 100
    PROVE  /\ Total(shares) \in Nat
           /\ Total(shares) <= 100 * n
           /\ Total(shares) = 100 * n <=> \A k \in 1..n : shares[k] = 100
<1>1. PICK f : /\ Total(shares) = f[n]
               /\ f[0] = 0
               /\ \A k \in 1..n : f[k] = f[k - 1] + shares[k]
  <2>1. \A k \in 1..n : shares[k] \in Int
    OBVIOUS
  <2> QED
    BY <2>1, TotalIs
<1> DEFINE All(m) == \A k \in 1..m : shares[k] = 100
           T == {m \in Nat : m <= n => /\ f[m] \in Nat /\ f[m] <= 100 * m
                                       /\ f[m] = 100 * m <=> All(m)}
<1>2. 0 \in T
  BY <1>1
<1>3. ASSUME NEW m \in Nat, m \in T
      PROVE  m + 1 \in T
  <2> SUFFICES ASSUME m + 1 <= n
               PROVE  /\ f[m + 1] \in Nat /\ f[m + 1] <= 100 * (m + 1)
                      /\ f[m + 1] = 100 * (m + 1) <=> All(m + 1)
    OBVIOUS
  <2>1. f[m] \in Nat /\ f[m] <= 100 * m /\ (f[m] = 100 * m <=> All(m)) /\ m + 1 \in 1..n
    BY <1>3
  <2>2. f[m + 1] = f[m] + shares[m + 1] /\ shares[m + 1] \in Nat /\ shares[m + 1] <= 100
    BY <1>1, <2>1
  <2>3. /\ f[m + 1] \in Nat
        /\ f[m + 1] <= 100 * (m + 1)
        /\ f[m + 1] = 100 * (m + 1) <=> f[m] = 100 * m /\ shares[m + 1] = 100
    <3> HIDE DEF All, T
    <3>1. PICK x : x = f[m]
      OBVIOUS
    <3>2. PICK s : s = shares[m + 1]
      OBVIOUS
    <3>3. /\ x + s \in Nat
          /\ x + s <= 100 * (m + 1)
          /\ x + s = 100 * (m + 1) <=> x = 100 * m /\ s = 100
      <4>1. x \in Nat /\ s \in Nat /\ x <= 100 * m /\ s <= 100
        BY <2>1, <2>2, <3>1, <3>2
      <4> QED
        BY <4>1, OnePercentMore
    <3> QED
      BY <2>2, <3>1, <3>2, <3>3
  <2>4. All(m + 1) <=> All(m) /\ shares[m + 1] = 100
    <3>1. 1..m + 1 = 1..m \cup {m + 1}
      OBVIOUS
    <3> QED
      BY <3>1
  <2> HIDE DEF All
  <2> QED
    BY <2>1, <2>3, <2>4
<1>4. Nat \subseteq T
  <2> HIDE DEF T
  <2> QED
    BY <1>2, <1>3, Inductive
<1>5. n \in T
  BY <1>4
<1> QED
  BY <1>1, <1>5

-----------------------------------------------------------------------------
(* The order a slice lists its secrets in holds each of them.              *)
LEMMA Listed ==
    ASSUME NEW T, IsFiniteSet(T)
    PROVE  /\ Cardinality(T) \in Nat
           /\ SetToSeq(T) \in [1..Cardinality(T) -> T]
           /\ \A t \in T : \E k \in 1..Cardinality(T) : SetToSeq(T)[k] = t
<1>1. Cardinality(T) \in Nat /\ ExistsBijection(1..Cardinality(T), T)
  BY FS_CardinalityType
<1>2. PICK n \in Nat : n = Cardinality(T)
  BY <1>1
<1>3. \E f \in [1..n -> T] : IsInjective(f)
  BY <1>1, <1>2 DEF ExistsBijection, Bijection, Injection
<1>4. PICK h : h = SetToSeq(T)
  OBVIOUS
<1>5. h \in [1..n -> T] /\ IsInjective(h)
  BY <1>2, <1>3, <1>4 DEF SetToSeq
<1>6. IsFiniteSet(1..n) /\ Cardinality(1..n) = n
  <2>1. IsFiniteSet(1..n) /\ Cardinality(1..n) = IF 1 > n THEN 0 ELSE n - 1 + 1
    BY FS_Interval
  <2> QED
    BY <2>1
<1>7. h \in Injection(1..n, T)
  BY <1>5 DEF Injection
<1>8. h \in Surjection(1..n, T)
  BY <1>2, <1>6, <1>7, FS_Injection
<1> QED
  BY <1>1, <1>2, <1>4, <1>5, <1>8 DEF Surjection

-----------------------------------------------------------------------------
(* One hole.                                                               *)

LEMMA LogarithmRises ==
    ASSUME NEW near \in Nat, NEW far \in Nat, near <= far, far <= Farthest
    PROVE  /\ Ln(near + 1) \in Int /\ Ln(far + 1) \in Int
           /\ 0 <= Ln(near + 1)
           /\ Ln(near + 1) <= Ln(far + 1)
           /\ near < far => Ln(near + 1) < Ln(far + 1)
           /\ Ln(near + 1) = 0 <=> near = 0
<1>1. Farthest \in Nat /\ 1 \in 1..(Farthest + 1)
  BY LogarithmAssumption
<1>2. near + 1 \in 1..(Farthest + 1) /\ far + 1 \in 1..(Farthest + 1)
  BY <1>1
<1>3. PICK x \in 1..(Farthest + 1) : x = near + 1
  BY <1>2
<1>4. PICK y \in 1..(Farthest + 1) : y = far + 1
  BY <1>2
<1>5. /\ Ln(x) \in Int /\ Ln(y) \in Int /\ Ln(1) = 0
      /\ x < y => Ln(x) < Ln(y)
      /\ 1 < x => Ln(1) < Ln(x)
  BY <1>1, LogarithmAssumption
<1>6. /\ x < y <=> near < far
      /\ 1 < x <=> near # 0
      /\ x = y <=> near = far
      /\ x = 1 <=> near = 0
  BY <1>3, <1>4
<1>7. Ln(near + 1) = Ln(x) /\ Ln(far + 1) = Ln(y)
  BY <1>3, <1>4
<1>8. near < far \/ near = far
  OBVIOUS
<1> QED
  BY <1>5, <1>6, <1>7, <1>8

LEMMA Quotient ==
    ASSUME NEW part \in Nat, NEW more \in Nat, NEW whole \in Nat, whole > 0,
           part <= more, more <= whole
    PROVE  /\ (100 * part) \div whole \in Nat
           /\ (100 * part) \div whole <= (100 * more) \div whole
           /\ (100 * part) \div whole <= 100
           /\ (100 * part) \div whole = 100 <=> part = whole
<1>1. (100 * part) \div whole \in Int
  OBVIOUS
<1>2. (100 * part) \div whole >= 0
  OBVIOUS
<1>3. (100 * part) \div whole <= (100 * more) \div whole
  <2>1. 100 * part <= 100 * more /\ 100 * part \in Int /\ 100 * more \in Int
    OBVIOUS
  <2>2. \A a, b \in Int : a <= b => a \div whole <= b \div whole
    OBVIOUS
  <2> QED
    BY <2>1, <2>2
<1>4. part < whole => (100 * part) \div whole < 100
  OBVIOUS
<1>5. (100 * whole) \div whole = 100
  OBVIOUS
<1>6. part = whole \/ part < whole
  OBVIOUS
<1> QED
  BY <1>1, <1>2, <1>3, <1>4, <1>5, <1>6

(* A hole's progress is a percentage, 100 at the secret alone, and rises   *)
(* as its rank falls.                                                      *)
LEMMA Percent ==
    ASSUME NEW near \in Nat, NEW far \in Nat, NEW start \in Nat,
           near <= far, far <= start, start <= Farthest
    PROVE  /\ HoleProgress(far, start) \in Nat
           /\ HoleProgress(far, start) <= 100
           /\ HoleProgress(far, start) = 100 <=> far = 0
           /\ HoleProgress(far, start) <= HoleProgress(near, start)
<1>1. CASE start = 0
  <2>1. far = 0 /\ near = 0
    BY <1>1
  <2> QED
    BY <1>1, <2>1 DEF HoleProgress
<1>2. CASE start # 0
  <2>1. PICK l \in Int : l = Ln(start + 1)
    BY LogarithmRises
  <2>2. PICK x \in Int : x = Ln(far + 1)
    BY LogarithmRises
  <2>3. PICK y \in Int : y = Ln(near + 1)
    <3>1. near <= start
      OBVIOUS
    <3> QED
      BY <3>1, LogarithmRises
  <2>4. 0 <= y /\ y <= x /\ (x = 0 <=> far = 0) /\ far <= Farthest
    <3>1. far <= Farthest
      BY LogarithmAssumption
    <3>2. 0 <= Ln(near + 1) /\ Ln(near + 1) <= Ln(far + 1)
      BY <3>1, LogarithmRises
    <3>3. Ln(far + 1) = 0 <=> far = 0
      BY <3>1, LogarithmRises
    <3> QED
      BY <2>2, <2>3, <3>1, <3>2, <3>3
  <2>5. x <= l /\ 0 < l
    <3>1. Ln(far + 1) <= Ln(start + 1) /\ 0 <= Ln(start + 1) /\ (Ln(start + 1) = 0 <=> start = 0)
      BY LogarithmRises
    <3> QED
      BY <1>2, <2>1, <2>2, <3>1
  <2>6. /\ HoleProgress(far, start) = (100 * (l - x)) \div l
        /\ HoleProgress(near, start) = (100 * (l - y)) \div l
    BY <1>2, <2>1, <2>2, <2>3 DEF HoleProgress
  <2>7. l - x \in Nat /\ l - y \in Nat /\ l \in Nat /\ l > 0 /\ l - x <= l - y /\ l - y <= l
    BY <2>4, <2>5
  <2>8. /\ (100 * (l - x)) \div l \in Nat
        /\ (100 * (l - x)) \div l <= (100 * (l - y)) \div l
        /\ (100 * (l - x)) \div l <= 100
        /\ (100 * (l - x)) \div l = 100 <=> l - x = l
    BY <2>7, Quotient
  <2>9. l - x = l <=> far = 0
    BY <2>4
  <2> QED
    BY <2>6, <2>8, <2>9
<1> QED
  BY <1>1, <1>2

(* What a slice, or the full artifact, says of a secret.                   *)
Readable(hole) ==
    /\ hole.start \in 0..Farthest
    /\ \E known : hole.ranks \in [known -> 0..Farthest]

(* The closest rank a log reached, from the start hint on.                 *)
Closest(b, hole, log) ==
    /\ b \in 0..Farthest
    /\ b <= hole.start
    /\ \A i \in DOMAIN log : log[i] \in DOMAIN hole.ranks => b <= hole.ranks[log[i]]
    /\ \/ b = hole.start
       \/ \E i \in DOMAIN log : log[i] \in DOMAIN hole.ranks /\ b = hole.ranks[log[i]]

LEMMA RankTyped ==
    ASSUME NEW hole, Readable(hole), NEW slug \in DOMAIN hole.ranks
    PROVE  hole.ranks[slug] \in 0..Farthest
<1>1. PICK known : hole.ranks \in [known -> 0..Farthest]
  BY DEF Readable
<1> QED
  BY <1>1

LEMMA BestIsClosest ==
    ASSUME NEW hole, Readable(hole), NEW log
    PROVE  Closest(Best(hole, log), hole, log)
<1> DEFINE reached == {hole.ranks[log[i]] : i \in {j \in DOMAIN log : log[j] \in DOMAIN hole.ranks}}
<1>1. Farthest \in Nat /\ hole.start \in 0..Farthest
  BY LogarithmAssumption DEF Readable
<1>2. \A i \in DOMAIN log : log[i] \in DOMAIN hole.ranks => hole.ranks[log[i]] \in 0..Farthest
  BY RankTyped
<1>3. \A r \in reached : r \in 0..Farthest
  BY <1>2
<1>4. {hole.start} \cup reached \subseteq Nat /\ {hole.start} \cup reached # {}
  <2> HIDE DEF reached
  <2> QED
    BY <1>1, <1>3
<1>5. Best(hole, log) = Min({hole.start} \cup reached)
  BY DEF Best
<1>6. PICK b : b = Best(hole, log)
  OBVIOUS
<1>7. b \in {hole.start} \cup reached /\ \A x \in {hole.start} \cup reached : b <= x
  <2> HIDE DEF reached
  <2> QED
    BY <1>4, <1>5, <1>6, MinIsLeast
<1>8. b \in 0..Farthest /\ b <= hole.start
  <2> HIDE DEF reached
  <2> QED
    BY <1>1, <1>3, <1>7
<1>9. \A i \in DOMAIN log : log[i] \in DOMAIN hole.ranks => hole.ranks[log[i]] \in reached
  OBVIOUS
<1>10. b \in reached => \E i \in DOMAIN log : log[i] \in DOMAIN hole.ranks /\ b = hole.ranks[log[i]]
  OBVIOUS
<1> HIDE DEF reached
<1>11. Closest(b, hole, log)
  BY <1>7, <1>8, <1>9, <1>10 DEF Closest
<1> QED
  BY <1>6, <1>11

(* No other rank is: of two, each is at most the other.                    *)
LEMMA ClosestIsOne ==
    ASSUME NEW hole, NEW log, NEW b, NEW c, Closest(b, hole, log), Closest(c, hole, log)
    PROVE  b = c
<1>1. b \in 0..Farthest /\ c \in 0..Farthest /\ Farthest \in Nat
  BY LogarithmAssumption DEF Closest
<1>2. b <= c
  BY DEF Closest
<1>3. c <= b
  BY DEF Closest
<1> QED
  BY <1>1, <1>2, <1>3

(* A log with every guess of another got at least as close.                *)
LEMMA BestFalls ==
    ASSUME NEW hole, Readable(hole), NEW log, NEW more,
           \A i \in DOMAIN log : \E j \in DOMAIN more : log[i] = more[j]
    PROVE  Best(hole, more) <= Best(hole, log)
<1>1. PICK b : b = Best(hole, log)
  OBVIOUS
<1>2. PICK c : c = Best(hole, more)
  OBVIOUS
<1>3. Closest(b, hole, log) /\ Closest(c, hole, more)
  BY <1>1, <1>2, BestIsClosest
<1>4. c <= b
  <2>1. CASE b = hole.start
    BY <1>3, <2>1 DEF Closest
  <2>2. CASE \E i \in DOMAIN log : log[i] \in DOMAIN hole.ranks /\ b = hole.ranks[log[i]]
    <3>1. PICK i \in DOMAIN log : log[i] \in DOMAIN hole.ranks /\ b = hole.ranks[log[i]]
      BY <2>2
    <3>2. PICK j \in DOMAIN more : log[i] = more[j]
      OBVIOUS
    <3>3. more[j] \in DOMAIN hole.ranks /\ b = hole.ranks[more[j]]
      BY <3>1, <3>2
    <3> QED
      BY <1>3, <3>3 DEF Closest
  <2> QED
    BY <1>3, <2>1, <2>2 DEF Closest
<1> QED
  BY <1>1, <1>2, <1>4

-----------------------------------------------------------------------------
(* The slice and the full artifact.                                        *)

Whole(p) == [s \in Secrets(p) |-> [start |-> StartOf(p, s), ranks |-> p.ranks[s]]]

(* A slice every hole of which can be read.                                *)
SliceTyped(slice) ==
    /\ IsFiniteSet(DOMAIN slice)
    /\ \A s \in DOMAIN slice : Readable(slice[s])

LEMMA SecretsFinite ==
    ASSUME NEW p \in Sentences
    PROVE  IsFiniteSet(Secrets(p))
<1>1. Len(p.holes) \in Nat /\ DOMAIN p.holes = 1..Len(p.holes)
  BY SentencesAssumption
<1>2. IsFiniteSet(DOMAIN p.holes)
  BY <1>1, FS_Interval
<1> DEFINE f == [i \in DOMAIN p.holes |-> p.holes[i].secret]
<1>3. f \in Surjection(DOMAIN p.holes, Secrets(p))
  BY DEF Surjection, Secrets
<1> QED
  BY <1>2, <1>3, FS_Surjection

LEMMA StartTyped ==
    ASSUME NEW p \in Sentences, NEW s \in Secrets(p)
    PROVE  StartOf(p, s) \in 0..Farthest
<1> DEFINE at == {i \in DOMAIN p.holes : p.holes[i].secret = s}
<1>1. DOMAIN p.holes \subseteq Nat
  BY SentencesAssumption
<1>2. at \subseteq Nat /\ at # {}
  BY <1>1 DEF Secrets
<1>3. Min(at) \in DOMAIN p.holes
  <2>1. Min(at) \in at
    <3> HIDE DEF at
    <3> QED
      BY <1>2, MinIsLeast
  <2> QED
    BY <2>1
<1>4. StartOf(p, s) = p.holes[Min(at)].start
  BY DEF StartOf
<1> HIDE DEF at
<1> QED
  BY <1>3, <1>4, SentencesAssumption

LEMMA WholeTyped ==
    ASSUME NEW p \in Sentences
    PROVE  /\ DOMAIN Whole(p) = Secrets(p)
           /\ SliceTyped(Whole(p))
           /\ \A s \in Secrets(p) : /\ Whole(p)[s].start = StartOf(p, s)
                                    /\ Whole(p)[s].ranks = p.ranks[s]
<1>1. DOMAIN Whole(p) = Secrets(p)
  BY DEF Whole
<1>2. \A s \in Secrets(p) : /\ Whole(p)[s].start = StartOf(p, s)
                            /\ Whole(p)[s].ranks = p.ranks[s]
  BY DEF Whole
<1>3. ASSUME NEW s \in Secrets(p)
      PROVE  Readable(Whole(p)[s])
  <2>1. \E known : p.ranks[s] \in [known -> 0..Farthest]
    BY SentencesAssumption
  <2> QED
    BY <1>2, <2>1, StartTyped DEF Readable
<1> QED
  BY <1>1, <1>2, <1>3, SecretsFinite DEF SliceTyped

LEMMA SliceFacts ==
    ASSUME NEW p \in Sentences
    PROVE  /\ DOMAIN BuildSlice(p) = Secrets(p)
           /\ SliceTyped(BuildSlice(p))
           /\ \A s \in Secrets(p) :
                 /\ BuildSlice(p)[s].start = StartOf(p, s)
                 /\ DOMAIN BuildSlice(p)[s].ranks = Kept(p.ranks[s], StartOf(p, s))
                 /\ \A slug \in Kept(p.ranks[s], StartOf(p, s)) :
                       BuildSlice(p)[s].ranks[slug] = p.ranks[s][slug]
<1>1. DOMAIN BuildSlice(p) = Secrets(p)
  BY DEF BuildSlice
<1>2. ASSUME NEW s \in Secrets(p)
      PROVE  /\ BuildSlice(p)[s].start = StartOf(p, s)
             /\ BuildSlice(p)[s].ranks =
                   [slug \in Kept(p.ranks[s], StartOf(p, s)) |-> p.ranks[s][slug]]
  <2>1. PICK cut : cut = [slug \in Kept(p.ranks[s], StartOf(p, s)) |-> p.ranks[s][slug]]
    OBVIOUS
  <2>2. BuildSlice(p)[s] = [start |-> StartOf(p, s), ranks |-> cut]
    BY <1>2, <2>1 DEF BuildSlice
  <2> QED
    BY <2>1, <2>2
<1>3. ASSUME NEW s \in Secrets(p)
      PROVE  Readable(BuildSlice(p)[s])
  <2>1. PICK known : p.ranks[s] \in [known -> 0..Farthest]
    BY SentencesAssumption
  <2>2. \A slug \in Kept(p.ranks[s], StartOf(p, s)) : p.ranks[s][slug] \in 0..Farthest
    BY <2>1 DEF Kept
  <2>3. BuildSlice(p)[s].ranks \in [Kept(p.ranks[s], StartOf(p, s)) -> 0..Farthest]
    BY <1>2, <2>2
  <2> QED
    BY <1>2, <2>3, StartTyped DEF Readable
<1> QED
  BY <1>1, <1>2, <1>3, SecretsFinite DEF SliceTyped

(* The cut leaves the closest rank what it was: what it takes is farther   *)
(* than the start hint.                                                    *)
LEMMA CutKeepsBest ==
    ASSUME NEW p \in Sentences, NEW s \in Secrets(p), NEW log
    PROVE  Best(BuildSlice(p)[s], log) = Best(Whole(p)[s], log)
<1>1. PICK cut : cut = BuildSlice(p)[s]
  OBVIOUS
<1>2. PICK full : full = Whole(p)[s]
  OBVIOUS
<1>3. Readable(cut) /\ Readable(full) /\ cut.start = full.start
  BY <1>1, <1>2, SliceFacts, WholeTyped DEF SliceTyped
<1>4. DOMAIN cut.ranks = {slug \in DOMAIN full.ranks : full.ranks[slug] <= full.start}
  BY <1>1, <1>2, SliceFacts, WholeTyped DEF Kept
<1>5. \A slug \in DOMAIN cut.ranks : cut.ranks[slug] = full.ranks[slug]
  BY <1>1, <1>2, SliceFacts, WholeTyped
<1>6. PICK b : b = Best(cut, log)
  OBVIOUS
<1>7. Closest(b, cut, log)
  BY <1>3, <1>6, BestIsClosest
<1>8. Closest(b, full, log)
  <2>1. b \in 0..Farthest /\ b <= full.start /\ full.start \in 0..Farthest /\ Farthest \in Nat
    BY <1>3, <1>7, LogarithmAssumption DEF Closest, Readable
  <2>2. ASSUME NEW i \in DOMAIN log, log[i] \in DOMAIN full.ranks
        PROVE  b <= full.ranks[log[i]]
    <3>1. full.ranks[log[i]] \in 0..Farthest
      BY <1>3, <2>2, RankTyped
    <3>2. CASE full.ranks[log[i]] <= full.start
      BY <1>4, <1>5, <1>7, <2>2, <3>2 DEF Closest
    <3>3. CASE ~(full.ranks[log[i]] <= full.start)
      BY <2>1, <3>1, <3>3
    <3> QED
      BY <3>2, <3>3
  <2>3. \/ b = full.start
        \/ \E i \in DOMAIN log : log[i] \in DOMAIN full.ranks /\ b = full.ranks[log[i]]
    BY <1>3, <1>4, <1>5, <1>7 DEF Closest
  <2> QED
    BY <2>1, <2>2, <2>3 DEF Closest
<1>9. Closest(Best(full, log), full, log)
  BY <1>3, BestIsClosest
<1>10. b = Best(full, log)
  BY <1>8, <1>9, ClosestIsOne
<1> QED
  BY <1>1, <1>2, <1>6, <1>10

(* Slices that give two logs the same closest ranks derive them alike.     *)
LEMMA DerivedAlike ==
    ASSUME NEW a, NEW b, SliceTyped(b), DOMAIN a = DOMAIN b, NEW log, NEW other,
           \A s \in DOMAIN b : Best(a[s], log) = Best(b[s], other) /\ a[s].start = b[s].start
    PROVE  DeriveRound(a, log) = DeriveRound(b, other)
<1>1. AllFound(a, log) = AllFound(b, other)
  BY DEF AllFound
<1>2. HoleShares(a, log) = HoleShares(b, other)
  <2>1. PICK secrets : secrets = SetToSeq(DOMAIN b)
    OBVIOUS
  <2>2. \A k \in DOMAIN secrets : secrets[k] \in DOMAIN b
    BY <2>1, Listed DEF SliceTyped
  <2>3. \A k \in DOMAIN secrets :
           /\ Best(a[secrets[k]], log) = Best(b[secrets[k]], other)
           /\ a[secrets[k]].start = b[secrets[k]].start
    BY <2>2
  <2>4. /\ HoleShares(a, log) = [k \in DOMAIN secrets |->
              HoleProgress(Best(a[secrets[k]], log), a[secrets[k]].start)]
        /\ HoleShares(b, other) = [k \in DOMAIN secrets |->
              HoleProgress(Best(b[secrets[k]], other), b[secrets[k]].start)]
    BY <2>1 DEF HoleShares
  <2> QED
    BY <2>3, <2>4
<1> QED
  BY <1>1, <1>2 DEF DeriveRound

(* So the slice and the full artifact read every log alike.                *)
LEMMA SliceReads ==
    ASSUME NEW p \in Sentences, NEW log
    PROVE  DeriveRound(BuildSlice(p), log) = DeriveRound(Whole(p), log)
<1>1. DOMAIN BuildSlice(p) = DOMAIN Whole(p) /\ SliceTyped(Whole(p))
  BY SliceFacts, WholeTyped
<1>2. \A s \in DOMAIN Whole(p) : /\ Best(BuildSlice(p)[s], log) = Best(Whole(p)[s], log)
                                 /\ BuildSlice(p)[s].start = Whole(p)[s].start
  BY SliceFacts, WholeTyped, CutKeepsBest
<1> QED
  BY <1>1, <1>2, DerivedAlike

-----------------------------------------------------------------------------
(* What is derived.                                                        *)

LEMMA ShareFacts ==
    ASSUME NEW slice, SliceTyped(slice), NEW log
    PROVE  /\ Cardinality(DOMAIN slice) \in Nat
           /\ Len(HoleShares(slice, log)) = Cardinality(DOMAIN slice)
           /\ \A k \in 1..Cardinality(DOMAIN slice) :
                 \E s \in DOMAIN slice :
                    /\ s = SetToSeq(DOMAIN slice)[k]
                    /\ HoleShares(slice, log)[k] =
                          HoleProgress(Best(slice[s], log), slice[s].start)
           /\ \A s \in DOMAIN slice : \E k \in 1..Cardinality(DOMAIN slice) :
                 HoleShares(slice, log)[k] = HoleProgress(Best(slice[s], log), slice[s].start)
<1>1. PICK secrets : secrets = SetToSeq(DOMAIN slice)
  OBVIOUS
<1>2. PICK n \in Nat : n = Cardinality(DOMAIN slice)
  BY Listed DEF SliceTyped
<1>3. secrets \in [1..n -> DOMAIN slice] /\ \A s \in DOMAIN slice : \E k \in 1..n : secrets[k] = s
  BY <1>1, <1>2, Listed DEF SliceTyped
<1>4. PICK shares : shares = HoleShares(slice, log)
  OBVIOUS
<1>5. shares = [k \in 1..n |-> HoleProgress(Best(slice[secrets[k]], log), slice[secrets[k]].start)]
  BY <1>1, <1>3, <1>4 DEF HoleShares
<1>6. Len(shares) = n
  BY <1>5
<1>7. \A k \in 1..n : /\ secrets[k] \in DOMAIN slice
                      /\ shares[k] = HoleProgress(Best(slice[secrets[k]], log), slice[secrets[k]].start)
  BY <1>3, <1>5
<1>8. \A s \in DOMAIN slice : \E k \in 1..n :
         shares[k] = HoleProgress(Best(slice[s], log), slice[s].start)
  BY <1>3, <1>7
<1> QED
  BY <1>1, <1>2, <1>4, <1>6, <1>7, <1>8

(* A hole's share of any log is a percentage, and 100 when it is found.    *)
LEMMA ShareTyped ==
    ASSUME NEW hole, Readable(hole), NEW log
    PROVE  /\ HoleProgress(Best(hole, log), hole.start) \in Nat
           /\ HoleProgress(Best(hole, log), hole.start) <= 100
           /\ HoleProgress(Best(hole, log), hole.start) = 100 <=> Best(hole, log) = 0
<1>1. PICK b : b = Best(hole, log)
  OBVIOUS
<1>2. b \in Nat /\ hole.start \in Nat /\ b <= hole.start /\ hole.start <= Farthest
  BY <1>1, BestIsClosest, LogarithmAssumption DEF Closest, Readable
<1>3. b <= b
  BY <1>2
<1> QED
  BY <1>1, <1>2, <1>3, Percent

LEMMA ShareRises ==
    ASSUME NEW hole, Readable(hole), NEW log, NEW more,
           \A i \in DOMAIN log : \E j \in DOMAIN more : log[i] = more[j]
    PROVE  HoleProgress(Best(hole, log), hole.start) <= HoleProgress(Best(hole, more), hole.start)
<1>1. PICK b : b = Best(hole, log)
  OBVIOUS
<1>2. PICK c : c = Best(hole, more)
  OBVIOUS
<1>3. c <= b
  BY <1>1, <1>2, BestFalls
<1>4. Closest(b, hole, log) /\ Closest(c, hole, more)
  BY <1>1, <1>2, BestIsClosest
<1>5. b \in Nat /\ c \in Nat /\ hole.start \in Nat /\ b <= hole.start /\ hole.start <= Farthest
  BY <1>4, LogarithmAssumption DEF Closest, Readable
<1> QED
  BY <1>1, <1>2, <1>3, <1>5, Percent

LEMMA NoSecretNoShare ==
    ASSUME NEW slice, SliceTyped(slice), DOMAIN slice # {}
    PROVE  Cardinality(DOMAIN slice) \in Nat /\ Cardinality(DOMAIN slice) > 0
<1>1. Cardinality(DOMAIN slice) # 0
  BY FS_EmptySet DEF SliceTyped
<1>2. Cardinality(DOMAIN slice) \in Nat
  BY FS_CardinalityType DEF SliceTyped
<1> QED
  BY <1>1, <1>2

LEMMA AverageOf ==
    ASSUME NEW sum \in Nat, NEW n \in Nat, n > 0, sum <= 100 * n
    PROVE  /\ sum \div n \in Nat
           /\ sum \div n <= 100
           /\ sum \div n = 100 <=> sum = 100 * n
<1>1. sum \div n \in Int /\ sum \div n >= 0
  OBVIOUS
<1>2. sum < 100 * n => sum \div n < 100
  OBVIOUS
<1>3. (100 * n) \div n = 100
  OBVIOUS
<1>4. sum = 100 * n \/ sum < 100 * n
  OBVIOUS
<1> QED
  BY <1>1, <1>2, <1>3, <1>4

(* The share of every secret is 100 exactly when all are found.            *)
LEMMA SharesSolved ==
    ASSUME NEW slice, SliceTyped(slice), NEW log
    PROVE  /\ \A k \in 1..Cardinality(DOMAIN slice) :
                 /\ HoleShares(slice, log)[k] \in Nat
                 /\ HoleShares(slice, log)[k] <= 100
           /\ (\A k \in 1..Cardinality(DOMAIN slice) : HoleShares(slice, log)[k] = 100)
                 <=> AllFound(slice, log)
<1>1. \A s \in DOMAIN slice :
         /\ HoleProgress(Best(slice[s], log), slice[s].start) \in Nat
         /\ HoleProgress(Best(slice[s], log), slice[s].start) <= 100
         /\ HoleProgress(Best(slice[s], log), slice[s].start) = 100 <=> Best(slice[s], log) = 0
  BY ShareTyped DEF SliceTyped
<1>2. ASSUME NEW k \in 1..Cardinality(DOMAIN slice)
      PROVE  HoleShares(slice, log)[k] \in Nat /\ HoleShares(slice, log)[k] <= 100
  BY <1>1, ShareFacts
<1>3. ASSUME \A k \in 1..Cardinality(DOMAIN slice) : HoleShares(slice, log)[k] = 100
      PROVE  AllFound(slice, log)
  <2> SUFFICES ASSUME NEW s \in DOMAIN slice
               PROVE  Best(slice[s], log) = 0
    BY DEF AllFound
  <2>1. PICK k \in 1..Cardinality(DOMAIN slice) :
           HoleShares(slice, log)[k] = HoleProgress(Best(slice[s], log), slice[s].start)
    BY ShareFacts
  <2> QED
    BY <1>1, <1>3, <2>1
<1>4. ASSUME AllFound(slice, log), NEW k \in 1..Cardinality(DOMAIN slice)
      PROVE  HoleShares(slice, log)[k] = 100
  <2>1. PICK s \in DOMAIN slice :
           HoleShares(slice, log)[k] = HoleProgress(Best(slice[s], log), slice[s].start)
    BY ShareFacts
  <2>2. Best(slice[s], log) = 0
    BY <1>4 DEF AllFound
  <2> QED
    BY <1>1, <2>1, <2>2
<1> QED
  BY <1>2, <1>3, <1>4

(* Progress is a percentage, and 100 is a solve.                           *)
LEMMA DerivationTyped ==
    ASSUME NEW slice, SliceTyped(slice), NEW log
    PROVE  /\ DeriveRound(slice, log).progress \in Nat
           /\ DeriveRound(slice, log).progress = 100 <=> DeriveRound(slice, log).solved
<1>1. CASE DOMAIN slice = {}
  BY <1>1 DEF DeriveRound
<1>2. CASE DOMAIN slice # {}
  <2>1. PICK n \in Nat : n = Cardinality(DOMAIN slice)
    BY ShareFacts
  <2>2. n > 0
    BY <1>2, <2>1, NoSecretNoShare
  <2>3. PICK shares : shares = HoleShares(slice, log)
    OBVIOUS
  <2>4. /\ Len(shares) = n
        /\ \A k \in 1..n : shares[k] \in Nat /\ shares[k] <= 100
    BY <2>1, <2>3, ShareFacts, SharesSolved
  <2>5. /\ Total(shares) \in Nat
        /\ Total(shares) <= 100 * n
        /\ Total(shares) = 100 * n <=> \A k \in 1..n : shares[k] = 100
    BY <2>4, TotalOfPercents
  <2>6. (\A k \in 1..n : shares[k] = 100) <=> AllFound(slice, log)
    BY <2>1, <2>3, SharesSolved
  <2>7. /\ DeriveRound(slice, log).progress = Total(shares) \div n
        /\ DeriveRound(slice, log).solved = AllFound(slice, log)
    BY <1>2, <2>1, <2>3 DEF DeriveRound
  <2>8. /\ Total(shares) \div n \in Nat
        /\ Total(shares) \div n = 100 <=> Total(shares) = 100 * n
    BY <2>2, <2>5, AverageOf
  <2> QED
    BY <2>5, <2>6, <2>7, <2>8
<1> QED
  BY <1>1, <1>2

LEMMA DerivationRises ==
    ASSUME NEW slice, SliceTyped(slice), NEW log, NEW more,
           \A i \in DOMAIN log : \E j \in DOMAIN more : log[i] = more[j]
    PROVE  Rises(DeriveRound(slice, log), DeriveRound(slice, more))
<1>1. DeriveRound(slice, more).progress = 100 <=> DeriveRound(slice, more).solved
  BY DerivationTyped
<1>2. CASE DOMAIN slice = {}
  BY <1>2 DEF DeriveRound, Rises
<1>3. CASE DOMAIN slice # {}
  <2>1. PICK n \in Nat : n = Cardinality(DOMAIN slice)
    BY ShareFacts
  <2>2. n > 0
    BY <1>3, <2>1, NoSecretNoShare
  <2>3. PICK was : was = HoleShares(slice, log)
    OBVIOUS
  <2>4. PICK is : is = HoleShares(slice, more)
    OBVIOUS
  <2>5. Len(was) = n /\ Len(is) = n
    BY <2>1, <2>3, <2>4, ShareFacts
  <2>6. \A k \in 1..n : was[k] \in Nat /\ was[k] <= 100 /\ is[k] \in Nat /\ is[k] <= 100
    BY <2>1, <2>3, <2>4, SharesSolved
  <2>7. ASSUME NEW k \in 1..n
        PROVE  was[k] <= is[k]
    <3>1. PICK s \in DOMAIN slice : /\ s = SetToSeq(DOMAIN slice)[k]
                                    /\ was[k] = HoleProgress(Best(slice[s], log), slice[s].start)
      BY <2>1, <2>3, ShareFacts
    <3>2. is[k] = HoleProgress(Best(slice[s], more), slice[s].start)
      BY <2>1, <2>4, <3>1, ShareFacts
    <3>3. Readable(slice[s])
      BY DEF SliceTyped
    <3> QED
      BY <3>1, <3>2, <3>3, ShareRises
  <2>8. Total(was) <= Total(is)
    BY <2>5, <2>6, <2>7, TotalRises
  <2>9. Total(was) \in Int /\ Total(is) \in Int
    BY <2>5, <2>6, TotalOfPercents
  <2>10. Total(was) \div n <= Total(is) \div n
    <3>1. \A a, b \in Int : a <= b => a \div n <= b \div n
      BY <2>2
    <3> QED
      BY <2>8, <2>9, <3>1
  <2>11. AllFound(slice, log) => AllFound(slice, more)
    <3> SUFFICES ASSUME AllFound(slice, log), NEW s \in DOMAIN slice
                 PROVE  Best(slice[s], more) = 0
      BY DEF AllFound
    <3>1. Readable(slice[s])
      BY DEF SliceTyped
    <3>2. Best(slice[s], more) <= Best(slice[s], log) /\ Best(slice[s], log) = 0
      BY <3>1, BestFalls DEF AllFound
    <3>3. Best(slice[s], more) \in 0..Farthest /\ Farthest \in Nat
      BY <3>1, BestIsClosest, LogarithmAssumption DEF Closest
    <3> QED
      BY <3>2, <3>3
  <2>12. /\ DeriveRound(slice, log).progress = Total(was) \div n
         /\ DeriveRound(slice, more).progress = Total(is) \div n
         /\ DeriveRound(slice, log).solved = AllFound(slice, log)
         /\ DeriveRound(slice, more).solved = AllFound(slice, more)
    BY <1>3, <2>1, <2>3, <2>4 DEF DeriveRound
  <2>13. Total(was) \div n \in Int /\ Total(is) \div n \in Int
    BY <2>2, <2>9
  <2>14. DeriveRound(slice, more).progress >= DeriveRound(slice, log).progress
    BY <2>10, <2>12, <2>13
  <2> QED
    BY <1>1, <2>11, <2>12, <2>14 DEF Rises
<1> QED
  BY <1>2, <1>3

-----------------------------------------------------------------------------
(* The distinct tries.                                                     *)

Words == Seq(Slugs)

(* Guesses of one identity have the same rank in every map, or none.       *)
LEMMA SameKeySameRank ==
    ASSUME NEW p \in Sentences, NEW x, NEW y, GuessKey(p, x) = GuessKey(p, y),
           NEW s \in Secrets(p)
    PROVE  /\ x \in DOMAIN p.ranks[s] <=> y \in DOMAIN p.ranks[s]
           /\ x \in DOMAIN p.ranks[s] => p.ranks[s][x] = p.ranks[s][y]
<1>1. PICK a : a = Outcome(p, x)
  OBVIOUS
<1>2. PICK b : b = Outcome(p, y)
  OBVIOUS
<1>3. /\ GuessKey(p, x) = IF \A t \in DOMAIN a : a[t] = -1 THEN <<"typed", x>> ELSE <<"resolved", a>>
      /\ GuessKey(p, y) = IF \A t \in DOMAIN b : b[t] = -1 THEN <<"typed", y>> ELSE <<"resolved", b>>
  BY <1>1, <1>2 DEF GuessKey
<1>4. x = y \/ a = b
  <2>1. /\ <<"typed", x>> # <<"resolved", b>>
        /\ <<"resolved", a>> # <<"typed", y>>
        /\ <<"typed", x>> = <<"typed", y>> => x = y
        /\ <<"resolved", a>> = <<"resolved", b>> => a = b
    OBVIOUS
  <2>2. GuessKey(p, x) = <<"typed", x>> \/ GuessKey(p, x) = <<"resolved", a>>
    BY <1>3
  <2>3. GuessKey(p, y) = <<"typed", y>> \/ GuessKey(p, y) = <<"resolved", b>>
    BY <1>3
  <2> QED
    BY <2>1, <2>2, <2>3
<1>5. a = b
  BY <1>1, <1>2, <1>4
<1>6. PICK known : p.ranks[s] \in [known -> 0..Farthest]
  BY SentencesAssumption
<1>7. /\ a[s] = IF x \in known THEN p.ranks[s][x] ELSE -1
      /\ b[s] = IF y \in known THEN p.ranks[s][y] ELSE -1
  BY <1>1, <1>2, <1>6 DEF Outcome
<1>8. /\ x \in known => p.ranks[s][x] \in 0..Farthest
      /\ y \in known => p.ranks[s][y] \in 0..Farthest
  BY <1>6
<1>9. DOMAIN p.ranks[s] = known
  BY <1>6
<1>10. \A r \in 0..Farthest : r # -1
  BY LogarithmAssumption
<1> QED
  BY <1>5, <1>7, <1>8, <1>9, <1>10

(* The recursive function that keeps the first of each identity is what    *)
(* its equation says, on every prefix of the log.                          *)
KnownIn(p, kept, slug) == \E j \in DOMAIN kept : GuessKey(p, kept[j]) = GuessKey(p, slug)

KeptUpTo(f, p, log, n) ==
    f = [i \in 0..n |->
            IF i = 0 THEN <<>>
            ELSE IF KnownIn(p, f[i - 1], log[i]) THEN f[i - 1] ELSE Append(f[i - 1], log[i])]

LEMMA KeptExtends ==
    ASSUME NEW p, NEW log \in Words, NEW n \in Nat, n + 1 <= Len(log),
           NEW f \in [0..n -> Words], KeptUpTo(f, p, log, n)
    PROVE  \E g \in [0..n + 1 -> Words] : KeptUpTo(g, p, log, n + 1)
<1> DEFINE next == IF KnownIn(p, f[n], log[n + 1]) THEN f[n] ELSE Append(f[n], log[n + 1])
           g == [i \in 0..n + 1 |-> IF i <= n THEN f[i] ELSE next]
<1>1. log[n + 1] \in Slugs
  BY DEF Words
<1>2. next \in Words
  <2>1. f[n] \in Words /\ Append(f[n], log[n + 1]) \in Words
    BY <1>1 DEF Words
  <2> QED
    BY <2>1
<1>3. g \in [0..n + 1 -> Words]
  <2>1. \A i \in 0..n + 1 : i <= n => f[i] \in Words
    OBVIOUS
  <2> HIDE DEF next
  <2> QED
    BY <1>2, <2>1
<1>4. \A i \in 0..n : f[i] = IF i = 0 THEN <<>>
                              ELSE IF KnownIn(p, f[i - 1], log[i]) THEN f[i - 1]
                              ELSE Append(f[i - 1], log[i])
  BY DEF KeptUpTo
<1>5. ASSUME NEW i \in 0..n + 1
      PROVE  g[i] = IF i = 0 THEN <<>>
                    ELSE IF KnownIn(p, g[i - 1], log[i]) THEN g[i - 1]
                    ELSE Append(g[i - 1], log[i])
  <2>1. CASE i = n + 1
    <3>1. g[i] = next /\ g[i - 1] = f[n] /\ i # 0
      BY <2>1
    <3> HIDE DEF g
    <3> QED
      BY <2>1, <3>1
  <2>2. CASE i <= n
    <3>1. i \in 0..n /\ g[i] = f[i] /\ (i # 0 => g[i - 1] = f[i - 1])
      BY <2>2
    <3> HIDE DEF g
    <3> QED
      BY <1>4, <3>1
  <2> QED
    BY <2>1, <2>2
<1>6. KeptUpTo(g, p, log, n + 1)
  <2> HIDE DEF g
  <2> QED
    BY <1>3, <1>5 DEF KeptUpTo
<1> QED
  BY <1>3, <1>6

LEMMA KeptExists ==
    ASSUME NEW p, NEW log \in Words
    PROVE  \E f \in [0..Len(log) -> Words] : KeptUpTo(f, p, log, Len(log))
<1> DEFINE T == {n \in Nat : n <= Len(log) =>
                    \E f \in [0..n -> Words] : KeptUpTo(f, p, log, n)}
<1>1. 0 \in T
  <2>1. <<>> \in Words
    BY DEF Words
  <2>2. [i \in 0..0 |-> <<>>] \in [0..0 -> Words]
    BY <2>1
  <2>3. KeptUpTo([i \in 0..0 |-> <<>>], p, log, 0)
    BY DEF KeptUpTo
  <2> QED
    BY <2>2, <2>3
<1>2. ASSUME NEW n \in Nat, n \in T
      PROVE  n + 1 \in T
  <2> SUFFICES ASSUME n + 1 <= Len(log)
               PROVE  \E f \in [0..n + 1 -> Words] : KeptUpTo(f, p, log, n + 1)
    OBVIOUS
  <2>1. Len(log) \in Nat
    BY DEF Words
  <2>2. PICK f \in [0..n -> Words] : KeptUpTo(f, p, log, n)
    BY <1>2, <2>1
  <2> QED
    BY <2>2, KeptExtends
<1>3. Nat \subseteq T
  <2> HIDE DEF T
  <2> QED
    BY <1>1, <1>2, Inductive
<1>4. Len(log) \in Nat
  BY DEF Words
<1> QED
  BY <1>3, <1>4

KeepsFirsts(f, p, log) ==
    /\ f[0] = <<>>
    /\ \A i \in 1..Len(log) :
          f[i] = IF KnownIn(p, f[i - 1], log[i]) THEN f[i - 1] ELSE Append(f[i - 1], log[i])

LEMMA KeptIs ==
    ASSUME NEW p, NEW log \in Words
    PROVE  \E f : Projected(p, log) = f[Len(log)] /\ KeepsFirsts(f, p, log)
<1>1. PICK h : h = CHOOSE f : KeptUpTo(f, p, log, Len(log))
  OBVIOUS
<1>2. KeptUpTo(h, p, log, Len(log))
  BY <1>1, KeptExists
<1>3. Projected(p, log) = h[Len(log)]
  BY <1>1 DEF Projected, KeptUpTo, KnownIn
<1>4. Len(log) \in Nat
  BY DEF Words
<1>5. \A i \in 0..Len(log) : h[i] = IF i = 0 THEN <<>>
                                    ELSE IF KnownIn(p, h[i - 1], log[i]) THEN h[i - 1]
                                    ELSE Append(h[i - 1], log[i])
  BY <1>2 DEF KeptUpTo
<1>6. h[0] = <<>>
  BY <1>4, <1>5
<1>7. ASSUME NEW i \in 1..Len(log)
      PROVE  h[i] = IF KnownIn(p, h[i - 1], log[i]) THEN h[i - 1] ELSE Append(h[i - 1], log[i])
  <2>1. i \in 0..Len(log) /\ i # 0
    BY <1>4
  <2> QED
    BY <1>5, <2>1
<1> QED
  BY <1>3, <1>6, <1>7 DEF KeepsFirsts

(* Of a prefix of the log the function keeps guesses of it only, one of    *)
(* each identity, and none twice.                                          *)
FirstsOf(kept, p, log, n) ==
    /\ kept \in Words
    /\ \A i \in 1..n : KnownIn(p, kept, log[i])
    /\ \A j \in 1..Len(kept) : \E i \in 1..n : kept[j] = log[i]
    /\ \A j, k \in 1..Len(kept) : GuessKey(p, kept[j]) = GuessKey(p, kept[k]) => j = k

LEMMA KeptOfPrefix ==
    ASSUME NEW p, NEW log \in Words, NEW f, KeepsFirsts(f, p, log), NEW n \in 0..Len(log)
    PROVE  FirstsOf(f[n], p, log, n)
<1> DEFINE All(m) == \A i \in 1..m : KnownIn(p, f[m], log[i])
           Only(m) == \A j \in 1..Len(f[m]) : \E i \in 1..m : f[m][j] = log[i]
           Once(m) == \A j, k \in 1..Len(f[m]) :
                         GuessKey(p, f[m][j]) = GuessKey(p, f[m][k]) => j = k
           T == {m \in Nat : m <= Len(log) => f[m] \in Words /\ All(m) /\ Only(m) /\ Once(m)}
<1>1. Len(log) \in Nat
  BY DEF Words
<1>2. 0 \in T
  <2>1. f[0] \in Words /\ Len(f[0]) = 0
    BY DEF Words, KeepsFirsts
  <2> QED
    BY <2>1
<1>3. ASSUME NEW m \in Nat, m \in T
      PROVE  m + 1 \in T
  <2> SUFFICES ASSUME m + 1 <= Len(log)
               PROVE  f[m + 1] \in Words /\ All(m + 1) /\ Only(m + 1) /\ Once(m + 1)
    <3> HIDE DEF All, Only, Once
    <3> QED
      BY <1>3
  <2>1. f[m] \in Words /\ All(m) /\ Only(m) /\ Once(m)
    <3> HIDE DEF All, Only, Once
    <3> QED
      BY <1>1, <1>3
  <2>2. m + 1 \in 1..Len(log) /\ log[m + 1] \in Slugs
    BY <1>1 DEF Words
  <2>3. Len(f[m]) \in Nat /\ DOMAIN f[m] = 1..Len(f[m])
    BY <2>1 DEF Words
  <2> HIDE DEF All, Only, Once
  <2>6. f[m + 1] = IF KnownIn(p, f[m], log[m + 1]) THEN f[m] ELSE Append(f[m], log[m + 1])
    <3>1. (m + 1) - 1 = m
      OBVIOUS
    <3> QED
      BY <2>2, <3>1 DEF KeepsFirsts
  <2> USE DEF All, Only, Once
  <2>4. CASE KnownIn(p, f[m], log[m + 1])
    <3>1. f[m + 1] = f[m]
      BY <2>4, <2>6
    <3>2. ASSUME NEW i \in 1..m + 1
          PROVE  KnownIn(p, f[m + 1], log[i])
      <4>1. i \in 1..m \/ i = m + 1
        OBVIOUS
      <4> QED
        BY <2>1, <2>4, <3>1, <4>1
    <3>3. Only(m + 1)
      <4> SUFFICES ASSUME NEW j \in 1..Len(f[m + 1])
                   PROVE  \E i \in 1..m + 1 : f[m + 1][j] = log[i]
        OBVIOUS
      <4>1. PICK i \in 1..m : f[m][j] = log[i]
        BY <2>1, <3>1
      <4> QED
        BY <3>1, <4>1
    <3>4. Once(m + 1)
      BY <2>1, <3>1
    <3> QED
      BY <2>1, <3>1, <3>2, <3>3, <3>4
  <2>5. CASE ~KnownIn(p, f[m], log[m + 1])
    <3>1. f[m + 1] = Append(f[m], log[m + 1])
      BY <2>5, <2>6
    <3>2. PICK l \in Nat : l = Len(f[m])
      BY <2>3
    <3>3. /\ f[m + 1] \in Words
          /\ Len(f[m + 1]) = l + 1
          /\ DOMAIN f[m + 1] = 1..l + 1
          /\ \A j \in 1..l : f[m + 1][j] = f[m][j]
          /\ f[m + 1][l + 1] = log[m + 1]
      BY <2>1, <2>2, <3>1, <3>2 DEF Words
    <3>4. ASSUME NEW i \in 1..m + 1
          PROVE  KnownIn(p, f[m + 1], log[i])
      <4>1. CASE i = m + 1
        <5>1. l + 1 \in DOMAIN f[m + 1] /\ f[m + 1][l + 1] = log[i]
          BY <3>3, <4>1
        <5> QED
          BY <5>1 DEF KnownIn
      <4>2. CASE i \in 1..m
        <5>1. PICK j \in DOMAIN f[m] : GuessKey(p, f[m][j]) = GuessKey(p, log[i])
          BY <2>1, <4>2 DEF KnownIn
        <5>2. j \in DOMAIN f[m + 1] /\ f[m + 1][j] = f[m][j]
          BY <2>3, <3>2, <3>3
        <5> QED
          BY <5>1, <5>2 DEF KnownIn
      <4> QED
        BY <4>1, <4>2
    <3>5. Only(m + 1)
      <4> SUFFICES ASSUME NEW j \in 1..Len(f[m + 1])
                   PROVE  \E i \in 1..m + 1 : f[m + 1][j] = log[i]
        OBVIOUS
      <4>1. CASE j = l + 1
        BY <3>3, <4>1
      <4>2. CASE j \in 1..l
        <5>1. PICK i \in 1..m : f[m][j] = log[i]
          BY <2>1, <3>2, <4>2
        <5> QED
          BY <3>3, <4>2, <5>1
      <4> QED
        BY <3>3, <4>1, <4>2
    <3>6. ASSUME NEW j \in 1..l
          PROVE  GuessKey(p, f[m + 1][j]) # GuessKey(p, f[m + 1][l + 1])
      <4>1. j \in DOMAIN f[m] /\ f[m + 1][j] = f[m][j]
        BY <2>3, <3>2, <3>3
      <4> QED
        BY <2>5, <3>3, <4>1 DEF KnownIn
    <3>7. ASSUME NEW j \in 1..l, NEW k \in 1..l,
                 GuessKey(p, f[m + 1][j]) = GuessKey(p, f[m + 1][k])
          PROVE  j = k
      BY <2>1, <3>2, <3>3, <3>7
    <3>8. Once(m + 1)
      <4> SUFFICES ASSUME NEW j \in 1..Len(f[m + 1]), NEW k \in 1..Len(f[m + 1]),
                          GuessKey(p, f[m + 1][j]) = GuessKey(p, f[m + 1][k])
                   PROVE  j = k
        OBVIOUS
      <4>1. (j \in 1..l \/ j = l + 1) /\ (k \in 1..l \/ k = l + 1)
        BY <3>3
      <4> QED
        BY <3>6, <3>7, <4>1
    <3> QED
      BY <3>3, <3>4, <3>5, <3>8
  <2> QED
    BY <2>4, <2>5
<1>4. Nat \subseteq T
  <2> HIDE DEF T
  <2> QED
    BY <1>2, <1>3, Inductive
<1>5. n \in T /\ n <= Len(log)
  BY <1>1, <1>4
<1> QED
  BY <1>5 DEF FirstsOf

LEMMA ProjectedFacts ==
    ASSUME NEW p, NEW log \in Words
    PROVE  /\ Projected(p, log) \in Words
           /\ \A i \in DOMAIN log : KnownIn(p, Projected(p, log), log[i])
           /\ \A j \in DOMAIN Projected(p, log) : \E i \in DOMAIN log : Projected(p, log)[j] = log[i]
           /\ \A j, k \in DOMAIN Projected(p, log) :
                 GuessKey(p, Projected(p, log)[j]) = GuessKey(p, Projected(p, log)[k]) => j = k
<1>1. PICK f : Projected(p, log) = f[Len(log)] /\ KeepsFirsts(f, p, log)
  BY KeptIs
<1>2. PICK n \in Nat : n = Len(log)
  BY DEF Words
<1>3. n \in 0..Len(log) /\ DOMAIN log = 1..n
  BY <1>2 DEF Words
<1>4. PICK kept : kept = f[n]
  OBVIOUS
<1>5. /\ kept \in Words
      /\ \A i \in 1..n : KnownIn(p, kept, log[i])
      /\ \A j \in 1..Len(kept) : \E i \in 1..n : kept[j] = log[i]
      /\ \A j, k \in 1..Len(kept) : GuessKey(p, kept[j]) = GuessKey(p, kept[k]) => j = k
  <2>1. FirstsOf(kept, p, log, n)
    BY <1>1, <1>3, <1>4, KeptOfPrefix
  <2> QED
    BY <2>1 DEF FirstsOf
<1>6. DOMAIN kept = 1..Len(kept)
  BY <1>5 DEF Words
<1> QED
  BY <1>1, <1>2, <1>3, <1>4, <1>5, <1>6

(* The tries leave every hole as near as the whole log did.                *)
LEMMA TriesKeepBest ==
    ASSUME NEW p \in Sentences, NEW log \in Words, NEW s \in Secrets(p)
    PROVE  Best(Whole(p)[s], Projected(p, log)) = Best(Whole(p)[s], log)
<1>1. PICK hole : hole = Whole(p)[s]
  OBVIOUS
<1>2. Readable(hole) /\ hole.ranks = p.ranks[s]
  BY <1>1, WholeTyped DEF SliceTyped
<1>3. PICK kept : kept = Projected(p, log)
  OBVIOUS
<1>4. PICK b : b = Best(hole, kept)
  OBVIOUS
<1>5. Closest(b, hole, kept)
  BY <1>2, <1>4, BestIsClosest
<1>6. ASSUME NEW i \in DOMAIN log, log[i] \in DOMAIN hole.ranks
      PROVE  b <= hole.ranks[log[i]]
  <2>1. PICK j \in DOMAIN kept : GuessKey(p, kept[j]) = GuessKey(p, log[i])
    BY <1>3, ProjectedFacts DEF KnownIn
  <2>2. kept[j] \in DOMAIN hole.ranks /\ hole.ranks[kept[j]] = hole.ranks[log[i]]
    BY <1>2, <1>6, <2>1, SameKeySameRank
  <2> QED
    BY <1>5, <2>2 DEF Closest
<1>7. ASSUME NEW j \in DOMAIN kept, kept[j] \in DOMAIN hole.ranks, b = hole.ranks[kept[j]]
      PROVE  \E i \in DOMAIN log : log[i] \in DOMAIN hole.ranks /\ b = hole.ranks[log[i]]
  <2>1. PICK i \in DOMAIN log : kept[j] = log[i]
    BY <1>3, ProjectedFacts
  <2> QED
    BY <1>7, <2>1
<1>8. Closest(b, hole, log)
  BY <1>5, <1>6, <1>7 DEF Closest
<1>9. Closest(Best(hole, log), hole, log)
  BY <1>2, BestIsClosest
<1>10. b = Best(hole, log)
  BY <1>8, <1>9, ClosestIsOne
<1> QED
  BY <1>1, <1>3, <1>4, <1>10

LEMMA TriesDeriveAlike ==
    ASSUME NEW p \in Sentences, NEW log \in Words
    PROVE  DeriveRound(BuildSlice(p), Projected(p, log)) = DeriveRound(BuildSlice(p), log)
<1>1. SliceTyped(Whole(p)) /\ DOMAIN Whole(p) = Secrets(p)
  BY WholeTyped
<1>2. \A s \in DOMAIN Whole(p) :
         /\ Best(Whole(p)[s], Projected(p, log)) = Best(Whole(p)[s], log)
         /\ Whole(p)[s].start = Whole(p)[s].start
  BY <1>1, TriesKeepBest
<1>3. DeriveRound(Whole(p), Projected(p, log)) = DeriveRound(Whole(p), log)
  BY <1>1, <1>2, DerivedAlike
<1> QED
  BY <1>3, SliceReads

(* One try is kept of each identity, so they are as many as the score.     *)
LEMMA TriesAreCounted ==
    ASSUME NEW p, NEW log \in Words
    PROVE  CountTries(p, log) = Len(Projected(p, log))
<1>1. PICK kept : kept = Projected(p, log)
  OBVIOUS
<1>2. /\ kept \in Words
      /\ \A i \in DOMAIN log : KnownIn(p, kept, log[i])
      /\ \A j \in DOMAIN kept : \E i \in DOMAIN log : kept[j] = log[i]
      /\ \A j, k \in DOMAIN kept : GuessKey(p, kept[j]) = GuessKey(p, kept[k]) => j = k
  BY <1>1, ProjectedFacts
<1>3. PICK n \in Nat : n = Len(kept) /\ DOMAIN kept = 1..n
  BY <1>2 DEF Words
<1>4. PICK keys : keys = {GuessKey(p, log[i]) : i \in DOMAIN log}
  OBVIOUS
<1> DEFINE g == [j \in 1..n |-> GuessKey(p, kept[j])]
<1>5. \A j \in 1..n : GuessKey(p, kept[j]) \in keys
  BY <1>2, <1>3, <1>4
<1>6. \A key \in keys : \E j \in 1..n : GuessKey(p, kept[j]) = key
  BY <1>2, <1>3, <1>4 DEF KnownIn
<1>7. g \in [1..n -> keys] /\ \A j \in 1..n : g[j] = GuessKey(p, kept[j])
  BY <1>5
<1>8. \A j, k \in DOMAIN g : g[j] = g[k] => j = k
  BY <1>2, <1>3
<1> HIDE DEF g
<1>9. g \in Bijection(1..n, keys)
  <2>1. IsInjective(g)
    BY <1>8 DEF IsInjective
  <2>2. \A key \in keys : \E j \in 1..n : g[j] = key
    BY <1>6, <1>7
  <2> QED
    BY <1>7, <2>1, <2>2 DEF Bijection, Injection, Surjection
<1>10. Cardinality(keys) = n
  BY <1>9, FS_CountingElements DEF ExistsBijection
<1> QED
  BY <1>1, <1>3, <1>4, <1>10 DEF CountTries

-----------------------------------------------------------------------------
(* The theorems on a sentence played guess by guess.                       *)

ReplayInv == sentence \in Sentences /\ entered \in Words

LEMMA ReplayStays == ReplaySpec => []ReplayInv
<1>1. ReplayInit => ReplayInv
  BY DEF ReplayInit, ReplayInv, Words
<1>2. ReplayInv /\ [TypeSlug]_played => ReplayInv'
  <2> SUFFICES ASSUME ReplayInv, [TypeSlug]_played
               PROVE  ReplayInv'
    OBVIOUS
  <2>1. CASE TypeSlug
    BY <2>1 DEF ReplayInv, TypeSlug, Words
  <2>2. CASE UNCHANGED played
    BY <2>2 DEF ReplayInv, played
  <2> QED
    BY <2>1, <2>2
<1> QED
  BY <1>1, <1>2, PTL DEF ReplaySpec

(* Whatever is typed, the slice decides what the full artifact would.      *)
THEOREM SliceDecides == ReplaySpec => []SliceIsEnough
<1>1. ReplayInv => SliceIsEnough
  BY SliceReads DEF ReplayInv, SliceIsEnough, AgainstSlice, AgainstMaps, Whole
<1> QED
  BY <1>1, ReplayStays, PTL

(* Whatever is typed, the distinct tries replay the board and are as many  *)
(* as the score says.                                                      *)
THEOREM TriesReplay == ReplaySpec => []TriesReplayTheBoard
<1>1. ReplayInv => TriesReplayTheBoard
  BY TriesDeriveAlike, TriesAreCounted DEF ReplayInv, TriesReplayTheBoard, AgainstSlice
<1> QED
  BY <1>1, ReplayStays, PTL

(* Two logs of one sentence, the second with every guess of the first, in  *)
(* any order and with any others between: it is derived to at least as     *)
(* much, solved if the first was, and 100 exactly when solved.  This is    *)
(* what MonotoneAssumption takes of deriveRound.                           *)
THEOREM MoreGuessesMoreProgress ==
    ASSUME NEW p \in Sentences, NEW log, NEW more,
           \A i \in DOMAIN log : \E j \in DOMAIN more : log[i] = more[j]
    PROVE  Rises(DeriveRound(BuildSlice(p), log), DeriveRound(BuildSlice(p), more))
<1>1. SliceTyped(BuildSlice(p))
  BY SliceFacts
<1> QED
  BY <1>1, DerivationRises

(* No guess lowers the progress or unmakes a solve, and 100 is a solve.    *)
THEOREM ProgressRises == ReplaySpec => ProgressOnlyRises
<1>1. ReplayInv /\ [TypeSlug]_played =>
         [Rises(AgainstSlice(entered), AgainstSlice(entered'))]_played
  <2> SUFFICES ASSUME ReplayInv, TypeSlug
               PROVE  Rises(AgainstSlice(entered), AgainstSlice(entered'))
    OBVIOUS
  <2>1. PICK slug \in Slugs : entered' = Append(entered, slug)
    BY DEF TypeSlug
  <2>2. PICK log \in Words : log = entered
    BY DEF ReplayInv
  <2>3. PICK more : more = entered'
    OBVIOUS
  <2>4. \A i \in DOMAIN log : i \in DOMAIN more /\ log[i] = more[i]
    BY <2>1, <2>2, <2>3 DEF Words
  <2>5. Rises(DeriveRound(BuildSlice(sentence), log), DeriveRound(BuildSlice(sentence), more))
    BY <2>4, MoreGuessesMoreProgress DEF ReplayInv
  <2> QED
    BY <2>2, <2>3, <2>5 DEF AgainstSlice
<1> QED
  BY <1>1, ReplayStays, PTL DEF ReplaySpec, ProgressOnlyRises

(* What RoundStore takes on trust of its two readings of a log, it may:    *)
(* where Progress is deriveRound against the slice of the edition's puzzle *)
(* and Tries countTries, ScoringAssumption and MonotoneAssumption hold.    *)
THEOREM ReadingsAsAssumed ==
    ASSUME NEW Puzzle \in [Editions -> Sentences],
           \A t \in Editions : \A l \in LogsUpTo(2 * Cap) :
              /\ Progress(t, l) = DeriveRound(BuildSlice(Puzzle[t]), l).progress
              /\ Tries(t, l) = CountTries(Puzzle[t], l)
    PROVE  /\ \A t \in Editions : \A l \in LogsUpTo(2 * Cap) :
                 Progress(t, l) \in Nat /\ Tries(t, l) \in Nat
           /\ \A t \in Editions : \A l, m \in LogsUpTo(Cap) :
                 (\A i \in 1..Len(l) : \E j \in 1..Len(m) : l[i] = m[j]) =>
                     Progress(t, l) <= Progress(t, m)
<1>1. Cap \in Nat
  BY BoundsAssumption
<1>2. ASSUME NEW k \in 0..2 * Cap, NEW l \in [1..k -> Guesses]
      PROVE  l \in LogsUpTo(2 * Cap) /\ DOMAIN l = 1..k /\ k = Len(l)
  BY <1>1, <1>2 DEF LogsUpTo
<1>3. ASSUME NEW l \in LogsUpTo(2 * Cap)
      PROVE  DOMAIN l = 1..Len(l) /\ Len(l) \in Nat
  <2>1. PICK k \in 0..2 * Cap : l \in [1..k -> Guesses]
    BY <1>3 DEF LogsUpTo
  <2>2. k \in Nat
    BY <1>1
  <2> QED
    BY <2>1, <2>2
<1>4. LogsUpTo(Cap) \subseteq LogsUpTo(2 * Cap)
  <2> SUFFICES ASSUME NEW l \in LogsUpTo(Cap)
               PROVE  l \in LogsUpTo(2 * Cap)
    OBVIOUS
  <2>1. PICK k \in 0..Cap : l \in [1..k -> Guesses]
    BY DEF LogsUpTo
  <2>2. k \in 0..2 * Cap
    BY <1>1
  <2> QED
    BY <1>2, <2>1, <2>2
<1>5. ASSUME NEW t \in Editions, NEW l \in LogsUpTo(2 * Cap)
      PROVE  Progress(t, l) \in Nat /\ Tries(t, l) \in Nat
  <2>1. PICK p \in Sentences : p = Puzzle[t]
    OBVIOUS
  <2>2. Progress(t, l) \in Nat
    BY <1>5, <2>1, SliceFacts, DerivationTyped
  <2>3. IsFiniteSet(DOMAIN l)
    BY <1>3, FS_Interval
  <2>4. PICK keys : keys = {GuessKey(p, l[i]) : i \in DOMAIN l}
    OBVIOUS
  <2> DEFINE g == [i \in DOMAIN l |-> GuessKey(p, l[i])]
  <2>5. g \in Surjection(DOMAIN l, keys)
    BY <2>4 DEF Surjection
  <2>6. Cardinality(keys) \in Nat
    BY <2>3, <2>5, FS_Surjection, FS_CardinalityType
  <2> QED
    BY <1>5, <2>1, <2>2, <2>4, <2>6 DEF CountTries
<1>6. ASSUME NEW t \in Editions, NEW l \in LogsUpTo(Cap), NEW m \in LogsUpTo(Cap),
             \A i \in 1..Len(l) : \E j \in 1..Len(m) : l[i] = m[j]
      PROVE  Progress(t, l) <= Progress(t, m)
  <2>1. PICK p \in Sentences : p = Puzzle[t]
    OBVIOUS
  <2>2. l \in LogsUpTo(2 * Cap) /\ m \in LogsUpTo(2 * Cap)
    BY <1>4
  <2>3. \A i \in DOMAIN l : \E j \in DOMAIN m : l[i] = m[j]
    BY <1>3, <1>6, <2>2
  <2>4. Rises(DeriveRound(BuildSlice(p), l), DeriveRound(BuildSlice(p), m))
    BY <2>3, MoreGuessesMoreProgress
  <2>5. /\ Progress(t, l) = DeriveRound(BuildSlice(p), l).progress
        /\ Progress(t, m) = DeriveRound(BuildSlice(p), m).progress
    BY <2>1, <2>2
  <2>6. Progress(t, l) \in Nat /\ Progress(t, m) \in Nat
    BY <1>5, <2>2
  <2> QED
    BY <2>4, <2>5, <2>6 DEF Rises
<1> QED
  BY <1>5, <1>6

(* And RoundStore's Solves, a guess of rank 0 for every hole, is           *)
(* deriveRound's solve where no hole's start hint is the secret itself.    *)
THEOREM SolvesAsDerived ==
    ASSUME NEW p \in Sentences, NEW t \in Editions, NEW log \in Logs,
           Secrets(p) = Holes, Holes # {},
           \A h \in Holes : StartOf(p, h) # 0,
           \A h \in Holes : \A g \in Guesses :
              Rank[t][h][g] = 0 <=> g \in DOMAIN p.ranks[h] /\ p.ranks[h][g] = 0
    PROVE  Solves(t, log) <=> DeriveRound(BuildSlice(p), log).solved
<1>1. DOMAIN log = 1..Len(log) /\ \A i \in 1..Len(log) : log[i] \in Guesses
  BY DEF Logs
<1>2. DOMAIN Whole(p) = Holes /\ SliceTyped(Whole(p))
  BY WholeTyped
<1>3. DeriveRound(BuildSlice(p), log).solved <=> AllFound(Whole(p), log)
  <2>1. DeriveRound(Whole(p), log).solved = AllFound(Whole(p), log)
    BY <1>2 DEF DeriveRound
  <2> QED
    BY <2>1, SliceReads
<1>4. ASSUME NEW h \in Holes
      PROVE  Best(Whole(p)[h], log) = 0 <=> \E i \in 1..Len(log) : Rank[t][h][log[i]] = 0
  <2>1. PICK hole : hole = Whole(p)[h]
    OBVIOUS
  <2>2. Readable(hole) /\ hole.start # 0 /\ hole.ranks = p.ranks[h]
    BY <1>2, <2>1, WholeTyped DEF SliceTyped
  <2>3. PICK b : b = Best(hole, log)
    OBVIOUS
  <2>4. Closest(b, hole, log)
    BY <2>2, <2>3, BestIsClosest
  <2>5. ASSUME b = 0
        PROVE  \E i \in 1..Len(log) : Rank[t][h][log[i]] = 0
    <3>1. PICK i \in DOMAIN log : log[i] \in DOMAIN hole.ranks /\ b = hole.ranks[log[i]]
      BY <2>2, <2>4, <2>5 DEF Closest
    <3> QED
      BY <1>1, <2>2, <2>5, <3>1
  <2>6. ASSUME NEW i \in 1..Len(log), Rank[t][h][log[i]] = 0
        PROVE  b = 0
    <3>1. log[i] \in DOMAIN hole.ranks /\ hole.ranks[log[i]] = 0 /\ i \in DOMAIN log
      BY <1>1, <2>2, <2>6
    <3>2. b \in 0..Farthest /\ b <= 0 /\ Farthest \in Nat
      BY <2>4, <3>1, LogarithmAssumption DEF Closest
    <3> QED
      BY <3>2
  <2> QED
    BY <2>1, <2>3, <2>5, <2>6
<1>5. AllFound(Whole(p), log) <=> \A h \in Holes : Best(Whole(p)[h], log) = 0
  BY <1>2 DEF AllFound
<1> QED
  BY <1>3, <1>4, <1>5 DEF Solves

=============================================================================
