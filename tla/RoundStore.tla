------------------------------ MODULE RoundStore ------------------------------
(***************************************************************************)
(* The round of one player for one daily in one language, on the server:   *)
(* the route POST /round (backend/src/rounds.ts) over the DynamoDB item    *)
(* (backend/src/dynamoRoundStore.ts), with the two rewards of a finished   *)
(* round, the score row and the streak day.                                *)
(*                                                                         *)
(* A request is a process.  Each call it makes to a store is one atomic    *)
(* step, and between two calls anything else may happen: requests of the   *)
(* player's other devices and tabs, a republished sentence, time.  A       *)
(* request may also stop for good between any two steps (a crashed or      *)
(* timed out Lambda): nothing obliges it to take the next one.             *)
(*                                                                         *)
(* Guesses are abstract; what the code derives from a log is read off the  *)
(* rank tables (module Slice).  An ABSENT item is the record of edition 0. *)
(* The attribute createdAt, which no decision reads, is left out.          *)
(***************************************************************************)
EXTENDS Integers, Sequences, FiniteSets, SequencesExt

CONSTANTS
    Requests,       \* request slots, each serves one request
    Guesses,        \* folded slugs
    Batches,        \* the batches of guesses clients send
    Holes,          \* the distinct secrets of a sentence
    MaxEdition,     \* bound: published revisions of the sentence
    MaxClock,       \* bound: instants
    MaxFaults,      \* bound: store calls that throw
    Cap,            \* ROUND_GUESS_CAP
    MinGap,         \* ROUND_WRITE_MIN_MS
    MaxAttempts,    \* tries of the corrective write (confirmWrite)
    Day,            \* the instants at which a solve of this daily is on time
    Rank,           \* Rank[edition][hole][guess], 0 for the secret
    Progress(_, _), \* Progress(edition, log): the reconstruction percentage
    Tries(_, _)     \* Tries(edition, log): the score, unique tries of a log

VARIABLES
    edition,   \* the revision the stored slice names
    artifact,  \* the revision the stored full artifact names
    clock,
    row,       \* the round item
    replica,   \* an older copy of it, served by eventually consistent reads
    score,     \* the player's score row of the day, edition 0 when absent
    streak,    \* whether the day is in the player's solved-day collection
    req,       \* the requests
    faults     \* store calls that threw so far

vars == <<edition, artifact, clock, row, replica, score, streak, req, faults>>

Editions == 1..MaxEdition

Logs == Seq(Guesses)

ASSUME BoundsAssumption ==
    /\ MaxEdition \in Nat \ {0}
    /\ MaxClock \in Nat
    /\ MaxFaults \in Nat
    /\ Cap \in Nat \ {0}
    /\ MinGap \in Nat
    /\ MaxAttempts \in Nat \ {0}

(* A batch is a well-formed request body: not empty, at most the cap.      *)
ASSUME BatchAssumption ==
    \A b \in Batches : b \in Logs /\ Len(b) \in 1..Cap

ASSUME RankAssumption == Rank \in [Editions -> [Holes -> [Guesses -> Nat]]]

LogsUpTo(n) == UNION {[1..k -> Guesses] : k \in 0..n}

(* A snapshot is at most a full log, and a batch at most the cap.          *)
ASSUME ScoringAssumption ==
    \A t \in Editions : \A l \in LogsUpTo(2 * Cap) :
        Progress(t, l) \in Nat /\ Tries(t, l) \in Nat

(* deriveRound reads the closest rank each hole ever got, so a log that    *)
(* holds every guess of another is derived to at least as much.            *)
ASSUME MonotoneAssumption ==
    \A t \in Editions : \A l, m \in LogsUpTo(Cap) :
        (\A i \in 1..Len(l) : \E j \in 1..Len(m) : l[i] = m[j]) =>
            Progress(t, l) <= Progress(t, m)

-----------------------------------------------------------------------------
(* deriveRound.  Solved: every hole has a guess at rank 0.                 *)
Solves(t, log) == \A h \in Holes : \E i \in 1..Len(log) : Rank[t][h][log[i]] = 0

Absent == [puzzle |-> 0, log |-> <<>>, last |-> 0, progress |-> 0,
           solved |-> FALSE, gaveUp |-> FALSE, version |-> 0]

NoScore == [edition |-> 0, tries |-> 0]

Pcs == {"idle", "read", "confirm", "write", "classify", "restart", "settle",
        "reward", "giveUp", "judge", "done"}

Rewards == {"credit", "load", "submit", "replace"}

Answers == {"none", "appended", "solved", "given_up", "too_fast", "round_full",
            "round_solved", "round_given_up", "puzzle_changed", "not_found",
            "forbidden", "failed"}

(* What a request holds in memory: its body (tag, batch), the instant it   *)
(* arrived at, the stored log it saw before writing, and the state its     *)
(* accepted append was answered with (log, progress, solved).              *)
Idle == [pc |-> "idle", tag |-> 0, batch |-> <<>>, now |-> 0, seen |-> <<>>,
         log |-> <<>>, progress |-> 0, solved |-> FALSE, attempts |-> 0,
         owed |-> {}, answer |-> "none"]

Items ==
    [puzzle : 0..MaxEdition, log : Logs, last : 0..MaxClock, progress : Nat,
     solved : BOOLEAN, gaveUp : BOOLEAN, version : Nat]

RequestStates ==
    [pc : Pcs, tag : 0..MaxEdition, batch : Logs, now : 0..MaxClock,
     seen : Logs, log : Logs, progress : Nat, solved : BOOLEAN,
     attempts : 0..MaxAttempts, owed : SUBSET Rewards, answer : Answers]

(* The item, its older copy, the rewards and every request's memory are of *)
(* the shapes the code gives them, and an absent item is the empty record  *)
(* (dynamoRoundStore.ts, itemToState and empty).                           *)
TypeOK ==
    /\ edition \in Editions
    /\ artifact \in Editions
    /\ clock \in 0..MaxClock
    /\ row \in Items /\ (row.puzzle = 0 => row = Absent)
    /\ replica \in Items /\ (replica.puzzle = 0 => replica = Absent)
    /\ score \in [edition : 0..MaxEdition, tries : Nat]
    /\ streak \in BOOLEAN
    /\ req \in [Requests -> RequestStates]
    /\ faults \in 0..MaxFaults

Init ==
    /\ edition = 1
    /\ artifact = 1
    /\ clock = 0
    /\ row = Absent
    /\ replica = Absent
    /\ score = NoScore
    /\ streak = FALSE
    /\ req = [r \in Requests |-> Idle]
    /\ faults = 0

-----------------------------------------------------------------------------
(* The request's answer goes out.  What it claimed stays visible.          *)
Answered(q, a) ==
    [Idle EXCEPT !.pc = "done", !.tag = q.tag, !.log = q.log, !.answer = a]

Answer(r, a) == req' = [req EXCEPT ![r] = Answered(@, a)]

storeVars == <<edition, artifact, clock, row, replica, score, streak, faults>>

(* A POST arrives.  Its derivation slice is read fresh, and a caller on    *)
(* another revision is refused before anything is stored.  The client      *)
(* learned its tag from a published artifact, which the slice precedes:    *)
(* a tag the slice still names when it is read was already named when the  *)
(* request arrived, so arrival and slice read are one step.                *)
Begin(r) ==
    /\ req[r].pc = "idle"
    /\ \E t \in 1..artifact :
        \/ /\ t # edition
           /\ req' = [req EXCEPT ![r] =
                Answered([@ EXCEPT !.tag = t], "puzzle_changed")]
        \/ /\ t = edition
           /\ \/ \E b \in Batches :
                   req' = [req EXCEPT ![r] = [@ EXCEPT
                       !.pc = "read", !.tag = t, !.batch = b, !.now = clock]]
              \/ req' = [req EXCEPT ![r] = [@ EXCEPT
                       !.pc = "giveUp", !.tag = t, !.now = clock]]
    /\ UNCHANGED storeVars

(* RoundStore.get: a record of another puzzle is "nothing stored".         *)
StoredLog(item, t) == IF item.puzzle = t THEN item.log ELSE <<>>

(* The pre-write read is eventually consistent: either copy may answer.    *)
Read(r) ==
    /\ req[r].pc = "read"
    /\ \E item \in {row, replica} :
        req' = [req EXCEPT ![r] = [@ EXCEPT
            !.pc = IF item.puzzle = req[r].tag THEN "write" ELSE "confirm",
            !.seen = StoredLog(item, req[r].tag)]]
    /\ UNCHANGED storeVars

(* "Nothing stored" is confirmed by a consistent read before a challenge   *)
(* is demanded; without a passed challenge the request creates nothing.    *)
Confirm(r) ==
    /\ req[r].pc = "confirm"
    /\ \/ /\ row.puzzle = req[r].tag
          /\ req' = [req EXCEPT ![r] = [@ EXCEPT !.pc = "write", !.seen = row.log]]
       \/ /\ row.puzzle # req[r].tag
          /\ \/ req' = [req EXCEPT ![r].pc = "write"]
             \/ Answer(r, "forbidden")
    /\ UNCHANGED storeVars

(* What the caller can see: the stored log it read, and its own batch.     *)
Derived(q) == q.seen \o q.batch

(* The write interval, against the instant the request arrived.            *)
Paced(q) == row.puzzle = 0 \/ row.last < q.now - MinGap

(* The append's ConditionExpression.                                       *)
AppendAllowed(q) ==
    /\ Paced(q)
    /\ row.puzzle # 0 => row.puzzle = q.tag /\ Len(row.log) <= Cap - Len(q.batch)
    /\ ~row.solved /\ ~row.gaveUp

(* ON TIME: one check, before either reward.  A finished round answers     *)
(* with its solve once the rewards it earned have been tried.              *)
Finished(q) ==
    IF ~(q.solved /\ Solves(q.tag, q.log)) THEN Answered(q, "appended")
    ELSE IF q.now \in Day THEN [q EXCEPT !.pc = "reward", !.owed = {"credit", "load"}]
    ELSE Answered(q, "solved")

(* Mutant: the answer claims a solve the row never took.                   *)
Unconfirmed_Claims(q) == Finished([q EXCEPT !.solved = TRUE])

(* The corrective write did not land: the answer carries the state as      *)
(* stored, and only a stored solve is claimed.                             *)
Unconfirmed(q) == Finished(q)

(* Mutant: the route verifies against what it derived, not what came back. *)
NeedsSettle_Derived(q) ==
    \/ Progress(q.tag, Derived(q)) # q.progress
    \/ Solves(q.tag, Derived(q)) /\ ~q.solved

(* The verification of the returned log: does the summary written beside   *)
(* it, derived from an older snapshot, still describe it?                  *)
NeedsSettle(q) ==
    \/ Progress(q.tag, q.log) # q.progress
    \/ Solves(q.tag, q.log) /\ ~q.solved

(* An accepted write answers with the whole new item (ALL_NEW).            *)
Accepted(q, item) ==
    LET p == [q EXCEPT !.log = item.log, !.progress = item.progress, !.solved = item.solved]
    IN  IF NeedsSettle(p) THEN [p EXCEPT !.pc = "settle"] ELSE Finished(p)

Write(r, item) ==
    /\ row' = item
    /\ req' = [req EXCEPT ![r] = Accepted(@, item)]

(* What the append and the restart write, from a snapshot that may be old. *)
Derivation(q, log) ==
    [puzzle |-> q.tag, log |-> log, last |-> q.now,
     progress |-> Progress(q.tag, Derived(q)), solved |-> Solves(q.tag, Derived(q)),
     gaveUp |-> FALSE, version |-> row.version + 1]

Appended(q) == Derivation(q, row.log \o q.batch)

(* The append: ONE conditional update.                                     *)
AppendBatch(r) ==
    /\ req[r].pc = "write"
    /\ LET q == req[r] IN
        \/ /\ AppendAllowed(q)
           /\ Write(r, Appended(q))
        \/ /\ ~AppendAllowed(q)
           /\ req' = [req EXCEPT ![r].pc = "classify"]
           /\ UNCHANGED row
    /\ UNCHANGED <<edition, artifact, clock, replica, score, streak, faults>>

(* The order the refusals are told in.                                     *)
Refusal(q) ==
    CASE row.solved -> "round_solved"
      [] row.gaveUp /\ ~row.solved -> "round_given_up"
      [] OTHER -> IF Len(row.log) + Len(q.batch) > Cap THEN "round_full" ELSE "too_fast"

(* Mutant: a restart that does not look at the write interval.             *)
RestartAllowed_Unpaced(q) == row.puzzle # q.tag

(* Only a record still naming another puzzle may be replaced.              *)
RestartAllowed(q) == row.puzzle # q.tag /\ Paced(q)

(* The refused append is classified by a second, consistent read.          *)
Classify(r) ==
    /\ req[r].pc = "classify"
    /\ LET q == req[r] IN
        IF row.puzzle = q.tag THEN Answer(r, Refusal(q))
        ELSE IF RestartAllowed(q) THEN req' = [req EXCEPT ![r].pc = "restart"]
        ELSE Answer(r, "too_fast")
    /\ UNCHANGED storeVars

(* The batch replaces the retired log, its solve and its give-up.          *)
Restarted(q) == Derivation(q, q.batch)

(* The restart.  Losing the race for it is answered as a rate refusal.     *)
Restart(r) ==
    /\ req[r].pc = "restart"
    /\ LET q == req[r] IN
        \/ /\ RestartAllowed(q)
           /\ Write(r, Restarted(q))
        \/ /\ ~RestartAllowed(q)
           /\ Answer(r, "too_fast")
           /\ UNCHANGED row
    /\ UNCHANGED <<edition, artifact, clock, replica, score, streak, faults>>

-----------------------------------------------------------------------------
(* Mutant: a corrective write that may lower the summary.                  *)
SettleAllowed_Lowering(q) == row.puzzle = q.tag

(* The corrective write's condition: this puzzle, and never downwards.     *)
SettleAllowed(q) == row.puzzle = q.tag /\ row.progress <= Progress(q.tag, q.log)

Settled(q) ==
    [row EXCEPT !.progress = Progress(q.tag, q.log),
                !.solved = @ \/ Solves(q.tag, q.log),
                !.version = @ + 1]

(* The corrective write landed: the answer may say what was derived.       *)
Confirmed(q) ==
    [q EXCEPT !.progress = Progress(q.tag, q.log),
              !.solved = @ \/ Solves(q.tag, q.log)]

TriedAgain(q) ==
    IF q.attempts + 1 < MaxAttempts THEN [q EXCEPT !.attempts = @ + 1] ELSE Unconfirmed(q)

(* One try of the corrective write that answered.  Refused is a verdict.   *)
Settle(r) ==
    /\ req[r].pc = "settle"
    /\ LET q == req[r] IN
        \/ /\ SettleAllowed(q)
           /\ row' = Settled(q)
           /\ req' = [req EXCEPT ![r] = Finished(Confirmed(q))]
        \/ /\ ~SettleAllowed(q)
           /\ req' = [req EXCEPT ![r] = Unconfirmed(q)]
           /\ UNCHANGED row
    /\ UNCHANGED <<edition, artifact, clock, replica, score, streak, faults>>

(* One try that threw, applied or not: retried, MaxAttempts times in all.  *)
SettleThrows(r) ==
    /\ req[r].pc = "settle"
    /\ faults < MaxFaults
    /\ faults' = faults + 1
    /\ LET q == req[r] IN
        /\ \/ UNCHANGED row
           \/ SettleAllowed(q) /\ row' = Settled(q)
        /\ req' = [req EXCEPT ![r] = TriedAgain(q)]
    /\ UNCHANGED <<edition, artifact, clock, replica, score, streak>>

-----------------------------------------------------------------------------
(* The rewards run in parallel and swallow their own failures; the answer  *)
(* waits for both.                                                         *)
After(q, step, next) ==
    LET owed == (q.owed \ {step}) \cup next
    IN  IF owed = {} THEN Answered(q, "solved") ELSE [q EXCEPT !.owed = owed]

Rewarding(r, step, next) ==
    /\ req[r].pc = "reward"
    /\ step \in req[r].owed
    /\ req' = [req EXCEPT ![r] = After(@, step, next)]

(* creditSolvedDay: the day joins the solved-day set.                      *)
Credit(r) ==
    /\ Rewarding(r, "credit", {})
    /\ streak' = TRUE
    /\ UNCHANGED <<edition, artifact, clock, row, replica, score, faults>>

(* loadPuzzle: the artifact of the round's own revision, fresh from the    *)
(* store or held by a warm Lambda; of another revision, no score.          *)
LoadArtifact(r) ==
    /\ \/ artifact >= req[r].tag /\ Rewarding(r, "load", {"submit"})
       \/ artifact # req[r].tag /\ Rewarding(r, "load", {})
    /\ UNCHANGED storeVars

ScoreOf(q) == [edition |-> q.tag, tries |-> Tries(q.tag, q.log)]

(* The create-only transaction.  The hashed address may have spent its     *)
(* allowance (capped); a row of another revision goes on to replacement.   *)
Submit(r) ==
    /\ \/ /\ score.edition = 0
          /\ Rewarding(r, "submit", {})
          /\ score' \in {score, ScoreOf(req[r])}
       \/ /\ score.edition = req[r].tag
          /\ Rewarding(r, "submit", {})
          /\ UNCHANGED score
       \/ /\ score.edition \notin {0, req[r].tag}
          /\ Rewarding(r, "submit", {"replace"})
          /\ UNCHANGED score
    /\ UNCHANGED <<edition, artifact, clock, row, replica, streak, faults>>

ReplaceAllowed(q) == score.edition # q.tag

ReplaceScore(r) ==
    /\ Rewarding(r, "replace", {})
    /\ IF ReplaceAllowed(req[r]) THEN score' = ScoreOf(req[r]) ELSE UNCHANGED score
    /\ UNCHANGED <<edition, artifact, clock, row, replica, streak, faults>>

(* A reward's store call throws: logged, and the answer goes out without.  *)
(* What the call wrote may have been applied all the same.                 *)
RewardThrows(r) ==
    /\ faults < MaxFaults
    /\ faults' = faults + 1
    /\ \E step \in Rewards :
        /\ Rewarding(r, step, {})
        /\ \/ UNCHANGED <<score, streak>>
           \/ step = "credit" /\ streak' = TRUE /\ UNCHANGED score
           \/ /\ \/ step = "submit" /\ score.edition = 0
                 \/ step = "replace" /\ ReplaceAllowed(req[r])
              /\ score' = ScoreOf(req[r])
              /\ UNCHANGED streak
    /\ UNCHANGED <<edition, artifact, clock, row, replica>>

-----------------------------------------------------------------------------
(* Mutant: the give-up does not look at the solve.                         *)
GiveUpAllowed_Solved(q) == row.puzzle = q.tag

(* The give-up's ConditionExpression: this puzzle's record, not solved.    *)
GiveUpAllowed(q) == row.puzzle = q.tag /\ ~row.solved

GivenUp == [row EXCEPT !.gaveUp = TRUE, !.version = @ + 1]

GiveUp(r) ==
    /\ req[r].pc = "giveUp"
    /\ \/ /\ GiveUpAllowed(req[r])
          /\ row' = GivenUp
          /\ Answer(r, "given_up")
       \/ /\ ~GiveUpAllowed(req[r])
          /\ req' = [req EXCEPT ![r].pc = "judge"]
          /\ UNCHANGED row
    /\ UNCHANGED <<edition, artifact, clock, replica, score, streak, faults>>

(* The refused give-up is classified by a second, consistent read.         *)
Judge(r) ==
    /\ req[r].pc = "judge"
    /\ Answer(r, IF row.puzzle = req[r].tag /\ row.solved
                 THEN "round_solved" ELSE "not_found")
    /\ UNCHANGED storeVars

(* Any other store call throws: a 500.                                     *)
Fail(r) ==
    /\ req[r].pc \in {"read", "confirm", "write", "classify", "restart", "giveUp", "judge"}
    /\ faults < MaxFaults
    /\ faults' = faults + 1
    /\ Answer(r, "failed")
    /\ UNCHANGED <<edition, artifact, clock, row, replica, score, streak>>

(* A write of the item is applied and its answer is lost.  The SDK repeats *)
(* the call: an append and a restart are then refused by what they wrote   *)
(* themselves, and the request never learns of its own write.              *)
LostAnswer(r) ==
    /\ faults < MaxFaults
    /\ faults' = faults + 1
    /\ LET q == req[r] IN
        \/ /\ q.pc = "write" /\ AppendAllowed(q)
           /\ row' = Appended(q)
           /\ req' = [req EXCEPT ![r].pc = "classify"]
        \/ /\ q.pc = "restart" /\ RestartAllowed(q)
           /\ row' = Restarted(q)
           /\ Answer(r, "too_fast")
        \/ /\ q.pc = "giveUp" /\ GiveUpAllowed(q)
           /\ row' = GivenUp
           /\ Answer(r, "failed")
    /\ UNCHANGED <<edition, artifact, clock, replica, score, streak>>

-----------------------------------------------------------------------------
Tick ==
    /\ clock < MaxClock
    /\ clock' = clock + 1
    /\ UNCHANGED <<edition, artifact, row, replica, score, streak, req, faults>>

(* A correction is published: the slice first, then the full artifact.     *)
(* A revision is a hash of the content, so a correction names a new one.   *)
PublishSlice ==
    /\ edition = artifact
    /\ edition < MaxEdition
    /\ edition' = edition + 1
    /\ UNCHANGED <<artifact, clock, row, replica, score, streak, req, faults>>

PublishArtifact ==
    /\ artifact # edition
    /\ artifact' = edition
    /\ UNCHANGED <<edition, clock, row, replica, score, streak, req, faults>>

Replicate ==
    /\ replica # row
    /\ replica' = row
    /\ UNCHANGED <<edition, artifact, clock, row, score, streak, req, faults>>

Step(r) ==
    \/ Read(r) \/ Confirm(r) \/ AppendBatch(r) \/ Classify(r) \/ Restart(r)
    \/ Settle(r)
    \/ Credit(r) \/ LoadArtifact(r) \/ Submit(r) \/ ReplaceScore(r)
    \/ GiveUp(r) \/ Judge(r)

Throw(r) == SettleThrows(r) \/ RewardThrows(r) \/ Fail(r) \/ LostAnswer(r)

Environment == Tick \/ PublishSlice \/ PublishArtifact \/ Replicate

Next ==
    \/ \E r \in Requests : Begin(r) \/ Step(r) \/ Throw(r)
    \/ Environment

Spec == Init /\ [][Next]_vars

(* A request that owes the corrective write and is not cut off takes it;   *)
(* of every other step nothing is assumed.                                 *)
FairSpec == Spec /\ \A r \in Requests : WF_vars(Settle(r))

-----------------------------------------------------------------------------
(* The stored solve is never more than the log holds, whatever snapshot    *)
(* the append that wrote it was derived from (rounds.ts, deriveRound over  *)
(* a stale read) and however late a corrective write lands.                *)
SolveIsReal == row.solved => Solves(row.puzzle, row.log)

(* The union of two racing batches is not lost: once no corrective write   *)
(* is under way, and none was cut short by a fault, the summary stored     *)
(* beside the log (calendar, boards) is exactly what the log derives to.   *)
SummarySettles ==
    (/\ faults = 0
     /\ row.puzzle # 0
     /\ \A r \in Requests : req[r].pc # "settle")
    => /\ row.progress = Progress(row.puzzle, row.log)
       /\ row.solved <=> Solves(row.puzzle, row.log)

(* A guess whose append was answered as accepted stays in the log, in its  *)
(* place, for as long as its sentence is the published one.                *)
AcknowledgedKept ==
    \A r \in Requests :
        req[r].answer \in {"appended", "solved"} =>
            \/ row.puzzle > req[r].tag
            \/ row.puzzle = req[r].tag /\ IsPrefix(req[r].log, row.log)

(* An answer that says solved, on which the client celebrates and stops,   *)
(* is never ahead of the stored row (settleAppend's corrected bug).        *)
SolveAnswerIsDurable ==
    \A r \in Requests :
        req[r].answer = "solved" => (row.puzzle = req[r].tag => row.solved)

(* The rewards agree with the round row: a score row of the row's own      *)
(* revision counts the tries of a log that solved it and is still in the   *)
(* row, and neither reward exists without a stored solve.                  *)
RewardsAreEarned ==
    /\ score.edition # 0 =>
        \/ row.puzzle > score.edition
        \/ /\ row.puzzle = score.edition
           /\ row.solved
           /\ \E n \in 1..Len(row.log) :
                /\ Solves(row.puzzle, SubSeq(row.log, 1, n))
                /\ score.tries = Tries(row.puzzle, SubSeq(row.log, 1, n))
    /\ streak => row.puzzle > 1 \/ (row.puzzle = 1 /\ row.solved)

(* No interleaving of appends and restarts takes a log past the cap.       *)
CapRespected == Len(row.log) <= Cap

(* Within one edition the log is append-only, and once the round is solved *)
(* or given up it no longer moves and neither flag is taken back.          *)
LogOnlyGrows ==
    [][row'.puzzle = row.puzzle =>
        /\ IsPrefix(row.log, row'.log)
        /\ row.solved => row'.solved
        /\ row.gaveUp => row'.gaveUp
        /\ row.solved \/ row.gaveUp => row'.log = row.log]_row

(* A request still in flight from before a republish never takes the row   *)
(* back to the retired sentence: the slice check is stale by the time it   *)
(* writes, and the write interval is what refuses it.                      *)
NeverBackToRetired == [][row'.puzzle >= row.puzzle]_row

(* The version witnesses every change of the item, which is all the        *)
(* adoption transaction compares when it moves a round (planRoundMove).    *)
VersionMoves == [][row'.version > row.version]_row

(* The item is a refinement of the contract every reader relies on.        *)
Contract == INSTANCE RoundContract WITH
    round <- [puzzle |-> row.puzzle, log |-> row.log,
              solved |-> row.solved, gaveUp |-> row.gaveUp]

ImplementsContract == Contract!Spec

(* A log that solves the sentence is eventually stored as solved, unless   *)
(* a correction replaced it first: the corrective write is the last chance *)
(* (no later append comes), and it is taken.                               *)
SolveIsRecorded ==
    \A t \in Editions :
        (row.puzzle = t /\ Solves(t, row.log)) ~> (row.solved \/ row.puzzle # t)

=============================================================================
