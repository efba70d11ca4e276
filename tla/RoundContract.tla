---------------------------- MODULE RoundContract ----------------------------
(***************************************************************************)
(* What the round record of one player, for one daily in one language,     *)
(* promises its readers: the calendar, the boards, and every open tab      *)
(* that adopts the answer of a write.  It is the contract stated by        *)
(* backend/src/roundStore.ts and met by the in-memory reference store      *)
(* backend/src/memoryRoundStore.ts: every operation is one step, nobody    *)
(* reads anything stale, and the pacing of the writes, their summaries and *)
(* their versions are left out.                                            *)
(*                                                                         *)
(* RoundStore is the detailed description: the route's separate reads and  *)
(* writes over a DynamoDB item.  It is shown to implement this one.        *)
(***************************************************************************)
EXTENDS Integers, Sequences, SequencesExt

CONSTANTS
    Batches,     \* the batches of guesses a client may send (non-empty)
    Holes,       \* the distinct secrets of a sentence
    MaxEdition,  \* how many times the sentence is published
    Cap,         \* ROUND_GUESS_CAP
    Rank         \* Rank[edition][hole][guess]: 0 is the secret itself

VARIABLE round

Editions == 1..MaxEdition

Record(puzzle, log, solved, gaveUp) ==
    [puzzle |-> puzzle, log |-> log, solved |-> solved, gaveUp |-> gaveUp]

(* A record naming edition 0 is the absence of a record.                   *)
NoRound == Record(0, <<>>, FALSE, FALSE)

(* The sentence is solved by a log when every hole has a guess at rank 0.  *)
Solves(t, log) == \A h \in Holes : \E i \in 1..Len(log) : Rank[t][h][log[i]] = 0

Init == round = NoRound

(* The first write of an edition creates the record, or replaces the       *)
(* record of an OLDER edition with its log, its solve and its give-up.     *)
Start(t, b) ==
    /\ round.puzzle < t
    /\ Len(b) <= Cap
    /\ \E s \in BOOLEAN :
        /\ s => Solves(t, b)
        /\ round' = Record(t, b, s, FALSE)

(* A batch joins the end of the log of a round that has not ended.         *)
Accept(b) ==
    /\ round.puzzle # 0
    /\ ~round.solved /\ ~round.gaveUp
    /\ Len(round.log) + Len(b) <= Cap
    /\ \E s \in BOOLEAN :
        /\ s => Solves(round.puzzle, round.log \o b)
        /\ round' = Record(round.puzzle, round.log \o b, s, FALSE)

(* The solve is recorded after the batch that completed it.                *)
RecordSolve ==
    /\ round.puzzle # 0
    /\ Solves(round.puzzle, round.log)
    /\ round' = Record(round.puzzle, round.log, TRUE, round.gaveUp)

(* Giving up never overrides a recorded solve.                             *)
GiveUp ==
    /\ round.puzzle # 0
    /\ ~round.solved
    /\ round' = Record(round.puzzle, round.log, FALSE, TRUE)

Next ==
    \/ \E t \in Editions, b \in Batches : Start(t, b)
    \/ \E b \in Batches : Accept(b)
    \/ RecordSolve
    \/ GiveUp

Spec == Init /\ [][Next]_round

=============================================================================
