-------------------------------- MODULE Replay --------------------------------
(***************************************************************************)
(* A sentence played guess by guess, and what both ends read off its log   *)
(* at every length: the server against the slice cut at the start hints    *)
(* (backend/src/slice.ts), the browser against the whole rank maps and     *)
(* with repeats left out (web/src/game/playLog.ts).                        *)
(***************************************************************************)
EXTENDS Slice

CONSTANTS
    Slugs,      \* folded words that can be typed
    Sentences,  \* the puzzles one may be served
    Farthest,   \* the farthest rank of any map
    MaxLog      \* bound: guesses in a log

VARIABLES
    sentence,   \* the puzzle of the day
    entered     \* its log: the guesses accepted so far, repeats included

played == <<sentence, entered>>

(* A sentence's holes carry a start hint each, and every secret has a rank *)
(* map that knows some of the slugs.                                       *)
ASSUME SentencesAssumption ==
    \A p \in Sentences :
        /\ Len(p.holes) \in Nat /\ DOMAIN p.holes = 1..Len(p.holes)
        /\ \A i \in DOMAIN p.holes : p.holes[i].start \in 0..Farthest
        /\ \A s \in Secrets(p) :
              \E known \in SUBSET Slugs : p.ranks[s] \in [known -> 0..Farthest]

(* Math.log is 0 at 1 and rises from one rank to the next.                 *)
ASSUME LogarithmAssumption ==
    /\ Farthest \in Nat
    /\ MaxLog \in Nat
    /\ Ln(1) = 0
    /\ \A n \in 1..(Farthest + 1) : Ln(n) \in Int
    /\ \A m, n \in 1..(Farthest + 1) : m < n => Ln(m) < Ln(n)

-----------------------------------------------------------------------------
ReplayInit == sentence \in Sentences /\ entered = <<>>

TypeSlug ==
    /\ Len(entered) < MaxLog
    /\ \E slug \in Slugs : entered' = Append(entered, slug)
    /\ UNCHANGED sentence

ReplaySpec == ReplayInit /\ [][TypeSlug]_played

-----------------------------------------------------------------------------
(* What the server derives: the log against the slice.                     *)
AgainstSlice(log) == DeriveRound(BuildSlice(sentence), log)

(* The same reading against the whole rank maps, never cut.                *)
AgainstMaps(log) ==
    DeriveRound([s \in Secrets(sentence) |->
        [start |-> StartOf(sentence, s), ranks |-> sentence.ranks[s]]], log)

(* The slice decides exactly what the full artifact would: buildSlice cuts *)
(* nothing that can move a hole or solve it.                               *)
SliceIsEnough == AgainstSlice(entered) = AgainstMaps(entered)

(* Replaying the distinct tries reproduces the board: no guess that moved  *)
(* or solved a hole is dropped as a repeat (scoring.ts, fr day 20667), and *)
(* the score counts exactly the guesses kept.                              *)
TriesReplayTheBoard ==
    LET tries == Projected(sentence, entered)
    IN  /\ AgainstSlice(tries) = AgainstSlice(entered)
        /\ CountTries(sentence, entered) = Len(tries)

Rises(was, is) ==
    /\ is.progress >= was.progress
    /\ was.solved => is.solved
    /\ is.progress = 100 <=> is.solved

(* Progress only ever rises as a log grows, a solve is never unmade, and a *)
(* solved derivation is exactly 100 and nothing else is: the monotone      *)
(* corrective write then refuses no solve.                                 *)
ProgressOnlyRises ==
    [][Rises(AgainstSlice(entered), AgainstSlice(entered'))]_played

=============================================================================
