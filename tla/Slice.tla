-------------------------------- MODULE Slice --------------------------------
(***************************************************************************)
(* What a sentence's guess log means: backend/src/slice.ts (the derivation *)
(* slice a publish writes beside the full artifact, and the reading of a   *)
(* stored log against it) and shared/src/scoring.ts (progress, the         *)
(* identity of a try, the score).                                          *)
(*                                                                         *)
(* A puzzle is [holes, ranks]: holes is a sequence of [secret, start], one *)
(* per hole of the sentence, and ranks maps a secret to its rank map, a    *)
(* function from the slugs it knows to their ranks (0: the secret).        *)
(***************************************************************************)
EXTENDS Integers, Sequences, FiniteSets, SequencesExt

CONSTANT Ln(_)  \* an increasing integer table standing for Math.log, Ln(1) = 0

Secrets(puzzle) == {puzzle.holes[i].secret : i \in DOMAIN puzzle.holes}

(* Repeated occurrences of a secret share the entry of the first one.      *)
StartOf(puzzle, secret) ==
    puzzle.holes[Min({i \in DOMAIN puzzle.holes : puzzle.holes[i].secret = secret})].start

(* Mutant: the secret's own group, rank 0, is cut too.                     *)
Kept_FromOne(full, start) == {slug \in DOMAIN full : full[slug] \in 1..start}

(* The slugs that can still move a hole off its start hint.                *)
Kept(full, start) == {slug \in DOMAIN full : full[slug] <= start}

(* buildSlice: one entry per secret, its map cut at the start hint.        *)
BuildSlice(puzzle) ==
    [secret \in Secrets(puzzle) |->
        LET full == puzzle.ranks[secret]
            start == StartOf(puzzle, secret)
        IN  [start |-> start, ranks |-> [slug \in Kept(full, start) |-> full[slug]]]]

(* Mutant: a later, farther guess takes the hole back.                     *)
Best_Latest(hole, log) ==
    LET known == {j \in DOMAIN log : log[j] \in DOMAIN hole.ranks}
    IN  IF known = {} THEN hole.start ELSE hole.ranks[log[Max(known)]]

(* The closest rank a log reached in one hole, from its start hint on.     *)
Best(hole, log) ==
    Min({hole.start} \cup
        {hole.ranks[log[i]] : i \in {j \in DOMAIN log : log[j] \in DOMAIN hole.ranks}})

(* holeProgress, in percent.  The map size N cancels out of the quotient   *)
(* (s(rank) - s(start)) / (1 - s(start)) = 1 - ln(rank+1) / ln(start+1).   *)
HoleProgress(rank, start) ==
    IF start = 0 THEN (IF rank = 0 THEN 100 ELSE 0)
    ELSE (100 * (Ln(start + 1) - Ln(rank + 1))) \div Ln(start + 1)

AllFound(slice, log) == \A s \in DOMAIN slice : Best(slice[s], log) = 0

(* What each unique secret adds, in the order the slice lists them.        *)
HoleShares(slice, log) ==
    LET secrets == SetToSeq(DOMAIN slice)
    IN  [k \in DOMAIN secrets |->
            HoleProgress(Best(slice[secrets[k]], log), slice[secrets[k]].start)]

Total(shares) ==
    LET sum[k \in 0..Len(shares)] == IF k = 0 THEN 0 ELSE sum[k - 1] + shares[k]
    IN  sum[Len(shares)]

(* deriveRound: the average over the unique secrets, and the solve.        *)
DeriveRound(slice, log) ==
    IF DOMAIN slice = {} THEN [progress |-> 0, solved |-> FALSE]
    ELSE [progress |-> Total(HoleShares(slice, log)) \div Cardinality(DOMAIN slice),
          solved |-> AllFound(slice, log)]

Outcome(puzzle, slug) ==
    [s \in Secrets(puzzle) |->
        IF slug \in DOMAIN puzzle.ranks[s] THEN puzzle.ranks[s][slug] ELSE -1]

(* Mutant: the identity anchored on the first map that knows the guess.    *)
GuessKey_FirstMap(puzzle, slug) ==
    LET outcome == Outcome(puzzle, slug)
        known == {i \in DOMAIN puzzle.holes : outcome[puzzle.holes[i].secret] >= 0}
    IN  IF known = {} THEN <<"typed", slug>>
        ELSE <<"resolved", puzzle.holes[Min(known)].secret,
               outcome[puzzle.holes[Min(known)].secret]>>

(* guessKey: the guess's rank in every map, or the slug no map knows.      *)
GuessKey(puzzle, slug) ==
    LET outcome == Outcome(puzzle, slug)
    IN  IF \A s \in DOMAIN outcome : outcome[s] = -1
        THEN <<"typed", slug>> ELSE <<"resolved", outcome>>

(* countTries: the sentence score, how many distinct tries a log holds.    *)
CountTries(puzzle, log) == Cardinality({GuessKey(puzzle, log[i]) : i \in DOMAIN log})

(* projectPlayLog: the log without the guesses whose identity it already   *)
(* holds, as the client keeps its tries.                                   *)
Projected(puzzle, log) ==
    LET kept[n \in 0..Len(log)] ==
            IF n = 0 THEN <<>>
            ELSE IF \E i \in DOMAIN kept[n - 1] :
                        GuessKey(puzzle, kept[n - 1][i]) = GuessKey(puzzle, log[n])
            THEN kept[n - 1] ELSE Append(kept[n - 1], log[n])
    IN  kept[Len(log)]

=============================================================================
