----------------------------- MODULE MCRoundStore -----------------------------
(***************************************************************************)
(* Instances of RoundStore for TLC: the requests of a player's devices     *)
(* over a sentence of two holes.  One guess opens one hole and the other   *)
(* guess the other, so that each of two racing batches is half of a solve; *)
(* the third guess only moves the first hole.                              *)
(***************************************************************************)
EXTENDS RoundStore, TLC

CONSTANTS ga, gb, gx, h1, h2, r1, r2, r3

MCGuesses == {ga, gb, gx}
MCHoles == {h1, h2}
MCRequests == {r1, r2, r3}
MCPair == {r1, r2}

(* Halves of a solve, a whole one, and wasted guesses to fill the log;     *)
(* single guesses alone where three requests race.                         *)
MCBatches == {<<ga>>, <<gb>>, <<gx, gx>>, <<ga, gb>>}
MCSingles == {<<ga>>, <<gb>>, <<gx>>}

(* A correction keeps the two secrets and swaps which guess opens which    *)
(* hole.                                                                   *)
MCRankMap(t, h) ==
    IF h = h1 THEN ga :> (IF t = 1 THEN 0 ELSE 3) @@ gb :> (IF t = 1 THEN 3 ELSE 0) @@ gx :> 1
              ELSE ga :> (IF t = 1 THEN 3 ELSE 0) @@ gb :> (IF t = 1 THEN 0 ELSE 3) @@ gx :> 3

MCRank == [t \in Editions |-> [h \in MCHoles |-> [g \in MCGuesses |-> MCRankMap(t, h)[g]]]]

(* 100 Ln n, rounded: an integer logarithm is all the percentages need.    *)
MCLn(n) == <<0, 69, 110, 139>>[n]

S == INSTANCE Slice WITH Ln <- MCLn

MCPuzzle(t) ==
    [holes |-> <<[secret |-> h1, start |-> 2], [secret |-> h2, start |-> 2]>>,
     ranks |-> MCRank[t]]

(* Tables, so that TLC derives each log once; the comparison below is what *)
(* makes it build them.                                                    *)
MCDerived ==
    [t \in Editions |-> [l \in UNION {[1..k -> MCGuesses] : k \in 0..(2 * Cap)} |->
        [round |-> S!DeriveRound(S!BuildSlice(MCPuzzle(t)), l),
         tries |-> S!CountTries(MCPuzzle(t), l)]]]

ASSUME \A t \in Editions : MCDerived[t] = [l \in DOMAIN MCDerived[t] |-> MCDerived[t][l]]

MCProgress(t, log) == MCDerived[t][log].round.progress
MCTries(t, log) == MCDerived[t][log].tries

(* The two readings of a log agree: the slice's solve and the rank table's. *)
ASSUME \A t \in Editions : \A l \in LogsUpTo(Cap) :
    Solves(t, l) <=> MCDerived[t][l].round.solved

Symmetric == Permutations(Requests)

=============================================================================
