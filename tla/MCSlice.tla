------------------------------- MODULE MCSlice -------------------------------
(***************************************************************************)
(* Every small sentence, and a log of guesses typed into it one at a time. *)
(* The first and the third hole hide the same secret; a rank map knows     *)
(* some of the slugs, and several slugs may be aliases of the secret.      *)
(***************************************************************************)
EXTENDS Replay

CONSTANTS sa, sb, sc

MCSlugs == {sa, sb, sc}

(* 100 ln n, rounded.                                                      *)
MCLn(n) == <<0, 69, 110, 139>>[n]

(* The maps of a secret: it is known at rank 0, the others at any rank or  *)
(* not at all.                                                             *)
Maps(secret) ==
    {m \in UNION {[known -> 0..Farthest] : known \in SUBSET MCSlugs} :
        secret \in DOMAIN m /\ m[secret] = 0}

Puzzles ==
    {[holes |-> <<[secret |-> sa, start |-> x], [secret |-> sb, start |-> y],
                  [secret |-> sa, start |-> x]>>,
      ranks |-> [s \in {sa, sb} |-> IF s = sa THEN m ELSE n]] :
        x, y \in 0..Farthest, m \in Maps(sa), n \in Maps(sb)}

=============================================================================
