----------------------------- MODULE MCRoundSync -----------------------------
(* RoundSync on small instances: each start names a few tabs and what the  *)
(* environment and the player may still spend.                             *)
EXTENDS RoundSync, TLC

CONSTANTS t1, t2, a1, a2, ga, gb, gc

(* ga and gb open a hole each, gc is another surface of ga's group.        *)
MCKey == (ga :> 1) @@ (gb :> 2) @@ (gc :> 1)
MCGoal == {1, 2}

Frugal == [types |-> 0, gives |-> 0, visits |-> 0, faults |-> 0, delays |-> 0,
           editions |-> 0, moves |-> 0, devices |-> 0]

NoRows == (a1 :> NoRow) @@ (a2 :> NoRow)
Held(log) == [NoRows EXCEPT ![a1] = [edition |-> 1, log |-> log, solved |-> FALSE, gaveUp |-> FALSE]]

(* What is stored was typed once, in a tab of the same browser.            *)
Typed(r) ==
    {[tab |-> t1, who |-> a, device |-> 1, edition |-> r[a].edition, guess |-> g] :
        a \in {x \in {a1, a2} : r[x] # NoRow}, g \in {x \in {ga, gb, gc} : \E i \in DOMAIN r[a1].log : r[a1].log[i] = x}}

Start(r, p, q, s) ==
    [row |-> r, typed |-> Typed(r), who |-> (t1 :> p) @@ (t2 :> q), on |-> (t1 :> TRUE) @@ (t2 :> (q # None)), spare |-> s]

Alone(r, s) == Start(r, a1, None, s)
Pair(r, s) == Start(r, a1, a1, s)

MCStarts ==
    {Alone(NoRows, [Frugal EXCEPT !.types = 2, !.faults = 2, !.gives = 1]),
     Alone(NoRows, [Frugal EXCEPT !.types = 3, !.faults = 1]),
     Alone(Held(<<ga>>), [Frugal EXCEPT !.types = 1, !.faults = 2, !.gives = 2]),
     Alone(NoRows, [Frugal EXCEPT !.types = 1, !.faults = 1, !.visits = 1, !.editions = 1, !.gives = 1]),
     Alone(Held(<<ga>>), [Frugal EXCEPT !.types = 1, !.faults = 1, !.moves = 2, !.gives = 1]),
     Alone(NoRows, [Frugal EXCEPT !.types = 1, !.faults = 1, !.moves = 1, !.visits = 1]),
     Pair(NoRows, [Frugal EXCEPT !.types = 3]),
     Pair(NoRows, [Frugal EXCEPT !.types = 2, !.faults = 1]),
     Pair(Held(<<ga>>), [Frugal EXCEPT !.types = 2, !.gives = 1, !.faults = 1]),
     Pair(Held(<<ga>>), [Frugal EXCEPT !.types = 1, !.gives = 1, !.faults = 1, !.editions = 1, !.visits = 1]),
     Pair(Held(<<gc>>), [Frugal EXCEPT !.types = 1, !.editions = 1, !.visits = 1]),
     Alone(Held(<<ga>>), [Frugal EXCEPT !.delays = 1, !.gives = 2, !.faults = 1]),
     Alone(Held(<<ga>>), [Frugal EXCEPT !.devices = 2, !.faults = 1]),
     Alone(NoRows, [Frugal EXCEPT !.types = 2, !.devices = 1, !.faults = 1]),
     Alone(Held(<<gb>>), [Frugal EXCEPT !.types = 1, !.devices = 2]),
     Start(Held(<<ga>>), None, None, [Frugal EXCEPT !.types = 1, !.moves = 2])}

(* The sentence is replaced while the challenge of the first batch is      *)
(* awaited, and the page visited again.                                    *)
MCRepublished ==
    {Alone(NoRows, [Frugal EXCEPT !.types = 1, !.visits = 1, !.editions = 1])}

=============================================================================
