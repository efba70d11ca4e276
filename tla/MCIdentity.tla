----------------------------- MODULE MCIdentity -----------------------------
(* Identity on small instances: two tabs over one key.                     *)
EXTENDS Identity, TLC

CONSTANTS t1, t2

Frugal == [acts |-> 2, faults |-> 0, unwritten |-> 0, revokes |-> 0, deletes |-> 0,
           links |-> 0, loads |-> 0, innocent |-> FALSE, bound |-> {}]

Known(n) == [x \in Tokens |-> IF x <= n THEN [account |-> x, device |-> x] ELSE None]
First == [token |-> 1, account |-> 1, device |-> 1]

Start(s, made_, used_, budget) ==
    [stored |-> s, device |-> Known(made_), made |-> made_, used |-> used_, spare |-> budget]

(* A new browser, one that held a pending token, one with an identity, and *)
(* one whose account another device's may be linked to.                    *)
New(b) == Start(EmptyKey, 0, 0, b)
Halfway(b) == Start(PendingKey(1), 1, 1, b)
Settler(b) == Start(WholeKey(First), 1, 1, b)
Neighbour(b) == Start(WholeKey(First), 2, 2, [b EXCEPT !.bound = {2}])

MCStarts ==
    {New([Frugal EXCEPT !.acts = 3, !.faults = 2, !.innocent = TRUE]),
     New([Frugal EXCEPT !.faults = 1, !.loads = 1]),
     New([Frugal EXCEPT !.unwritten = 2]),
     New([Frugal EXCEPT !.acts = 3, !.faults = 1, !.unwritten = 1]),
     Halfway([Frugal EXCEPT !.faults = 1, !.unwritten = 1]),
     Settler([Frugal EXCEPT !.revokes = 1, !.unwritten = 1]),
     Settler([Frugal EXCEPT !.revokes = 1, !.loads = 1]),
     Settler([Frugal EXCEPT !.revokes = 2, !.faults = 1]),
     Settler([Frugal EXCEPT !.deletes = 1, !.unwritten = 1]),
     Settler([Frugal EXCEPT !.deletes = 1, !.revokes = 1]),
     Neighbour([Frugal EXCEPT !.links = 1, !.unwritten = 1]),
     Neighbour([Frugal EXCEPT !.links = 2, !.revokes = 1])}

=============================================================================
