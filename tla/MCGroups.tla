------------------------------ MODULE MCGroups ------------------------------
(* Groups on small instances: each behaviour is one race over one store.   *)
EXTENDS Groups, TLC

CONSTANTS p1, p2, p3, g1, g2, r1, r2, r3

NoJob == [op |-> "none", who |-> p1, group |-> g1, successor |-> None, member |-> None]

Asks(op, p, g) == [NoJob EXCEPT !.op = op, !.who = p, !.group = g]
Leaves(p, g, s) == [Asks("leave", p, g) EXCEPT !.successor = s]
Removes(p, g, m) == [Asks("remove", p, g) EXCEPT !.member = m]
Three(p, q, s) == (r1 :> p) @@ (r2 :> q) @@ (r3 :> s)

Owned(p) == [owner |-> p, version |-> 0]

(* g1 with its members, the first of them its owner; g2 is yet to be.      *)
Holding(ps) ==
    [group |-> (g1 :> Owned(p1)) @@ (g2 :> NoGroup),
     members |-> (g1 :> ps) @@ (g2 :> {}),
     job |-> Three(NoJob, NoJob, NoJob)]

(* The requests that may meet: one of the owner's, two of the others'.     *)
Owners == {Leaves(p1, g1, p2), Leaves(p1, g1, None), Asks("delete", p1, g1), Removes(p1, g1, p3)}
Others == <<Leaves(p2, g1, p3), Asks("delete", p2, g1), Asks("join", p3, g1),
            Removes(p1, g1, p2), Asks("create", p3, g2), Asks("delete", p3, g1),
            Asks("join", p1, g2), Removes(p2, g1, p1)>>

MCStarts ==
    {[Holding(ps) EXCEPT !.job = Three(a, Others[i[1]], Others[i[2]])] :
        ps \in {{p1}, {p1, p2}, {p1, p2, p3}}, a \in Owners,
        i \in {x \in (1..8) \X (1..8) : x[1] < x[2]}}

=============================================================================
