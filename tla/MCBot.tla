------------------------------- MODULE MCBot -------------------------------
(* Bot on small instances: races of the handlers alone, of the consumer    *)
(* alone, and whole lives of one or two shares.                            *)
EXTENDS Bot, TLC

CONSTANTS p, q, fr, en

MCPodium == <<"podium", 0, 0>>

(* p shares, shares again better, the first result once more, and at last  *)
(* the best; q shares two languages in one message, then a capped run.     *)
MCSenderOf == <<p, q, p, p, q, p>>
MCSharesOf == <<fr :> 5, fr :> 4 @@ en :> 2, fr :> 3, fr :> 5, fr :> 9, fr :> 2>>

(* The messages delivered once, those delivered twice, how often the   *)
(* podium and each acknowledgement reaches the queue, the faults.          *)
Plan(once, twice, podiums, acks, f) ==
    [asked |-> (once \X {1}) \cup (twice \X {1, 2}),
     owed |-> [id \in Commands |->
                CASE id = Podium -> podiums
                  [] id \in Acks -> IF id[2] \in DOMAIN acks THEN acks[id[2]] ELSE 0
                  [] OTHER -> Len(acks)],
     faults |-> f]

Handlers(once, twice, f) == Plan(once, twice, 0, <<>>, f)
Consumer(podiums, f) == Plan({}, {}, podiums, <<>>, f)

MCPlans ==
    {Handlers({1, 2, 3, 4}, {}, 0), Handlers({1, 2, 5}, {}, 1), Handlers({2, 3, 6}, {}, 1),
     Handlers({1, 3}, {}, 2), Handlers({1, 3, 4}, {}, 1), Handlers({2}, {1}, 1), Handlers({1, 4}, {3}, 0),
     Consumer(1, 4), Consumer(2, 2),
     Plan({1}, {}, 1, <<1>>, 1), Plan({}, {1}, 0, <<2>>, 1), Plan({1, 2}, {}, 0, <<1, 1>>, 0)}

=============================================================================
