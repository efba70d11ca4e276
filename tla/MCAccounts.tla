----------------------------- MODULE MCAccounts -----------------------------
(***************************************************************************)
(* Accounts on small instances.  A behaviour starts from one of a few      *)
(* stores, with the requests that race over it: what a run multiplies is   *)
(* the interleavings of one race, not the races.                           *)
(***************************************************************************)
EXTENDS Accounts

CONSTANTS a1, a2, a3, t1, t2, e1, e2, r1, r2, r3, r4, s1, w, ip

MCLimit == [x \in {e1, e2, ip} |-> IF x = ip THEN 3 ELSE 2]

NoJob == [op |-> "none", token |-> t1, email |-> e1, code |-> 0, bind |-> TRUE,
          confirm |-> None, slot |-> s1, solves |-> FALSE, target |-> t1]

Asks(op, t) == [NoJob EXCEPT !.op = op, !.token = t]
Verifies(t, e, c, a) == [Asks("verify", t) EXCEPT !.email = e, !.code = c, !.confirm = a]
Sends(t, e) == [Asks("send", t) EXCEPT !.email = e]
Deletes(t, a) == [Asks("delete", t) EXCEPT !.confirm = a]
PlaysOn(t, solves) == [Asks("play", t) EXCEPT !.solves = solves]

Four(p, q, s, t) == (r1 :> p) @@ (r2 :> q) @@ (r3 :> s) @@ (r4 :> t)

(* a1 on t1; a2 on t2; a3 yet to be minted.  e1 and e2 hold a first code.  *)
Saved(e) == [status |-> "live", email |-> e]

Earlier(e) == [by |-> e, at |-> 0]

Store ==
    [job |-> Four(NoJob, NoJob, NoJob, NoJob),
     horizon |-> 0,
     account |-> (a1 :> Saved(None)) @@ (a2 :> Saved(None)) @@ (a3 :> Unborn),
     device |-> (t1 :> [account |-> a1, id |-> a1]) @@ (t2 :> [account |-> a2, id |-> a2]),
     binding |-> [e \in Emails |-> None],
     challenge |-> [e \in Emails |-> [code |-> 1, wrong |-> 0, expires |-> CodeTtl]],
     codes |-> [e \in Emails |-> <<Earlier(e)>>],
     sends |-> [x \in Scopes |-> {Earlier(e) : e \in IF x = Ip THEN Emails ELSE {x}}],
     round |-> [a \in AccountIds |-> [s \in Slots |-> NoRound]],
     member |-> {a1, a2}]

Bound == [Store EXCEPT !.account[a2] = Saved(e1), !.binding[e1] = a2]

Ask(s, h, p, q, x, y) == [s EXCEPT !.horizon = h, !.job = Four(p, q, x, y)]

(* What the adopter's open round may hold: nothing, an empty log, play.    *)
AdopterRounds ==
    {NoRound, [NoRound EXCEPT !.version = 1],
     [plays |-> {r4}, solved |-> FALSE, version |-> 1]}

MCStarts ==
    (* t1 adopts while it plays.                                           *)
    {Ask([Bound EXCEPT !.round[a2][s1] = x], 0, Verifies(t1, e1, 1, c),
         PlaysOn(t1, TRUE), PlaysOn(t1, FALSE), NoJob)
        : x \in AdopterRounds, c \in {a1, None}}
    \cup {
    (* Two devices save their accounts at one address, a third guesses.    *)
    Ask(Store, 0, Verifies(t1, e1, 1, a1), Verifies(t2, e1, 1, a2),
        Verifies(t2, e1, 0, None), Verifies(t2, e1, 0, None)),
    (* One account is saved at two addresses, and deleted.                 *)
    Ask(Store, 0, Verifies(t1, e1, 1, None), Verifies(t1, e2, 1, None),
        Deletes(t1, a1), NoJob),
    (* The adopter deletes its account while it is adopted.                *)
    Ask(Bound, 0, Verifies(t1, e1, 1, a1), Deletes(t2, a2),
        Asks("join", t1), Asks("visit", t2)),
    (* The account to erase is saved, and adopted, in between.             *)
    Ask(Bound, 0, Verifies(t1, e1, 1, a1), Verifies(t1, e2, 1, None),
        Sends(t2, e2), Verifies(t2, e2, 2, a2)),
    (* A new code races the one it replaces, and the guesses on it.        *)
    Ask([Bound EXCEPT !.challenge[e1].expires = 1], 1, Sends(t1, e1), Verifies(t1, e1, 1, a1),
        Verifies(t1, e1, 2, a1), Verifies(t2, e1, 0, None)),
    (* Two tabs bootstrap one token that a deletion leaves behind.         *)
    Ask(Store, 0, Deletes(t1, a1), Asks("bootstrap", t1), Asks("bootstrap", t1), NoJob),
    Ask(Store, Settle, Deletes(t1, a1), Asks("bootstrap", t1), NoJob, NoJob),
    Ask([Store EXCEPT !.device[t1] = NoDevice, !.account[a1] = Unborn, !.member = {a2}],
        0, Asks("bootstrap", t1), Asks("bootstrap", t1), Verifies(t1, e1, 1, None), NoJob),
    (* A device leaves a saved account that signs it out, or is deleted.   *)
    Ask([Bound EXCEPT !.account[a1] = Saved(e2), !.binding[e2] = a1,
                      !.device[t2] = [account |-> a1, id |-> a3]], 0,
        Verifies(t1, e1, 1, a1), [Asks("revoke", t2) EXCEPT !.target = t1],
        Deletes(t2, a1), Asks("bootstrap", t1)),
    (* Late writes of an account that is deleted, and its purge.           *)
    Ask(Store, Settle, Deletes(t1, a1), PlaysOn(t1, TRUE), NoJob, NoJob),
    Ask(Store, Settle, Deletes(t1, a1), Asks("profile", t1), Asks("join", t1), NoJob),
    Ask(Bound, Settle, Verifies(t1, e1, 1, a1), PlaysOn(t1, TRUE), NoJob, NoJob),
    (* Codes for one address.                                              *)
    Ask([Store EXCEPT !.challenge = [e \in Emails |-> NoCode],
                      !.codes = [e \in Emails |-> <<>>],
                      !.sends = [x \in Scopes |-> {}]],
        SendWindow, Sends(t1, e1), Sends(t2, e1), Sends(t1, e1), NoJob)}

=============================================================================
