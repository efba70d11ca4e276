--------------------------- MODULE AccountContract ---------------------------
(***************************************************************************)
(* What the routes rely on of the account stores, as the memory stores     *)
(* give it (memoryDeviceStore.ts, memoryLinkStore.ts, memoryRoundStore.ts):*)
(* every operation is one step, taken on what is stored at that moment.    *)
(***************************************************************************)
CONSTANTS AccountIds, Tokens, Emails, Slots, Takes, None

VARIABLES
    email,    \* email[a]: the address of a live account, None when it has none
    live,     \* the accounts that exist
    device,   \* the account a token is on
    binding,  \* the account an address reaches
    log       \* the takes of an account's open rounds

vars == <<email, live, device, binding, log>>

Init ==
    /\ live \in SUBSET AccountIds
    /\ email \in [AccountIds -> Emails \cup {None}]
    /\ device \in [Tokens -> AccountIds \cup {None}]
    /\ binding \in [Emails -> AccountIds \cup {None}]
    /\ log \in [AccountIds -> [Slots -> SUBSET Takes]]

(* A token that reaches no account gets a new one.                         *)
Bootstrap(t, a) ==
    /\ device[t] \notin live
    /\ a \notin live
    /\ live' = live \cup {a}
    /\ device' = [device EXCEPT ![t] = a]
    /\ UNCHANGED <<email, binding, log>>

Revoke(t) ==
    /\ device[t] # None
    /\ device' = [device EXCEPT ![t] = None]
    /\ UNCHANGED <<email, live, binding, log>>

(* The address is free, and the account is saved nowhere else.             *)
Bind(a, e) ==
    /\ binding[e] = None
    /\ a \in live
    /\ email[a] \in {None, e}
    /\ email' = [email EXCEPT ![a] = e]
    /\ binding' = [binding EXCEPT ![e] = a]
    /\ UNCHANGED <<live, device, log>>

(* A round moves with its player to an account that has not played it.     *)
Follows(a, b, s) == log[a][s] # {} /\ log[b][s] = {}

(* A device switches.  The account it leaves lives on if it is saved, and  *)
(* dies if it is not, with its open rounds handed over.                    *)
Adopt(t, a, b) ==
    /\ device[t] = a
    /\ a \in live /\ b \in live /\ a # b
    /\ device' = [device EXCEPT ![t] = b]
    /\ IF email[a] # None THEN UNCHANGED <<live, log>>
       ELSE /\ live' = live \ {a}
            /\ log' = [log EXCEPT
                    ![a] = [s \in Slots |-> IF Follows(a, b, s) THEN {} ELSE @[s]],
                    ![b] = [s \in Slots |-> IF Follows(a, b, s) THEN log[a][s] ELSE @[s]]]
    /\ UNCHANGED <<email, binding>>

(* The account and the address that reaches it go together.                *)
Delete(a) ==
    /\ a \in live
    /\ live' = live \ {a}
    /\ email' = [email EXCEPT ![a] = None]
    /\ binding' = [e \in Emails |-> IF binding[e] = a THEN None ELSE binding[e]]
    /\ UNCHANGED <<device, log>>

Play(a, s, p) ==
    /\ log' = [log EXCEPT ![a][s] = @ \cup {p}]
    /\ UNCHANGED <<email, live, device, binding>>

(* Only the rounds of an account that is gone are removed.                 *)
Purge(a, s) ==
    /\ a \notin live
    /\ log' = [log EXCEPT ![a][s] = {}]
    /\ UNCHANGED <<email, live, device, binding>>

Next ==
    \/ \E t \in Tokens, a \in AccountIds : Bootstrap(t, a)
    \/ \E t \in Tokens : Revoke(t)
    \/ \E a \in AccountIds, e \in Emails : Bind(a, e)
    \/ \E t \in Tokens : \E a, b \in AccountIds : Adopt(t, a, b)
    \/ \E a \in AccountIds : Delete(a)
    \/ \E a \in AccountIds, s \in Slots : Purge(a, s) \/ \E p \in Takes : Play(a, s, p)

Spec == Init /\ [][Next]_vars

=============================================================================
