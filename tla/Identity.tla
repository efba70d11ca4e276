------------------------------ MODULE Identity ------------------------------
(***************************************************************************)
(* The browser's identity (web/src/identity.ts): every tab of the origin   *)
(* shares one storage key, which holds nothing, a token whose bootstrap is *)
(* pending, a whole identity, or the tombstone of one the server signed    *)
(* out.  A tab keeps its own view in memory, follows the key when told it  *)
(* changed, and writes it after a bootstrap, a link, a sign-out or a fresh *)
(* start; a write may fail, and then the tab goes on from memory.          *)
(*                                                                         *)
(* Code between two awaits is one step.  The server is one step per        *)
(* request (Accounts has its own interleavings).  A device id is the       *)
(* number of its registration, and so is the id of the account it opens.   *)
(***************************************************************************)
EXTENDS Naturals, Sequences

CONSTANTS
    Tabs,
    MaxToken,     \* bound: tokens the browser may generate
    MaxDevice,    \* bound: registrations the server may make
    Starts,       \* what the key and the server hold, and what may happen
    None

VARIABLES
    stored,   \* the shared key
    tab,      \* the memory of each tab
    lock,     \* who holds the bootstrap lock
    device,   \* the server: what each token authenticates, or None
    dead,     \* the server: accounts deleted or erased
    used,     \* tokens generated so far
    made,     \* registrations made so far
    acted,    \* history: accounts some tab has acted as
    left,     \* history: per tab, tokens it has left since it was loaded
    spare     \* what the environment may still do

vars == <<stored, tab, lock, device, dead, used, made, acted, left, spare>>

Tokens == 1..MaxToken
Ids == [account : 1..MaxDevice, device : 1..MaxDevice]
Identity == [token : Tokens, account : 1..MaxDevice, device : 1..MaxDevice]

IdsOf(id) == IF id = None THEN None ELSE [account |-> id.account, device |-> id.device]
Whole(token, ids) == [token |-> token, account |-> ids.account, device |-> ids.device]

(* What readStored makes of the key; out says it is a tombstone.           *)
EmptyKey == [token |-> None, ids |-> None, out |-> FALSE]
PendingKey(token) == [EmptyKey EXCEPT !.token = token]
WholeKey(id) == [token |-> id.token, ids |-> IdsOf(id), out |-> FALSE]
Tombstone(ids) == [token |-> None, ids |-> ids, out |-> TRUE]
Keys ==
    {EmptyKey} \cup {PendingKey(token) : token \in Tokens}
        \cup {WholeKey(id) : id \in Identity} \cup {Tombstone(ids) : ids \in Ids}
KeyIdentity(s) == IF s.out \/ s.ids = None THEN None ELSE Whole(s.token, s.ids)

Budgets ==
    [acts : Nat, faults : Nat, unwritten : Nat, revokes : Nat, deletes : Nat, links : Nat, loads : Nat,
     innocent : BOOLEAN, bound : SUBSET (1..MaxDevice)]

ASSUME SizesAssumption == MaxToken \in Nat /\ MaxDevice \in Nat

ASSUME NoneAssumption == None \notin Tabs /\ None \notin Tokens /\ None \notin Ids /\ None \notin Identity

(* A start is a browser as an earlier session may have left it: its token, *)
(* those the server knows and the accounts there are have their numbers.   *)
(* In an innocent one there is nothing yet, and every write will take.     *)
ASSUME StartsAssumption ==
    \A s \in Starts :
        /\ s.stored \in Keys
        /\ s.device \in [Tokens -> Ids \cup {None}]
        /\ s.made \in 0..MaxDevice /\ s.used \in 0..MaxToken
        /\ s.spare \in Budgets
        /\ s.stored.token \in {None} \cup (1..s.used)
        /\ s.stored.ids # None => s.stored.ids.account <= s.made
        /\ s.spare.bound \subseteq 1..s.made
        /\ \A token \in Tokens : s.device[token] # None => token <= s.used /\ s.device[token].account <= s.made
        /\ s.spare.innocent =>
            /\ s.stored = EmptyKey /\ s.used = 0 /\ s.made = 0
            /\ s.spare.unwritten = 0 /\ s.spare.revokes = 0 /\ s.spare.deletes = 0

(* A tab's module state as it is loaded (resetDeviceIdentity).             *)
NewTab ==
    [id |-> None, signedOut |-> FALSE, signedOutAs |-> None, minted |-> FALSE,
     pending |-> None, unproven |-> FALSE, sessionOnly |-> FALSE, residue |-> None,
     departed |-> {}, dismissed |-> None, shared |-> FALSE,
     boots |-> <<>>, flight |-> FALSE, verdict |-> None, deleting |-> None, link |-> None,
     event |-> FALSE]

Standing(token) == device[token] # None /\ device[token].account \notin dead

(* The key and the tabs have the shapes identity.ts gives them: a tab that *)
(* holds an identity neither shows a sign-out nor has a bootstrap pending, *)
(* and whoever holds the lock is asking or has its answer.                 *)
TypeOK ==
    /\ stored \in Keys
    /\ lock \in Tabs \cup {None}
    /\ \A t \in Tabs :
        /\ tab[t].id \in Identity \cup {None}
        /\ tab[t].id # None => ~tab[t].signedOut /\ tab[t].pending = None
        /\ Len(tab[t].boots) <= 2
    /\ lock # None => tab[lock].boots # <<>> /\ tab[lock].boots[1].at # "queued"

-----------------------------------------------------------------------------
(* The tab's view, published.                                              *)

Publish(m, next, signedOut, minted, as) ==
    [m EXCEPT !.id = next, !.signedOut = signedOut, !.signedOutAs = IF signedOut THEN as ELSE None,
              !.minted = next # None /\ minted]

Settled(m) == [m EXCEPT !.pending = None, !.unproven = FALSE]

LiftedScreen(m) == [m EXCEPT !.signedOut = FALSE, !.signedOutAs = None]

TokensOf(m) == {id.token : id \in {m.id} \ {None}}

Adopted(m, found) ==
    LET n == [Settled(m) EXCEPT !.sessionOnly = FALSE, !.departed = {}, !.dismissed = None]
    IN  IF m.id = found THEN LiftedScreen(n) ELSE Publish(n, found, FALSE, FALSE, None)

(* A tombstone that this tab has not dismissed: it is adopted, unless it   *)
(* names another identity than the one held.                               *)
SignedOutBy(m, ids) ==
    IF m.id # None /\ IdsOf(m.id) # ids THEN m
    ELSE Publish([Settled(m) EXCEPT !.departed = @ \cup TokensOf(m), !.shared = TRUE,
                                    !.sessionOnly = FALSE, !.flight = FALSE],
                 None, TRUE, FALSE, ids)

(* A verdict the key used to back is lifted with it.                       *)
Lifted(m) == IF m.shared THEN [LiftedScreen(m) EXCEPT !.shared = FALSE] ELSE m

(* Mutant: whatever the key holds is followed.                             *)
Ignored_Never(m, s) == FALSE

(* A token this tab has left is no identity, however readable.             *)
Ignored(m, s) == s.token \in m.departed

(* The key still names what this tab's own failed write meant to replace.  *)
IsResidue(m, found) ==
    /\ m.id # None /\ m.sessionOnly
    /\ found.token = m.id.token /\ found.account = m.residue

(* Mutant: an identity that could be written is kept against an empty key. *)
StandsAlone_Any(m, s) == m.id # None /\ s.token = None

(* An empty key says nothing against an identity it could not hold.        *)
StandsAlone(m, s) ==
    m.id # None /\ m.sessionOnly /\ (s.token \in {None} \cup TokensOf(m) \/ Ignored(m, s))

(* A pending token is another tab's bootstrap, or a past session's: to be  *)
(* resumed, its account's emptiness unproven.                              *)
Resuming(m, s) ==
    IF Ignored(m, s) \/ s.token \in {None, m.pending} THEN m
    ELSE [m EXCEPT !.pending = s.token, !.unproven = TRUE]

Followed(m, s) ==
    LET found == IF Ignored(m, s) THEN None ELSE KeyIdentity(s)
    IN  IF found # None THEN IF IsResidue(m, found) THEN m ELSE Adopted(m, found)
        ELSE IF StandsAlone(m, s) THEN m
        ELSE IF m.id # None THEN Publish(Resuming(m, s), None, FALSE, FALSE, None)
        ELSE Resuming(m, s)

(* syncFromStorage: the view, and the key, out of which a dismissed        *)
(* tombstone is taken again.                                               *)
Synced(m, s) ==
    IF s.out /\ m.dismissed # s.ids THEN SignedOutBy(m, s.ids)
    ELSE Followed(Lifted(m), IF s.out THEN EmptyKey ELSE s)

KeyAfterSync(m, s, ok) == IF s.out /\ m.dismissed = s.ids /\ ok THEN EmptyKey ELSE s

-----------------------------------------------------------------------------
(* One step of a tab: its memory, the key if the write takes, and the      *)
(* storage event the other tabs will get.                                  *)

Writes == IF spare.unwritten > 0 THEN BOOLEAN ELSE {TRUE}

Commit(t, m, s, ok) ==
    /\ tab' = [u \in Tabs |-> IF u = t THEN m
                              ELSE IF s # stored THEN [tab[u] EXCEPT !.event = TRUE] ELSE tab[u]]
    /\ stored' = s
    /\ acted' = acted \cup {id.account : id \in {m.id} \ {None}}
    /\ left' = [left EXCEPT ![t] = @ \cup (m.departed \ tab[t].departed)]
    /\ spare' = IF ok THEN spare ELSE [spare EXCEPT !.unwritten = @ - 1]

Server == <<device, dead, made>>

Follow(t) ==
    /\ tab[t].event
    /\ \E ok \in Writes :
        Commit(t, [Synced(tab[t], stored) EXCEPT !.event = FALSE], KeyAfterSync(tab[t], stored, ok), ok)
    /\ UNCHANGED <<lock, used, Server>>

(* ensureDeviceIdentity: an act that needs an identity asks for one; the   *)
(* tab's acts share one flight.                                            *)
Queued == [at |-> "queued", token |-> None, ids |-> None]

Ensure(t) ==
    /\ spare.acts > 0
    /\ Len(tab[t].boots) < 2
    /\ LET m == Synced(tab[t], stored) IN
        /\ tab' = [tab EXCEPT ![t] = IF m.id # None \/ m.flight THEN m
                                     ELSE [m EXCEPT !.boots = Append(@, Queued), !.flight = TRUE]]
        /\ m.id = None
        /\ left' = [left EXCEPT ![t] = @ \cup (m.departed \ tab[t].departed)]
    /\ spare' = [spare EXCEPT !.acts = @ - 1]
    /\ UNCHANGED <<stored, lock, used, acted, Server>>

Ended(m) == [m EXCEPT !.boots = Tail(@), !.flight = FALSE]

(* Mutant: every attempt brings a token of its own.                        *)
TokenFor_Fresh(m) == used + 1

(* The token a bootstrap resumes, or a fresh one.                          *)
TokenFor(m) == IF m.pending = None THEN used + 1 ELSE m.pending

MayEnter(t) == lock = None

(* The lock is granted: the key is read once more, a signed-out tab mints  *)
(* nothing, and the token is kept before it is sent.                       *)
Enter(t) ==
    LET m == Synced(tab[t], stored)
        token == TokenFor(m)
    IN
    /\ tab[t].boots # <<>> /\ tab[t].boots[1].at = "queued"
    /\ MayEnter(t)
    /\ \E ok \in Writes :
        IF m.id # None \/ m.signedOut
        THEN /\ Commit(t, Ended(m), KeyAfterSync(tab[t], stored, ok), ok)
             /\ UNCHANGED <<lock, used>>
        ELSE /\ token <= MaxToken
             /\ Commit(t, [m EXCEPT !.pending = token,
                                    !.unproven = IF m.pending = None THEN FALSE ELSE @,
                                    !.boots[1] = [at |-> "asking", token |-> token, ids |-> None]],
                       IF ok THEN PendingKey(token) ELSE KeyAfterSync(tab[t], stored, FALSE), ok)
             /\ lock' = t
             /\ used' = IF token > used THEN token ELSE used
    /\ UNCHANGED Server

(* The server resolves a token it knows, and registers one it does not,    *)
(* an orphan's over again (dynamoDeviceStore, bootstrap).                  *)
Register(t) ==
    /\ tab[t].boots # <<>> /\ tab[t].boots[1].at = "asking"
    /\ LET token == tab[t].boots[1].token
           ids == IF Standing(token) THEN device[token] ELSE [account |-> made + 1, device |-> made + 1]
       IN
        /\ ids.device <= MaxDevice
        /\ device' = [device EXCEPT ![token] = ids]
        /\ made' = IF ids.device > made THEN ids.device ELSE made
        /\ tab' = [tab EXCEPT ![t].boots[1] = [at |-> "answered", token |-> token, ids |-> ids]]
    /\ UNCHANGED <<stored, lock, dead, used, acted, left, spare>>

Released(m) == [Ended(m) EXCEPT !.unproven = TRUE]

(* No usable answer, whatever the server did: the token is out of this     *)
(* tab's hands.                                                            *)
BootFails(t) ==
    /\ spare.faults > 0
    /\ tab[t].boots # <<>> /\ tab[t].boots[1].at # "queued"
    /\ tab' = [tab EXCEPT ![t] = Released(tab[t])]
    /\ lock' = None
    /\ spare' = [spare EXCEPT !.faults = @ - 1]
    /\ UNCHANGED <<stored, used, acted, left, Server>>

(* Another tab has stored a whole identity meanwhile.                      *)
Raced(m, token) ==
    /\ KeyIdentity(stored) # None
    /\ stored.token # token
    /\ stored.token \notin m.departed

BootLands(t) ==
    LET m == tab[t]
        boot == m.boots[1]
        mine == Whole(boot.token, boot.ids)
        done(ok) == [Settled(Ended(m)) EXCEPT !.sessionOnly = ~ok, !.departed = IF ok THEN {} ELSE @]
    IN
    /\ m.boots # <<>> /\ boot.at = "answered"
    /\ \E ok \in Writes :
        IF m.signedOut THEN ok /\ Commit(t, Ended(m), stored, ok)
        ELSE IF Raced(m, boot.token)
        THEN ok /\ Commit(t, Publish(done(TRUE), KeyIdentity(stored), FALSE, FALSE, None), stored, ok)
        ELSE Commit(t, Publish(done(ok), mine, FALSE, ~m.unproven, None),
                    IF ok THEN WholeKey(mine) ELSE stored, ok)
    /\ lock' = None
    /\ UNCHANGED <<used, Server>>

-----------------------------------------------------------------------------
(* Leaving an identity.                                                    *)

(* A private call of this tab is refused: its token authenticates nobody.  *)
Refuse(t) ==
    /\ tab[t].id # None /\ tab[t].verdict = None
    /\ ~Standing(tab[t].id.token)
    /\ tab' = [tab EXCEPT ![t].verdict = IdsOf(tab[t].id)]
    /\ UNCHANGED <<stored, lock, used, acted, left, spare, Server>>

(* Mutant: the tombstone is written over whatever the key holds.           *)
MayInstall_Any(token) == TRUE

(* A newer token in the key is never fenced by an older one's verdict.     *)
MayInstall(token) == stored.token \in {None, token}

(* The identity the call was sent for is still the one held.               *)
StillNamed(m, ids) == IdsOf(m.id) = ids

(* markDeviceSignedOut.                                                    *)
VerdictLands(t) ==
    LET m == tab[t]
        n == [m EXCEPT !.verdict = None]
        out(shared) ==
            Publish([Settled(n) EXCEPT !.departed = @ \cup TokensOf(m), !.shared = shared,
                                       !.dismissed = None, !.sessionOnly = FALSE, !.flight = FALSE],
                    None, TRUE, FALSE, IdsOf(m.id))
    IN
    /\ m.verdict # None
    /\ \E ok \in Writes :
        IF ~StillNamed(m, m.verdict) THEN ok /\ Commit(t, n, stored, ok)
        ELSE IF MayInstall(m.id.token)
        THEN Commit(t, out(ok), IF ok THEN Tombstone(IdsOf(m.id)) ELSE stored, ok)
        ELSE ok /\ Commit(t, out(FALSE), stored, ok)
    /\ UNCHANGED <<lock, used, Server>>

(* The token a fresh start leaves, if any.                                 *)
Leaving(m) ==
    IF m.id # None THEN TokensOf(m)
    ELSE IF m.pending # None THEN {m.pending}
    ELSE IF Ignored(m, stored) THEN {stored.token} ELSE {}

(* clearStored and removeTombstone: a newer tab's token stays.             *)
MayClear(tokens) == stored.out \/ (stored.token \in tokens)

(* startFreshDevice: from the signed-out screen, or for an account that    *)
(* was deleted, whose echo is fenced in advance.                           *)
StartFresh(t, deleted, m, ok) ==
    Commit(t, Publish([Settled(m) EXCEPT
                          !.departed = @ \cup Leaving(m),
                          !.dismissed = IF deleted # None THEN deleted ELSE IF stored.out THEN stored.ids ELSE @,
                          !.shared = FALSE, !.sessionOnly = FALSE, !.flight = FALSE],
                      None, FALSE, FALSE, None),
           IF ok /\ MayClear(Leaving(m)) THEN EmptyKey ELSE stored, ok)

Dismiss(t) ==
    /\ tab[t].signedOut
    /\ \E ok \in Writes : StartFresh(t, None, tab[t], ok)
    /\ UNCHANGED <<lock, used, Server>>

Delete(t) ==
    /\ spare.deletes > 0
    /\ tab[t].id # None /\ tab[t].deleting = None
    /\ Standing(tab[t].id.token) /\ device[tab[t].id.token] = IdsOf(tab[t].id)
    /\ dead' = dead \cup {tab[t].id.account}
    /\ tab' = [tab EXCEPT ![t].deleting = IdsOf(tab[t].id)]
    /\ spare' = [spare EXCEPT !.deletes = @ - 1]
    /\ UNCHANGED <<stored, lock, used, acted, left, device, made>>

(* forgetDeletedAccount: only while the tab is still that account's.       *)
DeleteLands(t) ==
    LET m == [tab[t] EXCEPT !.deleting = None]
        gone == tab[t].deleting
        ours == IF m.id # None THEN IdsOf(m.id) = gone
                ELSE m.signedOut /\ m.signedOutAs # None /\ m.signedOutAs.account = gone.account
    IN
    /\ gone # None
    /\ \E ok \in Writes : IF ours THEN StartFresh(t, gone, m, ok) ELSE ok /\ Commit(t, m, stored, ok)
    /\ UNCHANGED <<lock, used, Server>>

(* The device is moved to another account, one with an address, by this    *)
(* tab's link.                                                             *)
Link(t) ==
    /\ spare.links > 0
    /\ tab[t].id # None /\ tab[t].link = None
    /\ Standing(tab[t].id.token)
    /\ \E a \in spare.bound \ (dead \cup {device[tab[t].id.token].account}) :
        /\ device' = [device EXCEPT ![tab[t].id.token].account = a]
        /\ tab' = [tab EXCEPT ![t].link = [from |-> IdsOf(tab[t].id), to |-> a]]
    /\ spare' = [spare EXCEPT !.links = @ - 1]
    /\ UNCHANGED <<stored, lock, used, acted, left, dead, made>>

(* adoptLinkedAccount.                                                     *)
LinkLands(t) ==
    LET m == tab[t]
        n == [m EXCEPT !.link = None]
        next == [m.id EXCEPT !.account = m.link.to]
        residue == IF KeyIdentity(stored) # None /\ stored.token = m.id.token THEN stored.ids.account ELSE None
    IN
    /\ m.link # None
    /\ \E ok \in Writes :
        IF ~StillNamed(m, m.link.from) THEN ok /\ Commit(t, n, stored, ok)
        ELSE Commit(t, Publish([n EXCEPT !.sessionOnly = ~ok, !.residue = IF ok THEN @ ELSE residue],
                               next, FALSE, FALSE, None),
                    IF ok THEN WholeKey(next) ELSE stored, ok)
    /\ UNCHANGED <<lock, used, Server>>

-----------------------------------------------------------------------------
(* The device is signed out from another one of the account.               *)
Revoke ==
    /\ spare.revokes > 0
    /\ \E token \in {x \in Tokens : Standing(x)} : device' = [device EXCEPT ![token] = None]
    /\ spare' = [spare EXCEPT !.revokes = @ - 1]
    /\ UNCHANGED <<stored, tab, lock, dead, used, made, acted, left>>

(* The page is loaded again; what it awaited, and the lock, go with it.    *)
Load(t) ==
    /\ spare.loads > 0
    /\ LET m == Synced(NewTab, stored) IN
        /\ tab' = [tab EXCEPT ![t] = m]
        /\ acted' = acted \cup {id.account : id \in {m.id} \ {None}}
    /\ lock' = IF lock = t THEN None ELSE lock
    /\ left' = [left EXCEPT ![t] = {}]
    /\ spare' = [spare EXCEPT !.loads = @ - 1]
    /\ UNCHANGED <<stored, used, Server>>

Init ==
    \E s \in Starts :
        /\ stored = s.stored
        /\ device = s.device
        /\ made = s.made
        /\ used = s.used
        /\ spare = s.spare
        /\ tab = [t \in Tabs |-> Synced(NewTab, s.stored)]
        /\ lock = None
        /\ dead = {}
        /\ acted = 1..s.made
        /\ left = [t \in Tabs |-> {}]

Next ==
    \/ \E t \in Tabs :
        \/ Follow(t) \/ Ensure(t) \/ Enter(t) \/ Register(t) \/ BootFails(t) \/ BootLands(t)
        \/ Refuse(t) \/ VerdictLands(t) \/ Dismiss(t) \/ Delete(t) \/ DeleteLands(t)
        \/ Link(t) \/ LinkLands(t) \/ Load(t)
    \/ Revoke

Spec == Init /\ [][Next]_vars

-----------------------------------------------------------------------------
(* Once a tab has heard what changed, it acts as the identity the key      *)
(* holds, unless it left it, could not write its own, or reads another     *)
(* identity's tombstone; as nobody when the key names nobody; and shows a  *)
(* shared sign-out only while its tombstone stands (syncFromStorage).      *)
TabsAgree ==
    \A t \in Tabs : ~tab[t].event =>
        /\ tab[t].shared => stored.out
        /\ tab[t].id = None \/ ~tab[t].sessionOnly =>
            \/ tab[t].id = KeyIdentity(stored)
            \/ tab[t].id = None /\ stored.token \in tab[t].departed
            \/ tab[t].id # None /\ stored.out /\ stored.ids # IdsOf(tab[t].id)

(* What the tabs hold has its shapes, and they agree with the key.         *)
TabsSound == TypeOK /\ TabsAgree

(* A browser in which nothing was left, and every write took, opens one    *)
(* account, however many tabs ask at once and however many answers are     *)
(* lost (lockedBootstrap, the pending token).                              *)
OneAccount ==
    spare.innocent => made <= 1

TakesUp(t) == tab'[t].id # None /\ TokensOf(tab'[t]) # TokensOf(tab[t])
AskedItself(t) == tab[t].boots # <<>> /\ tab'[t].id.token = tab[t].boots[1].token

(* Until it is loaded anew, a tab never takes up a token it has left,      *)
(* except as the answer to a bootstrap of its own that was on its way: a   *)
(* refused identity is not resurrected from a key that could not be        *)
(* cleared (departedTokens).  And an identity said to be minted is one     *)
(* nobody has acted as, so what was shown before it needs no second        *)
(* reading, unless a sign-out or a fresh start had meanwhile cleared what  *)
(* the tab knew of its bootstrap (pendingUnproven).                        *)
NeverBack ==
    [][\A t \in Tabs : TakesUp(t) =>
        /\ left[t] \subseteq left'[t] /\ tab'[t].id.token \in tab[t].departed => AskedItself(t)
        /\ tab'[t].minted /\ tab[t].pending # None => tab'[t].id.account \notin acted]_vars

Linked(t) == tab[t].link # None /\ tab'[t].link = None

(* A whole identity goes out of the key only by a tab that left its token, *)
(* or whose link has landed, which writes without a look: a late verdict,  *)
(* a fresh start or a bootstrap about another token does not erase it      *)
(* (installTombstone, clearStored, the last look of bootstrap).            *)
NewerKept ==
    [][KeyIdentity(stored) # None /\ stored'.token # stored.token =>
        \E t \in Tabs : stored.token \in left'[t] \/ Linked(t)]_vars

=============================================================================
