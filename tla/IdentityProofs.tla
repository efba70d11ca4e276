--------------------------- MODULE IdentityProofs ---------------------------
(***************************************************************************)
(* Proofs about the browser's identity (Identity), for every number of     *)
(* tabs, tokens, registrations, faults and failed writes.                  *)
(***************************************************************************)
EXTENDS Identity, SequenceTheorems, TLAPS

-----------------------------------------------------------------------------
(* What a tab's memory and the key always are                              *)

TabFields ==
    {"id", "signedOut", "signedOutAs", "minted", "pending", "unproven", "sessionOnly", "residue",
     "departed", "dismissed", "shared", "boots", "flight", "verdict", "deleting", "link", "event"}

(* The view: an identity is neither signed out nor pending, and only a     *)
(* sign-out that is shown is shared.                                       *)
View(m) ==
    /\ DOMAIN m = TabFields
    /\ m.id \in Identity \cup {None}
    /\ m.pending \in Tokens \cup {None}
    /\ m.id # None => ~m.signedOut /\ m.pending = None
    /\ m.shared => m.signedOut

(* What the tab waits for: its first bootstrap may be on its way, the      *)
(* second is queued behind it.                                             *)
Boot == [at : {"queued", "asking", "answered"}, token : Tokens \cup {None}, ids : Ids \cup {None}]

Asks(m) ==
    /\ m.boots \in Seq(Boot) /\ Len(m.boots) <= 2
    /\ Len(m.boots) = 2 => m.boots[2].at = "queued"
    /\ Len(m.boots) > 0 =>
        /\ m.boots[1].at # "queued" => m.boots[1].token \in Tokens
        /\ m.boots[1].at = "answered" => m.boots[1].ids \in Ids
    /\ m.verdict \in Ids \cup {None} /\ m.deleting \in Ids \cup {None}
    /\ m.link \in [from : Ids, to : 1..MaxDevice] \cup {None}

Asking(m) == Len(m.boots) > 0 /\ m.boots[1].at # "queued"

(* The same waits, in another memory of the tab.                           *)
Waits(m, n) == n.boots = m.boots /\ n.verdict = m.verdict /\ n.deleting = m.deleting /\ n.link = m.link

(* A memory that knows the key: it acts as the identity there, or left it, *)
(* could not write its own, or reads another identity's tombstone.         *)
Agrees(m, s) ==
    /\ m.shared => s.out
    /\ \/ m.id = KeyIdentity(s)
       \/ m.id = None /\ s.token \in m.departed
       \/ m.id # None /\ s.out /\ s.ids # IdsOf(m.id)
       \/ /\ m.id # None /\ m.sessionOnly
          /\ KeyIdentity(s) = None \/ s.token = m.id.token \/ s.token \in m.departed

LEMMA KeyFacts ==
    ASSUME NEW s \in Keys
    PROVE  /\ s.token \in Tokens \cup {None} /\ s.ids \in Ids \cup {None} /\ s.out \in BOOLEAN
           /\ KeyIdentity(s) \in Identity \cup {None}
           /\ s.out => s.token = None /\ KeyIdentity(s) = None
           /\ s.token = None => KeyIdentity(s) = None
           /\ KeyIdentity(s) # None => KeyIdentity(s).token = s.token /\ s.token \in Tokens
<1>1. CASE s = EmptyKey
  BY <1>1 DEF EmptyKey, KeyIdentity
<1>2. ASSUME NEW token \in Tokens, s = PendingKey(token)
      PROVE  s.token = token /\ s.ids = None /\ s.out = FALSE
  BY <1>2 DEF EmptyKey, PendingKey
<1>3. ASSUME NEW id \in Identity, s = WholeKey(id)
      PROVE  /\ s.token = id.token /\ s.ids = IdsOf(id) /\ s.out = FALSE
             /\ IdsOf(id) \in Ids /\ IdsOf(id) # None /\ Whole(s.token, s.ids) = id /\ id.token \in Tokens
  <2>1. s.token = id.token /\ s.ids = IdsOf(id) /\ s.out = FALSE
    BY <1>3 DEF WholeKey
  <2>2. IdsOf(id) = [account |-> id.account, device |-> id.device]
    BY NoneAssumption DEF IdsOf, NoneAssumption
  <2>3. id = [token |-> id.token, account |-> id.account, device |-> id.device]
        /\ id.token \in Tokens /\ id.account \in 1..MaxDevice /\ id.device \in 1..MaxDevice
    BY DEF Identity
  <2>4. IdsOf(id) \in Ids
    BY <2>2, <2>3 DEF Ids
  <2>5. Whole(id.token, IdsOf(id)) = id
    BY <2>2, <2>3 DEF Whole
  <2> QED
    BY <2>1, <2>3, <2>4, <2>5, NoneAssumption DEF NoneAssumption
<1>4. ASSUME NEW ids \in Ids, s = Tombstone(ids)
      PROVE  s.token = None /\ s.ids = ids /\ s.out = TRUE
  BY <1>4 DEF Tombstone
<1>5. None \notin Tokens
  BY NoneAssumption DEF NoneAssumption
<1>6. CASE \E token \in Tokens : s = PendingKey(token)
  BY <1>2, <1>5, <1>6 DEF KeyIdentity
<1>7. CASE \E id \in Identity : s = WholeKey(id)
  BY <1>3, <1>5, <1>7 DEF KeyIdentity
<1>8. CASE \E ids \in Ids : s = Tombstone(ids)
  BY <1>4, <1>5, <1>8 DEF KeyIdentity
<1> QED
  BY <1>1, <1>6, <1>7, <1>8 DEF Keys

LEMMA WholeKeyFacts ==
    ASSUME NEW id \in Identity
    PROVE  /\ id # None /\ WholeKey(id) \in Keys /\ KeyIdentity(WholeKey(id)) = id
           /\ WholeKey(id).token = id.token /\ WholeKey(id).out = FALSE
           /\ IdsOf(id) \in Ids /\ IdsOf(id) # None /\ id.token \in Tokens /\ TokensOf([id |-> id]) = {id.token}
<1>1. id # None
  BY NoneAssumption DEF NoneAssumption
<1>2. WholeKey(id) \in Keys
  BY DEF Keys
<1>3. IdsOf(id) = [account |-> id.account, device |-> id.device]
  BY <1>1 DEF IdsOf
<1>4. id = [token |-> id.token, account |-> id.account, device |-> id.device]
      /\ id.token \in Tokens /\ id.account \in 1..MaxDevice /\ id.device \in 1..MaxDevice
  BY DEF Identity
<1>5. IdsOf(id) \in Ids /\ IdsOf(id) # None
  BY <1>3, <1>4, NoneAssumption DEF Ids, NoneAssumption
<1>6. WholeKey(id).token = id.token /\ WholeKey(id).out = FALSE /\ WholeKey(id).ids = IdsOf(id)
  BY DEF WholeKey
<1>7. Whole(id.token, IdsOf(id)) = id
  BY <1>3, <1>4 DEF Whole
<1>8. KeyIdentity(WholeKey(id)) = id
  BY <1>5, <1>6, <1>7 DEF KeyIdentity
<1> QED
  BY <1>1, <1>2, <1>4, <1>5, <1>6, <1>8 DEF TokensOf

(* What is published.                                                      *)
LEMMA Published ==
    ASSUME NEW m, DOMAIN m = TabFields, NEW next, NEW signedOut, NEW minted, NEW as,
           NEW n, n = Publish(m, next, signedOut, minted, as)
    PROVE  /\ DOMAIN n = TabFields
           /\ n.id = next /\ n.signedOut = signedOut
           /\ n.pending = m.pending /\ n.sessionOnly = m.sessionOnly /\ n.residue = m.residue
           /\ n.departed = m.departed /\ n.dismissed = m.dismissed /\ n.shared = m.shared
           /\ n.event = m.event /\ Waits(m, n)
  BY DEF Publish, TabFields, Waits

-----------------------------------------------------------------------------
(* Reading the key                                                         *)

LEMMA SettledFacts ==
    ASSUME NEW m, DOMAIN m = TabFields, NEW n, n = Settled(m)
    PROVE  /\ DOMAIN n = TabFields
           /\ n.id = m.id /\ n.signedOut = m.signedOut /\ n.pending = None
           /\ n.sessionOnly = m.sessionOnly /\ n.residue = m.residue
           /\ n.departed = m.departed /\ n.dismissed = m.dismissed /\ n.shared = m.shared
           /\ n.event = m.event /\ Waits(m, n)
  BY DEF Settled, TabFields, Waits

LEMMA LiftedScreenFacts ==
    ASSUME NEW m, DOMAIN m = TabFields, NEW n, n = LiftedScreen(m)
    PROVE  /\ DOMAIN n = TabFields
           /\ n.id = m.id /\ n.signedOut = FALSE /\ n.pending = m.pending
           /\ n.sessionOnly = m.sessionOnly /\ n.residue = m.residue
           /\ n.departed = m.departed /\ n.dismissed = m.dismissed /\ n.shared = m.shared
           /\ n.event = m.event /\ Waits(m, n)
  BY DEF LiftedScreen, TabFields, Waits

LEMMA AdoptedFacts ==
    ASSUME NEW m, DOMAIN m = TabFields, NEW found \in Identity, ~m.shared, NEW n, n = Adopted(m, found)
    PROVE  /\ View(n) /\ Waits(m, n) /\ n.event = m.event
           /\ n.id = found /\ ~n.sessionOnly /\ ~n.shared /\ n.departed = {}
<1> DEFINE a == Settled(m)
           b == [a EXCEPT !.sessionOnly = FALSE, !.departed = {}, !.dismissed = None]
<1>1. DOMAIN a = TabFields /\ a.pending = None /\ a.id = m.id /\ a.shared = m.shared /\ a.event = m.event /\ Waits(m, a)
  BY SettledFacts
<1> HIDE DEF a
<1>2. /\ DOMAIN b = TabFields /\ b.pending = None /\ b.id = a.id /\ b.shared = a.shared /\ b.event = a.event
      /\ b.sessionOnly = FALSE /\ b.departed = {} /\ Waits(a, b)
  BY <1>1 DEF TabFields, Waits
<1> HIDE DEF b
<1>3. n = IF m.id = found THEN LiftedScreen(b) ELSE Publish(b, found, FALSE, FALSE, None)
  BY DEF Adopted, a, b
<1>4. /\ DOMAIN n = TabFields /\ n.id = found /\ n.signedOut = FALSE /\ n.pending = b.pending
      /\ n.sessionOnly = b.sessionOnly /\ n.shared = b.shared /\ n.event = b.event /\ Waits(b, n)
      /\ n.departed = b.departed
  <2>1. CASE m.id = found
    <3>1. n = LiftedScreen(b)
      BY <1>3, <2>1
    <3> QED
      BY <1>1, <1>2, <2>1, <3>1 DEF LiftedScreen, TabFields, Waits
  <2>2. CASE m.id # found
    <3>1. n = Publish(b, found, FALSE, FALSE, None)
      BY <1>3, <2>2
    <3> QED
      BY <1>2, <3>1 DEF Publish, TabFields, Waits
  <2> QED
    BY <2>1, <2>2
<1> QED
  BY <1>1, <1>2, <1>4 DEF View, Waits

LEMMA SignedOutByFacts ==
    ASSUME NEW m, View(m), NEW ids \in Ids, NEW n, n = SignedOutBy(m, ids)
    PROVE  /\ View(n) /\ Waits(m, n) /\ n.event = m.event
           /\ n.departed \subseteq m.departed \cup TokensOf(m)
           /\ \/ n.id = None
              \/ n = m /\ m.id # None /\ IdsOf(m.id) # ids
<1>1. CASE m.id # None /\ IdsOf(m.id) # ids
  BY <1>1 DEF SignedOutBy, Waits
<1>2. CASE ~(m.id # None /\ IdsOf(m.id) # ids)
  <2> DEFINE a == Settled(m)
             b == [a EXCEPT !.departed = @ \cup TokensOf(m), !.shared = TRUE, !.sessionOnly = FALSE, !.flight = FALSE]
  <2>1. DOMAIN a = TabFields /\ a.pending = None /\ a.event = m.event /\ a.departed = m.departed /\ Waits(m, a)
    BY SettledFacts DEF View
  <2> HIDE DEF a
  <2>2. /\ DOMAIN b = TabFields /\ b.pending = None /\ b.event = a.event /\ Waits(a, b)
        /\ b.departed = a.departed \cup TokensOf(m)
    BY <2>1 DEF TabFields, Waits
  <2> HIDE DEF b
  <2>3. n = Publish(b, None, TRUE, FALSE, ids)
    BY <1>2 DEF SignedOutBy, a, b
  <2>4. /\ DOMAIN n = TabFields /\ n.id = None /\ n.signedOut = TRUE /\ n.pending = b.pending
        /\ n.event = b.event /\ n.departed = b.departed /\ Waits(b, n)
    BY <2>2, <2>3 DEF Publish, TabFields, Waits
  <2> QED
    BY <2>1, <2>2, <2>4 DEF View, Waits
<1> QED
  BY <1>1, <1>2

LEMMA LiftedFacts ==
    ASSUME NEW m, View(m), NEW n, n = Lifted(m)
    PROVE  /\ View(n) /\ Waits(m, n) /\ n.event = m.event /\ ~n.shared
           /\ n.id = m.id /\ n.sessionOnly = m.sessionOnly /\ n.departed = m.departed
<1>1. CASE m.shared
  <2> DEFINE a == LiftedScreen(m)
  <2>1. /\ DOMAIN a = TabFields /\ a.id = m.id /\ a.signedOut = FALSE /\ a.pending = m.pending
        /\ a.sessionOnly = m.sessionOnly /\ a.departed = m.departed /\ a.event = m.event /\ Waits(m, a)
    BY LiftedScreenFacts DEF View
  <2>2. n = [a EXCEPT !.shared = FALSE]
    BY <1>1 DEF Lifted
  <2> HIDE DEF a
  <2>3. /\ DOMAIN n = TabFields /\ n.id = a.id /\ n.signedOut = a.signedOut /\ n.pending = a.pending
        /\ n.sessionOnly = a.sessionOnly /\ n.departed = a.departed /\ n.event = a.event /\ Waits(a, n)
        /\ n.shared = FALSE
    BY <2>1, <2>2 DEF TabFields, Waits
  <2> QED
    BY <2>1, <2>3 DEF View, Waits
<1>2. CASE ~m.shared
  BY <1>2 DEF Lifted, Waits
<1> QED
  BY <1>1, <1>2

LEMMA ResumingFacts ==
    ASSUME NEW m, View(m), NEW s, s.token \in Tokens \cup {None}, NEW n, n = Resuming(m, s)
    PROVE  /\ DOMAIN n = TabFields /\ Waits(m, n) /\ n.event = m.event
           /\ n.id = m.id /\ n.signedOut = m.signedOut /\ n.shared = m.shared /\ n.departed = m.departed
           /\ n.pending \in Tokens \cup {None}
<1>1. CASE Ignored(m, s) \/ s.token \in {None, m.pending}
  BY <1>1 DEF Resuming, View, Waits
<1>2. CASE ~(Ignored(m, s) \/ s.token \in {None, m.pending})
  BY <1>2 DEF Resuming, View, TabFields, Waits
<1> QED
  BY <1>1, <1>2

LEMMA FollowedFacts ==
    ASSUME NEW m, View(m), ~m.shared, NEW s \in Keys, NEW n, n = Followed(m, s)
    PROVE  /\ View(n) /\ Waits(m, n) /\ n.event = m.event /\ ~n.shared /\ Agrees(n, s)
           /\ n.departed \subseteq m.departed
           /\ n.id \in {m.id, None} \/ n.id.token \notin m.departed
<1> DEFINE found == IF Ignored(m, s) THEN None ELSE KeyIdentity(s)
<1>1. found \in Identity \cup {None} /\ s.token \in Tokens \cup {None} /\ None \notin Identity
  BY KeyFacts, NoneAssumption DEF NoneAssumption
<1>2. CASE found # None /\ IsResidue(m, found)
  <2>1. n = m
    BY <1>2 DEF Followed
  <2>2. m.id # None /\ m.sessionOnly /\ s.token = m.id.token
    BY <1>2, KeyFacts DEF IsResidue
  <2> QED
    BY <2>1, <2>2 DEF Agrees, Waits
<1>3. found # None => found = KeyIdentity(s) /\ found.token \notin m.departed
  BY KeyFacts DEF Ignored
<1>4. CASE found # None /\ ~IsResidue(m, found)
  <2>1. n = Adopted(m, found) /\ found \in Identity
    BY <1>1, <1>4 DEF Followed
  <2>2. found = KeyIdentity(s)
    BY <1>4
  <2> HIDE DEF found
  <2>3. View(n) /\ Waits(m, n) /\ n.event = m.event /\ n.id = found /\ ~n.shared /\ n.departed = {}
    BY <2>1, AdoptedFacts DEF View
  <2>4. n.id.token \notin m.departed
    BY <1>4, <1>3, <2>3
  <2> QED
    BY <2>2, <2>3, <2>4 DEF Agrees
<1>5. CASE found = None /\ StandsAlone(m, s)
  <2>1. n = m
    BY <1>5 DEF Followed
  <2>2. m.id # None /\ m.sessionOnly
    BY <1>5 DEF StandsAlone
  <2>3. KeyIdentity(s) = None \/ s.token \in m.departed
    BY <1>5 DEF Ignored
  <2> QED
    BY <2>1, <2>2, <2>3 DEF Agrees, Waits
<1>6. CASE found = None /\ ~StandsAlone(m, s)
  <2> DEFINE r == Resuming(m, s)
  <2>1. /\ DOMAIN r = TabFields /\ Waits(m, r) /\ r.event = m.event
        /\ r.id = m.id /\ r.signedOut = m.signedOut /\ r.shared = m.shared /\ r.departed = m.departed
        /\ r.pending \in Tokens \cup {None}
    BY <1>1, ResumingFacts
  <2>2. KeyIdentity(s) = None \/ s.token \in m.departed
    BY <1>6 DEF Ignored
  <2>3. n = IF m.id # None THEN Publish(r, None, FALSE, FALSE, None) ELSE r
    BY <1>6 DEF Followed
  <2> HIDE DEF r
  <2>4. CASE m.id # None
    <3>1. /\ DOMAIN n = TabFields /\ n.id = None /\ n.signedOut = FALSE /\ n.pending = r.pending
          /\ n.departed = r.departed /\ n.shared = r.shared /\ n.event = r.event /\ Waits(r, n)
      <4>1. n = Publish(r, None, FALSE, FALSE, None)
        BY <2>3, <2>4
      <4> QED
        BY <2>1, <4>1 DEF Publish, TabFields, Waits
    <3> QED
      BY <2>1, <2>2, <3>1 DEF View, Waits, Agrees
  <2>5. CASE m.id = None
    BY <2>1, <2>2, <2>3, <2>5 DEF View, Agrees
  <2> QED
    BY <2>4, <2>5
<1> QED
  BY <1>2, <1>4, <1>5, <1>6

(* A tab that has read the key agrees with it, and with what it leaves     *)
(* there; only a tombstone is ever taken out by reading.                   *)
LEMMA SyncedFacts ==
    ASSUME NEW m, View(m), NEW s \in Keys, NEW n, n = Synced(m, s)
    PROVE  /\ View(n) /\ Waits(m, n) /\ n.event = m.event /\ Agrees(n, s)
           /\ n.departed \subseteq m.departed \cup TokensOf(m)
           /\ n.id \in {m.id, None} \/ n.id.token \notin m.departed
           /\ \A ok : /\ KeyAfterSync(m, s, ok) \in Keys /\ Agrees(n, KeyAfterSync(m, s, ok))
                      /\ KeyIdentity(s) # None => KeyAfterSync(m, s, ok) = s
<1>1. EmptyKey \in Keys /\ EmptyKey.token = None /\ EmptyKey.out = FALSE /\ KeyIdentity(EmptyKey) = None
  BY DEF Keys, EmptyKey, KeyIdentity
<1>2. s.ids \in Ids \cup {None} /\ (s.out => s.token = None /\ KeyIdentity(s) = None)
  BY KeyFacts
<1>3. s.out => s.ids \in Ids
  BY <1>1, NoneAssumption DEF Keys, Tombstone, PendingKey, WholeKey, EmptyKey, NoneAssumption
<1>4. CASE s.out /\ m.dismissed # s.ids
  <2>1. n = SignedOutBy(m, s.ids)
    BY <1>4 DEF Synced
  <2>2. /\ View(n) /\ Waits(m, n) /\ n.event = m.event
        /\ n.departed \subseteq m.departed \cup TokensOf(m)
        /\ n.id = None \/ (n = m /\ m.id # None /\ IdsOf(m.id) # s.ids)
    BY <1>3, <1>4, <2>1, SignedOutByFacts
  <2>3. \A ok : KeyAfterSync(m, s, ok) = s
    BY <1>4 DEF KeyAfterSync
  <2>4. Agrees(n, s)
    BY <1>2, <1>4, <2>2 DEF Agrees
  <2> QED
    BY <2>2, <2>3, <2>4
<1>5. CASE ~s.out
  <2>1. n = Followed(Lifted(m), s)
    BY <1>5 DEF Synced
  <2>2. \A ok : KeyAfterSync(m, s, ok) = s
    BY <1>5 DEF KeyAfterSync
  <2>3. PICK l : l = Lifted(m)
    OBVIOUS
  <2>4. /\ View(l) /\ Waits(m, l) /\ l.event = m.event /\ ~l.shared
        /\ l.id = m.id /\ l.departed = m.departed
    BY <2>3, LiftedFacts
  <2>5. /\ View(n) /\ Waits(l, n) /\ n.event = l.event /\ Agrees(n, s)
        /\ n.departed \subseteq l.departed
        /\ n.id \in {l.id, None} \/ n.id.token \notin l.departed
    BY <2>1, <2>3, <2>4, FollowedFacts
  <2> QED
    BY <2>2, <2>4, <2>5 DEF Waits
<1>6. CASE s.out /\ m.dismissed = s.ids
  <2>1. n = Followed(Lifted(m), EmptyKey)
    BY <1>6 DEF Synced
  <2>2. \A ok : KeyAfterSync(m, s, ok) \in {s, EmptyKey}
    BY DEF KeyAfterSync
  <2>3. PICK l : l = Lifted(m)
    OBVIOUS
  <2>4. /\ View(l) /\ Waits(m, l) /\ l.event = m.event /\ ~l.shared
        /\ l.id = m.id /\ l.departed = m.departed
    BY <2>3, LiftedFacts
  <2>5. /\ View(n) /\ Waits(l, n) /\ n.event = l.event /\ ~n.shared /\ Agrees(n, EmptyKey)
        /\ n.departed \subseteq l.departed
        /\ n.id \in {l.id, None} \/ n.id.token \notin l.departed
    BY <1>1, <2>1, <2>3, <2>4, FollowedFacts
  <2>6. /\ View(n) /\ Waits(m, n) /\ n.event = m.event /\ ~n.shared /\ Agrees(n, EmptyKey)
        /\ n.departed \subseteq m.departed
        /\ n.id \in {m.id, None} \/ n.id.token \notin m.departed
    BY <2>4, <2>5 DEF Waits
  <2>7. Agrees(n, s)
    BY <1>1, <1>2, <1>6, <2>6 DEF Agrees
  <2> QED
    BY <1>1, <1>2, <1>6, <2>2, <2>6, <2>7
<1> QED
  BY <1>4, <1>5, <1>6

-----------------------------------------------------------------------------
(* Where what a tab holds comes from                                       *)

(* The token of the bootstrap is this tab's own, and nobody else has had   *)
(* it: what it brings is minted.                                           *)
Proven(m) == m.pending # None /\ ~m.unproven

Origin(m, n, s) ==
    /\ n.id \in {m.id, None, KeyIdentity(s)} /\ (n.id \in {m.id, None} \/ ~n.minted)
    /\ n.pending \in {m.pending, None, s.token}
    /\ Proven(n) => Proven(m) /\ n.pending = m.pending /\ (n.signedOut => m.signedOut)
    /\ n.signedOut => m.signedOut \/ s.out
    /\ ~s.out => n.departed \subseteq m.departed
    /\ ~s.out /\ m.departed = {} /\ s.token # None /\ n.id = None => n.pending = s.token

LEMMA AdoptedOrigin ==
    ASSUME NEW m, DOMAIN m = TabFields, NEW found \in Identity, NEW n, n = Adopted(m, found)
    PROVE  /\ n.id = found /\ n.pending = None /\ ~n.signedOut /\ n.departed = {}
           /\ n.id = m.id \/ ~n.minted
<1> DEFINE a == Settled(m)
           b == [a EXCEPT !.sessionOnly = FALSE, !.departed = {}, !.dismissed = None]
<1>1. DOMAIN a = TabFields /\ a.pending = None /\ a.id = m.id
  BY SettledFacts
<1> HIDE DEF a
<1>2. DOMAIN b = TabFields /\ b.pending = None /\ b.id = a.id /\ b.departed = {}
  BY <1>1 DEF TabFields
<1> HIDE DEF b
<1>3. n = IF m.id = found THEN LiftedScreen(b) ELSE Publish(b, found, FALSE, FALSE, None)
  BY DEF Adopted, a, b
<1>4. CASE m.id = found
  <2>1. n = LiftedScreen(b)
    BY <1>3, <1>4
  <2> QED
    BY <1>1, <1>2, <1>4, <2>1 DEF LiftedScreen, TabFields
<1>5. CASE m.id # found
  <2>1. n = Publish(b, found, FALSE, FALSE, None)
    BY <1>3, <1>5
  <2> QED
    BY <1>2, <2>1 DEF Publish, TabFields
<1> QED
  BY <1>4, <1>5

LEMMA SignedOutByOrigin ==
    ASSUME NEW m, View(m), NEW ids, NEW n, n = SignedOutBy(m, ids)
    PROVE  n = m \/ (n.id = None /\ n.pending = None)
<1>1. CASE m.id # None /\ IdsOf(m.id) # ids
  BY <1>1 DEF SignedOutBy
<1>2. CASE ~(m.id # None /\ IdsOf(m.id) # ids)
  <2> DEFINE a == Settled(m)
             b == [a EXCEPT !.departed = @ \cup TokensOf(m), !.shared = TRUE, !.sessionOnly = FALSE, !.flight = FALSE]
  <2>1. DOMAIN a = TabFields /\ a.pending = None
    BY SettledFacts DEF View
  <2> HIDE DEF a
  <2>2. DOMAIN b = TabFields /\ b.pending = None
    BY <2>1 DEF TabFields
  <2> HIDE DEF b
  <2>3. n = Publish(b, None, TRUE, FALSE, ids)
    BY <1>2 DEF SignedOutBy, a, b
  <2> QED
    BY <2>2, <2>3 DEF Publish, TabFields
<1> QED
  BY <1>1, <1>2

LEMMA LiftedOrigin ==
    ASSUME NEW m, View(m), NEW n, n = Lifted(m)
    PROVE  /\ n.id = m.id /\ n.pending = m.pending /\ n.unproven = m.unproven /\ n.departed = m.departed
           /\ n.signedOut = m.signedOut \/ n.signedOut = FALSE
<1>1. CASE m.shared
  <2> DEFINE a == LiftedScreen(m)
  <2>1. /\ DOMAIN a = TabFields /\ a.id = m.id /\ a.signedOut = FALSE /\ a.pending = m.pending
        /\ a.unproven = m.unproven /\ a.departed = m.departed
    BY DEF View, LiftedScreen, TabFields
  <2>2. n = [a EXCEPT !.shared = FALSE]
    BY <1>1 DEF Lifted
  <2> HIDE DEF a
  <2> QED
    BY <2>1, <2>2 DEF TabFields
<1>2. CASE ~m.shared
  BY <1>2 DEF Lifted
<1> QED
  BY <1>1, <1>2

LEMMA ResumingOrigin ==
    ASSUME NEW m, DOMAIN m = TabFields, NEW s, NEW n, n = Resuming(m, s)
    PROVE  /\ DOMAIN n = TabFields
           /\ n.id = m.id /\ n.signedOut = m.signedOut /\ n.departed = m.departed
           /\ \/ n.pending = m.pending /\ n.unproven = m.unproven
              \/ n.pending = s.token /\ n.unproven = TRUE
           /\ m.departed = {} /\ s.token # None => n.pending = s.token
<1>1. CASE Ignored(m, s) \/ s.token \in {None, m.pending}
  BY <1>1 DEF Resuming, Ignored
<1>2. CASE ~(Ignored(m, s) \/ s.token \in {None, m.pending})
  <2>1. n = [m EXCEPT !.pending = s.token, !.unproven = TRUE]
    BY <1>2 DEF Resuming
  <2> QED
    BY <2>1 DEF TabFields
<1> QED
  BY <1>1, <1>2

LEMMA FollowedOrigin ==
    ASSUME NEW m, View(m), NEW s \in Keys, NEW n, n = Followed(m, s)
    PROVE  /\ n.id \in {m.id, None, KeyIdentity(s)} /\ (n.id \in {m.id, None} \/ ~n.minted)
           /\ n.pending \in {m.pending, None, s.token}
           /\ Proven(n) => Proven(m) /\ n.pending = m.pending
           /\ n.signedOut => m.signedOut
           /\ n.departed \subseteq m.departed
           /\ m.departed = {} /\ s.token # None /\ n.id = None => n.pending = s.token
<1> DEFINE found == IF Ignored(m, s) THEN None ELSE KeyIdentity(s)
<1>1. DOMAIN m = TabFields
  BY DEF View
<1>2. CASE found # None /\ IsResidue(m, found)
  <2>1. n = m /\ m.id # None
    BY <1>2 DEF Followed, IsResidue
  <2> QED
    BY <2>1
<1>3. CASE found # None /\ ~IsResidue(m, found)
  <2>1. n = Adopted(m, found) /\ found = KeyIdentity(s)
    BY <1>3 DEF Followed
  <2>2. found \in Identity
    BY <1>3, <2>1, KeyFacts
  <2> HIDE DEF found
  <2>3. /\ n.id = found /\ n.pending = None /\ ~n.signedOut /\ n.departed = {}
        /\ n.id = m.id \/ ~n.minted
    <3>1. DOMAIN m = TabFields /\ found \in Identity /\ n = Adopted(m, found)
      BY <1>1, <2>1, <2>2
    <3> QED
      BY <3>1, AdoptedOrigin
  <2>4. n.id # None
    BY <2>2, <2>3, NoneAssumption DEF NoneAssumption
  <2> QED
    BY <2>1, <2>3, <2>4 DEF Proven
<1>4. CASE found = None /\ StandsAlone(m, s)
  <2>1. n = m /\ m.id # None
    BY <1>4 DEF Followed, StandsAlone
  <2> QED
    BY <2>1
<1>5. CASE found = None /\ ~StandsAlone(m, s)
  <2>1. PICK r : r = Resuming(m, s)
    OBVIOUS
  <2>2. /\ DOMAIN r = TabFields /\ r.id = m.id /\ r.signedOut = m.signedOut /\ r.departed = m.departed
        /\ \/ r.pending = m.pending /\ r.unproven = m.unproven
           \/ r.pending = s.token /\ r.unproven = TRUE
        /\ m.departed = {} /\ s.token # None => r.pending = s.token
    BY <1>1, <2>1, ResumingOrigin, ZenonT(60)
  <2>3. n = IF m.id # None THEN Publish(r, None, FALSE, FALSE, None) ELSE r
    BY <1>5, <2>1 DEF Followed
  <2>4. CASE m.id # None
    <3>1. n = Publish(r, None, FALSE, FALSE, None)
      BY <2>3, <2>4
    <3>2. /\ n.id = None /\ n.signedOut = FALSE /\ n.pending = r.pending /\ n.unproven = r.unproven
          /\ n.departed = r.departed
      BY <2>2, <3>1 DEF Publish, TabFields
    <3> QED
      BY <2>2, <3>2 DEF Proven
  <2>5. CASE m.id = None
    BY <2>2, <2>3, <2>5 DEF Proven
  <2> QED
    BY <2>4, <2>5
<1> QED
  BY <1>2, <1>3, <1>4, <1>5

LEMMA SyncedOrigin ==
    ASSUME NEW m, View(m), NEW s \in Keys, NEW n, n = Synced(m, s)
    PROVE  Origin(m, n, s)
<1>1. CASE s.out /\ m.dismissed # s.ids
  <2>1. n = SignedOutBy(m, s.ids)
    BY <1>1 DEF Synced
  <2>2. n = m \/ (n.id = None /\ n.pending = None)
    BY <2>1, SignedOutByOrigin
  <2> QED
    BY <1>1, <2>2 DEF Origin, Proven
<1>2. CASE ~(s.out /\ m.dismissed # s.ids)
  <2>1. PICK l : l = Lifted(m)
    OBVIOUS
  <2>2. PICK k : k = IF s.out THEN EmptyKey ELSE s
    OBVIOUS
  <2>3. n = Followed(l, k)
    BY <1>2, <2>1, <2>2 DEF Synced
  <2>4. /\ View(l) /\ l.id = m.id /\ l.pending = m.pending /\ l.unproven = m.unproven /\ l.departed = m.departed
        /\ l.signedOut = m.signedOut \/ l.signedOut = FALSE
    BY <2>1, LiftedOrigin, LiftedFacts
  <2>5. k \in Keys /\ (s.out => KeyIdentity(k) = None /\ k.token = None) /\ (~s.out => k = s)
    BY <2>2 DEF Keys, EmptyKey, KeyIdentity
  <2>6. /\ n.id \in {l.id, None, KeyIdentity(k)} /\ (n.id \in {l.id, None} \/ ~n.minted)
        /\ n.pending \in {l.pending, None, k.token}
        /\ Proven(n) => Proven(l) /\ n.pending = l.pending
        /\ n.signedOut => l.signedOut
        /\ n.departed \subseteq l.departed
        /\ l.departed = {} /\ k.token # None /\ n.id = None => n.pending = k.token
    BY <2>3, <2>4, <2>5, FollowedOrigin
  <2>7. (n.signedOut => m.signedOut) /\ (Proven(l) => Proven(m))
    BY <2>4, <2>6 DEF Proven
  <2>8. CASE s.out
    BY <2>4, <2>5, <2>6, <2>7, <2>8 DEF Origin
  <2>9. CASE ~s.out
    BY <2>4, <2>5, <2>6, <2>7, <2>9 DEF Origin
  <2> QED
    BY <2>8, <2>9
<1> QED
  BY <1>1, <1>2

-----------------------------------------------------------------------------
(* One step of a tab                                                       *)

(* The same view of the key, in another memory of the tab.                 *)
Same(m, n) ==
    /\ DOMAIN n = TabFields
    /\ n.id = m.id /\ n.signedOut = m.signedOut /\ n.pending = m.pending
    /\ n.sessionOnly = m.sessionOnly /\ n.departed = m.departed /\ n.shared = m.shared

LEMMA SameView ==
    ASSUME NEW m, View(m), NEW n, Same(m, n)
    PROVE  View(n) /\ \A s : Agrees(m, s) => Agrees(n, s)
BY DEF View, Same, Agrees

LEMMA WaitsAsks ==
    ASSUME NEW m, Asks(m), NEW n, Waits(m, n)
    PROVE  Asks(n) /\ (Asking(n) <=> Asking(m))
BY DEF Asks, Waits, Asking

LEMMA Few ==
    ASSUME NEW k \in Nat
    PROVE  /\ k > 0 /\ k <= 2 => k \in {1, 2}
           /\ k < 2 => k \in {0, 1}
OBVIOUS

LEMMA TailFacts ==
    ASSUME NEW q \in Seq(Boot), Len(q) > 0, Len(q) <= 2
    PROVE  /\ Tail(q) \in Seq(Boot) /\ Len(Tail(q)) <= 1
           /\ Len(Tail(q)) > 0 => Len(q) = 2 /\ Tail(q)[1] = q[2]
<1>1. q # <<>> /\ Len(q) \in Nat
  BY LenProperties
<1>2. Tail(q) \in Seq(Boot) /\ Len(Tail(q)) = Len(q) - 1 /\ \A i \in 1..Len(Tail(q)) : Tail(q)[i] = q[i + 1]
  BY <1>1, HeadTailProperties
<1>3. Len(q) \in {1, 2}
  BY <1>1, Few
<1>4. CASE Len(q) = 1
  BY <1>2, <1>4
<1>5. CASE Len(q) = 2
  <2>1. Len(Tail(q)) = 1
    BY <1>2, <1>5
  <2>2. 1 \in 1..Len(Tail(q)) /\ 1 + 1 = 2
    BY <2>1
  <2>3. Tail(q)[1] = q[1 + 1]
    BY <1>2, <2>2
  <2> QED
    BY <1>2, <1>5, <2>1, <2>2, <2>3
<1> QED
  BY <1>3, <1>4, <1>5

LEMMA AppendFacts ==
    ASSUME NEW q \in Seq(Boot), Len(q) < 2, NEW b \in Boot
    PROVE  /\ Len(q) \in {0, 1}
           /\ Append(q, b) \in Seq(Boot) /\ Len(Append(q, b)) = Len(q) + 1
           /\ Len(q) = 0 => Append(q, b)[1] = b
           /\ Len(q) = 1 => Append(q, b)[1] = q[1] /\ Append(q, b)[2] = b
<1>1. Len(q) \in Nat
  BY LenProperties
<1>2. /\ Append(q, b) \in Seq(Boot) /\ Len(Append(q, b)) = Len(q) + 1
      /\ \A i \in 1..Len(q) : Append(q, b)[i] = q[i]
      /\ Append(q, b)[Len(q) + 1] = b
  BY AppendProperties
<1>3. Len(q) \in {0, 1}
  BY <1>1, Few
<1>4. CASE Len(q) = 0
  BY <1>2, <1>4
<1>5. CASE Len(q) = 1
  <2>1. 1 \in 1..Len(q) /\ 1 + 1 = 2
    BY <1>5
  <2> QED
    BY <1>2, <1>5, <2>1
<1> QED
  BY <1>2, <1>3, <1>4, <1>5

(* The end of a bootstrap leaves at most the one queued behind it.         *)
LEMMA EndedFacts ==
    ASSUME NEW m, DOMAIN m = TabFields, Asks(m), Len(m.boots) > 0, NEW n, n = Ended(m)
    PROVE  Same(m, n) /\ n.event = m.event /\ n.link = m.link /\ Asks(n) /\ ~Asking(n)
<1> DEFINE q == Tail(m.boots)
<1>1. /\ Same(m, n) /\ n.event = m.event /\ n.boots = q
      /\ n.verdict = m.verdict /\ n.deleting = m.deleting /\ n.link = m.link
  BY DEF Ended, TabFields, Same
<1> HIDE DEF q
<1>2. /\ m.boots \in Seq(Boot) /\ Len(m.boots) <= 2
      /\ Len(m.boots) = 2 => m.boots[2].at = "queued"
  BY DEF Asks
<1>3. q \in Seq(Boot) /\ Len(q) <= 1 /\ (Len(q) > 0 => Len(m.boots) = 2 /\ q[1] = m.boots[2])
  BY <1>2, TailFacts DEF q
<1>4. Len(q) > 0 => q[1].at = "queued"
  BY <1>2, <1>3
<1>5. Len(q) \in Nat
  BY <1>3, LenProperties
<1>6. m.verdict \in Ids \cup {None} /\ m.deleting \in Ids \cup {None}
      /\ m.link \in [from : Ids, to : 1..MaxDevice] \cup {None}
  BY DEF Asks
<1>7. Asks(n) /\ ~Asking(n)
  BY <1>1, <1>3, <1>4, <1>5, <1>6 DEF Asks, Asking
<1> QED
  BY <1>1, <1>7

(* A first bootstrap that is on its way, or whose answer is in.            *)
LEMMA AskedFacts ==
    ASSUME NEW m, DOMAIN m = TabFields, Asks(m), Len(m.boots) > 0,
           NEW b \in Boot, b.at # "queued", b.token \in Tokens, b.at = "answered" => b.ids \in Ids,
           NEW n, DOMAIN n = TabFields, n.boots = [m.boots EXCEPT ![1] = b],
           n.verdict = m.verdict, n.deleting = m.deleting, n.link = m.link
    PROVE  Asks(n) /\ Asking(n) /\ n.boots[1] = b
<1> DEFINE q == [m.boots EXCEPT ![1] = b]
<1>1. q \in Seq(Boot) /\ Len(q) = Len(m.boots) /\ q[1] = b /\ (Len(q) = 2 => q[2] = m.boots[2])
  BY DEF Asks
<1> HIDE DEF q
<1>2. n.boots = q
  BY DEF q
<1> QED
  BY <1>1, <1>2 DEF Asks, Asking

(* An act queues behind the bootstrap the tab has, if any.                 *)
LEMMA QueuedFacts ==
    ASSUME NEW m, DOMAIN m = TabFields, Asks(m), Len(m.boots) < 2,
           NEW n, n = [m EXCEPT !.boots = Append(@, Queued), !.flight = TRUE]
    PROVE  Same(m, n) /\ n.event = m.event /\ n.link = m.link /\ Asks(n) /\ (Asking(n) <=> Asking(m))
<1> DEFINE q == Append(m.boots, Queued)
<1>1. /\ Same(m, n) /\ n.event = m.event /\ n.boots = q
      /\ n.verdict = m.verdict /\ n.deleting = m.deleting /\ n.link = m.link
  BY DEF TabFields, Same
<1>2. Queued \in Boot /\ Queued.at = "queued"
  BY DEF Queued, Boot
<1>3. m.boots \in Seq(Boot) /\ Len(m.boots) < 2
  BY DEF Asks
<1>4. /\ Len(m.boots) \in {0, 1} /\ q \in Seq(Boot) /\ Len(q) = Len(m.boots) + 1
      /\ Len(m.boots) = 0 => q[1] = Queued
      /\ Len(m.boots) = 1 => q[1] = m.boots[1] /\ q[2] = Queued
  BY <1>2, <1>3, AppendFacts
<1> HIDE DEF q
<1>5. Asks(n) /\ (Asking(n) <=> Asking(m))
  BY <1>1, <1>2, <1>4 DEF Asks, Asking
<1> QED
  BY <1>1, <1>5

(* The tab becomes m and the key s, and the others hear of it.             *)
Move(t, m, s) ==
    /\ DOMAIN tab' = Tabs /\ tab'[t] = m /\ stored' = s
    /\ \A u \in Tabs \ {t} : tab'[u] = IF s # stored THEN [tab[u] EXCEPT !.event = TRUE] ELSE tab[u]
    /\ DOMAIN left' = Tabs /\ m.departed \subseteq left'[t]
    /\ \A u \in Tabs \ {t} : left'[u] = left[u]
    /\ s # stored => left[t] \subseteq left'[t]

(* What m and s must be for the tab to go on being sound.                  *)
Keeps(m, s) == View(m) /\ Asks(m) /\ s \in Keys /\ (~m.event => Agrees(m, s))

(* A whole identity goes out of the key only if the tab left its token, or *)
(* its link has landed.                                                    *)
Replaces(t, m, s) ==
    KeyIdentity(stored) # None /\ s.token # stored.token =>
        stored.token \in m.departed \cup tab[t].departed \/ (tab[t].link # None /\ m.link = None)

(* A token taken up is not one the tab has left, or it asked for it.       *)
Takes(t, m) ==
    left[t] \subseteq left'[t] /\ m.id # None /\ TokensOf(m) # TokensOf(tab[t]) =>
        m.id.token \notin tab[t].departed \/ (Len(tab[t].boots) > 0 /\ m.id.token = tab[t].boots[1].token)

(* The lock is held by the tab that asks.                                  *)
Locks(t, m) ==
    \/ lock' = lock /\ (Asking(m) <=> Asking(tab[t]))
    \/ lock \in {t, None} /\ lock' \in {t, None} /\ (Asking(m) <=> lock' = t)

TabTypes ==
    /\ DOMAIN tab = Tabs /\ DOMAIN left = Tabs
    /\ \A t \in Tabs : View(tab[t]) /\ Asks(tab[t]) /\ tab[t].departed \subseteq left[t]

LockInv == lock \in Tabs \cup {None} /\ \A t \in Tabs : Asking(tab[t]) <=> lock = t

Sound ==
    /\ TabTypes /\ LockInv
    /\ stored \in Keys
    /\ \A t \in Tabs : ~tab[t].event => Agrees(tab[t], stored)

LEMMA Committed ==
    ASSUME TabTypes, NEW t \in Tabs, NEW m, NEW s, NEW ok, Commit(t, m, s, ok)
    PROVE  Move(t, m, s)
<1>1. /\ tab' = [u \in Tabs |-> IF u = t THEN m
                                 ELSE IF s # stored THEN [tab[u] EXCEPT !.event = TRUE] ELSE tab[u]]
      /\ stored' = s /\ left' = [left EXCEPT ![t] = @ \cup (m.departed \ tab[t].departed)]
  BY DEF Commit
<1>2. DOMAIN left = Tabs /\ tab[t].departed \subseteq left[t]
  BY DEF TabTypes
<1>3. left'[t] = left[t] \cup (m.departed \ tab[t].departed)
  BY <1>1, <1>2
<1>4. m.departed \subseteq left'[t] /\ left[t] \subseteq left'[t]
  BY <1>2, <1>3
<1> QED
  BY <1>1, <1>2, <1>4 DEF Move

(* A tab that alone changed, and not the key.                              *)
LEMMA AloneMoves ==
    ASSUME TabTypes, NEW t \in Tabs, NEW m, tab' = [tab EXCEPT ![t] = m], stored' = stored,
           \/ left' = left /\ m.departed = tab[t].departed
           \/ left' = [left EXCEPT ![t] = @ \cup (m.departed \ tab[t].departed)]
    PROVE  Move(t, m, stored)
<1>1. DOMAIN tab = Tabs /\ DOMAIN left = Tabs /\ tab[t].departed \subseteq left[t]
  BY DEF TabTypes
<1>2. m.departed \subseteq left'[t] /\ DOMAIN left' = Tabs /\ \A u \in Tabs \ {t} : left'[u] = left[u]
  <2>1. CASE left' = left /\ m.departed = tab[t].departed
    BY <1>1, <2>1
  <2>2. CASE left' = [left EXCEPT ![t] = @ \cup (m.departed \ tab[t].departed)]
    <3>1. left'[t] = left[t] \cup (m.departed \ tab[t].departed)
      BY <1>1, <2>2
    <3> QED
      BY <1>1, <2>2, <3>1
  <2> QED
    BY <2>1, <2>2
<1> QED
  BY <1>1, <1>2 DEF Move

LEMMA MovesSoundly ==
    ASSUME Sound, NEW t \in Tabs, NEW m, NEW s, Move(t, m, s), Keeps(m, s), Locks(t, m)
    PROVE  Sound'
<1>1. /\ tab'[t] = m /\ stored' = s /\ DOMAIN tab' = Tabs /\ DOMAIN left' = Tabs
      /\ m.departed \subseteq left'[t]
  BY DEF Move
<1>2. ASSUME NEW u \in Tabs, u # t
      PROVE  /\ View(tab[u])' /\ Asks(tab[u])' /\ tab'[u].departed \subseteq left'[u]
             /\ (Asking(tab'[u]) <=> Asking(tab[u]))
             /\ ~tab'[u].event => Agrees(tab'[u], s)
  <2> DEFINE n == tab'[u]
             o == tab[u]
  <2>1. n = IF s # stored THEN [o EXCEPT !.event = TRUE] ELSE o
    BY <1>2 DEF Move
  <2>2. View(o) /\ Asks(o) /\ o.departed \subseteq left[u] /\ left'[u] = left[u]
        /\ (~o.event => Agrees(o, stored))
    BY <1>2 DEF Sound, TabTypes, Move
  <2> HIDE DEF n, o
  <2>3. Same(o, n) /\ Waits(o, n) /\ (s # stored => n.event = TRUE) /\ (s = stored => n = o)
    BY <2>1, <2>2 DEF Same, Waits, View, TabFields
  <2>4. View(n) /\ Asks(n) /\ n.departed \subseteq left'[u] /\ (Asking(n) <=> Asking(o))
    BY <2>2, <2>3, SameView, WaitsAsks DEF Same
  <2>5. ~n.event => Agrees(n, s)
    BY <2>2, <2>3
  <2> QED
    BY <2>4, <2>5 DEF n, o
<1>3. View(m) /\ Asks(m) /\ s \in Keys /\ (~m.event => Agrees(m, s))
  BY DEF Keeps
<1>4. TabTypes'
  BY <1>1, <1>2, <1>3 DEF TabTypes
<1>5. LockInv'
  BY <1>1, <1>2, NoneAssumption DEF Locks, LockInv, Sound, NoneAssumption
<1>6. \A u \in Tabs : ~tab'[u].event => Agrees(tab'[u], s)
  BY <1>1, <1>2, <1>3
<1>7. (\A u \in Tabs : ~tab[u].event => Agrees(tab[u], stored))'
  BY <1>1, <1>6
<1> QED
  BY <1>1, <1>3, <1>4, <1>5, <1>7 DEF Sound

Goes(t) ==
    \E m, s : Move(t, m, s) /\ Keeps(m, s) /\ Locks(t, m) /\ Replaces(t, m, s) /\ Takes(t, m)

LEMMA SoundTab ==
    ASSUME Sound, NEW t \in Tabs
    PROVE  /\ View(tab[t]) /\ Asks(tab[t]) /\ DOMAIN tab[t] = TabFields /\ tab[t].departed \subseteq left[t]
           /\ TabTypes /\ DOMAIN tab = Tabs /\ stored \in Keys
           /\ (Asking(tab[t]) <=> lock = t) /\ lock \in Tabs \cup {None} /\ t # None
           /\ ~tab[t].event => Agrees(tab[t], stored)
BY NoneAssumption DEF Sound, TabTypes, LockInv, View, NoneAssumption

(* The tab that has read the key.                                          *)
LEMMA SyncsWell ==
    ASSUME Sound, NEW t \in Tabs, NEW m, m = Synced(tab[t], stored)
    PROVE  /\ View(m) /\ Asks(m) /\ Waits(tab[t], m) /\ (Asking(m) <=> Asking(tab[t]))
           /\ DOMAIN m = TabFields /\ Agrees(m, stored) /\ Takes(t, m)
           /\ \A ok : LET k == KeyAfterSync(tab[t], stored, ok) IN
                /\ k \in Keys /\ Agrees(m, k)
                /\ KeyIdentity(stored) # None => k = stored
<1>1. PICK o : o = tab[t]
  OBVIOUS
<1>2. View(o) /\ Asks(o) /\ stored \in Keys
  BY <1>1, SoundTab
<1>3. m = Synced(o, stored)
  BY <1>1
<1>4. /\ View(m) /\ Waits(o, m) /\ Agrees(m, stored)
      /\ m.id \in {o.id, None} \/ m.id.token \notin o.departed
      /\ \A ok : /\ KeyAfterSync(o, stored, ok) \in Keys /\ Agrees(m, KeyAfterSync(o, stored, ok))
                 /\ KeyIdentity(stored) # None => KeyAfterSync(o, stored, ok) = stored
  BY <1>2, <1>3, SyncedFacts
<1>5. Asks(m) /\ (Asking(m) <=> Asking(o)) /\ DOMAIN m = TabFields
  BY <1>2, <1>4, WaitsAsks DEF View
<1>6. Takes(t, m)
  BY <1>1, <1>4 DEF Takes, TokensOf
<1> QED
  BY <1>1, <1>4, <1>5, <1>6

LEMMA SameTakes ==
    ASSUME NEW t, NEW m, NEW n, Same(m, n), Takes(t, m)
    PROVE  Takes(t, n)
BY DEF Same, Takes, TokensOf

LEMMA OwnTakes ==
    ASSUME NEW t, NEW m, m.id = tab[t].id \/ m.id = None
    PROVE  Takes(t, m)
BY DEF Takes, TokensOf

LEMMA FollowGoes ==
    ASSUME Sound, NEW t \in Tabs, Follow(t)
    PROVE  Goes(t)
<1>1. PICK ok : Commit(t, [Synced(tab[t], stored) EXCEPT !.event = FALSE], KeyAfterSync(tab[t], stored, ok), ok)
  BY DEF Follow
<1>2. PICK m : m = Synced(tab[t], stored)
  OBVIOUS
<1>3. PICK n : n = [m EXCEPT !.event = FALSE]
  OBVIOUS
<1>4. PICK k : k = KeyAfterSync(tab[t], stored, ok)
  OBVIOUS
<1>5. /\ View(m) /\ Asks(m) /\ (Asking(m) <=> Asking(tab[t])) /\ DOMAIN m = TabFields /\ Takes(t, m)
      /\ k \in Keys /\ Agrees(m, k) /\ (KeyIdentity(stored) # None => k = stored)
  BY <1>2, <1>4, SyncsWell
<1>6. Same(m, n) /\ Waits(m, n)
  BY <1>3, <1>5 DEF Same, Waits, TabFields
<1>7. View(n) /\ Agrees(n, k) /\ Asks(n) /\ (Asking(n) <=> Asking(tab[t])) /\ Takes(t, n)
  BY <1>5, <1>6, SameView, WaitsAsks, SameTakes
<1>8. Move(t, n, k)
  BY <1>1, <1>2, <1>3, <1>4, Committed, SoundTab
<1>9. lock' = lock
  BY DEF Follow
<1> QED
  BY <1>5, <1>7, <1>8, <1>9 DEF Goes, Keeps, Locks, Replaces

StoreTypes ==
    /\ device \in [Tokens -> Ids \cup {None}]
    /\ made \in 0..MaxDevice /\ used \in 0..MaxToken
    /\ spare \in Budgets

LEMMA EnsureGoes ==
    ASSUME Sound, NEW t \in Tabs, Ensure(t)
    PROVE  Goes(t)
<1>1. PICK m : m = Synced(tab[t], stored)
  OBVIOUS
<1>2. PICK n : n = IF m.flight THEN m ELSE [m EXCEPT !.boots = Append(@, Queued), !.flight = TRUE]
  OBVIOUS
<1>3. /\ tab' = [tab EXCEPT ![t] = n] /\ m.id = None /\ Len(tab[t].boots) < 2
      /\ left' = [left EXCEPT ![t] = @ \cup (m.departed \ tab[t].departed)]
      /\ stored' = stored /\ lock' = lock
  BY <1>1, <1>2 DEF Ensure
<1>4. /\ View(m) /\ Asks(m) /\ (Asking(m) <=> Asking(tab[t])) /\ DOMAIN m = TabFields
      /\ Agrees(m, stored) /\ m.boots = tab[t].boots
  BY <1>1, SyncsWell DEF Waits
<1>5. Same(m, n) /\ Asks(n) /\ (Asking(n) <=> Asking(m))
  <2>1. CASE m.flight
    BY <1>2, <1>4, <2>1 DEF Same
  <2>2. CASE ~m.flight
    <3>1. n = [m EXCEPT !.boots = Append(@, Queued), !.flight = TRUE] /\ Len(m.boots) < 2
      BY <1>2, <1>3, <1>4, <2>2
    <3> QED
      BY <1>4, <3>1, QueuedFacts
  <2> QED
    BY <2>1, <2>2
<1>6. View(n) /\ Agrees(n, stored) /\ n.id = None /\ n.departed = m.departed
  BY <1>3, <1>4, <1>5, SameView DEF Same
<1>7. Move(t, n, stored)
  BY <1>3, <1>6, AloneMoves, SoundTab
<1>8. Takes(t, n) /\ stored \in Keys
  BY <1>6, OwnTakes, SoundTab
<1> QED
  BY <1>3, <1>4, <1>5, <1>6, <1>7, <1>8 DEF Goes, Keeps, Locks, Replaces

(* The first bootstrap of a tab.                                           *)
LEMMA FirstBoot ==
    ASSUME NEW m, Asks(m), Len(m.boots) > 0
    PROVE  /\ m.boots[1] \in Boot
           /\ m.boots[1].at # "queued" => m.boots[1].token \in Tokens
           /\ m.boots[1].at = "answered" => m.boots[1].ids \in Ids
           /\ m.boots # <<>>
           /\ Asking(m) <=> m.boots[1].at # "queued"
BY DEF Asks, Asking

LEMMA SomeBoot ==
    ASSUME NEW m, Asks(m), m.boots # <<>>
    PROVE  Len(m.boots) > 0
<1>1. m.boots \in Seq(Boot)
  BY DEF Asks
<1>2. Len(m.boots) \in Nat /\ Len(m.boots) # 0
  BY <1>1, LenProperties, EmptySeq
<1> QED
  BY <1>2

LEMMA PendingKeyFacts ==
    ASSUME NEW token \in Tokens
    PROVE  PendingKey(token) \in Keys /\ PendingKey(token).token = token /\ PendingKey(token).out = FALSE
           /\ KeyIdentity(PendingKey(token)) = None
BY DEF PendingKey, Keys, EmptyKey, KeyIdentity

(* The token goes out to be resolved, and into the key if it can.          *)
LEMMA EnterAsks ==
    ASSUME NEW m, View(m), Asks(m), Len(m.boots) > 0, m.id = None,
           NEW token \in Tokens,
           NEW n, DOMAIN n = TabFields, n.pending = token, n.id = m.id,
           n.boots = [m.boots EXCEPT ![1] = [at |-> "asking", token |-> token, ids |-> None]],
           n.verdict = m.verdict, n.deleting = m.deleting, n.link = m.link,
           n.shared = m.shared, n.signedOut = m.signedOut
    PROVE  View(n) /\ Asks(n) /\ Asking(n) /\ n.boots[1].token = token
<1>1. PICK b : b = [at |-> "asking", token |-> token, ids |-> None]
  OBVIOUS
<1>2. b \in Boot /\ b.at = "asking" /\ b.token = token
  BY <1>1 DEF Boot
<1>3. PICK q : q = [m.boots EXCEPT ![1] = b]
  OBVIOUS
<1>4. q \in Seq(Boot) /\ Len(q) = Len(m.boots) /\ q[1] = b /\ (Len(q) = 2 => q[2] = m.boots[2])
  BY <1>2, <1>3 DEF Asks
<1>5. n.boots = q
  BY <1>1, <1>3
<1>6. Asks(n) /\ Asking(n)
  BY <1>2, <1>4, <1>5 DEF Asks, Asking
<1>7. View(n)
  BY DEF View
<1> QED
  BY <1>2, <1>4, <1>5, <1>6, <1>7

LEMMA EnterGoes ==
    ASSUME Sound, StoreTypes, NEW t \in Tabs, Enter(t)
    PROVE  Goes(t)
<1>1. PICK m : m = Synced(tab[t], stored)
  OBVIOUS
<1>2. PICK token : token = TokenFor(m)
  OBVIOUS
<1>3. /\ tab[t].boots # <<>> /\ tab[t].boots[1].at = "queued" /\ lock = None
  BY DEF Enter, MayEnter
<1>4. /\ View(m) /\ Asks(m) /\ Waits(tab[t], m) /\ (Asking(m) <=> Asking(tab[t]))
      /\ DOMAIN m = TabFields /\ Agrees(m, stored) /\ Takes(t, m)
  BY <1>1, SyncsWell
<1>5. m.boots = tab[t].boots /\ Len(m.boots) > 0 /\ m.boots[1].at = "queued" /\ ~Asking(m)
  BY <1>3, <1>4, SomeBoot DEF Waits, Asking
<1>6. PICK ok \in Writes :
        IF m.id # None \/ m.signedOut
        THEN /\ Commit(t, Ended(m), KeyAfterSync(tab[t], stored, ok), ok)
             /\ UNCHANGED <<lock, used>>
        ELSE /\ token <= MaxToken
             /\ Commit(t, [m EXCEPT !.pending = token,
                                    !.unproven = IF m.pending = None THEN FALSE ELSE @,
                                    !.boots[1] = [at |-> "asking", token |-> token, ids |-> None]],
                       IF ok THEN PendingKey(token) ELSE KeyAfterSync(tab[t], stored, FALSE), ok)
             /\ lock' = t
             /\ used' = IF token > used THEN token ELSE used
  BY <1>1, <1>2 DEF Enter
<1>7. PICK k : k = KeyAfterSync(tab[t], stored, ok)
  OBVIOUS
<1>8. k \in Keys /\ Agrees(m, k) /\ (KeyIdentity(stored) # None => k = stored)
  BY <1>1, <1>7, SyncsWell
<1>9. CASE m.id # None \/ m.signedOut
  <2>1. PICK n : n = Ended(m)
    OBVIOUS
  <2>2. Same(m, n) /\ Asks(n) /\ ~Asking(n)
    BY <1>4, <1>5, <2>1, EndedFacts
  <2>3. View(n) /\ Agrees(n, k) /\ Takes(t, n)
    BY <1>4, <1>8, <2>2, SameView, SameTakes
  <2>4. Move(t, n, k) /\ lock' = lock
    BY <1>6, <1>7, <1>9, <2>1, Committed, SoundTab
  <2> QED
    BY <1>4, <1>5, <1>8, <2>2, <2>3, <2>4 DEF Goes, Keeps, Locks, Replaces
<1>10. CASE ~(m.id # None \/ m.signedOut)
  <2>1. PICK n : n = [m EXCEPT !.pending = token,
                               !.unproven = IF m.pending = None THEN FALSE ELSE @,
                               !.boots[1] = [at |-> "asking", token |-> token, ids |-> None]]
    OBVIOUS
  <2>2. token \in Tokens
    BY <1>2, <1>4, <1>6, <1>10 DEF TokenFor, View, Tokens, StoreTypes
  <2>3. /\ DOMAIN n = TabFields /\ n.pending = token /\ n.id = m.id
        /\ n.boots = [m.boots EXCEPT ![1] = [at |-> "asking", token |-> token, ids |-> None]]
        /\ n.verdict = m.verdict /\ n.deleting = m.deleting /\ n.link = m.link
        /\ n.shared = m.shared /\ n.signedOut = m.signedOut /\ n.departed = m.departed
    BY <1>4, <2>1 DEF TabFields
  <2>4. View(n) /\ Asks(n) /\ Asking(n)
    BY <1>4, <1>5, <1>10, <2>2, <2>3, EnterAsks
  <2>5. n.id = None /\ n.departed = m.departed /\ n.shared = m.shared
    BY <1>10, <2>3
  <2>6. PICK s : s = IF ok THEN PendingKey(token) ELSE KeyAfterSync(tab[t], stored, FALSE)
    OBVIOUS
  <2>7. /\ s \in Keys
        /\ \/ KeyIdentity(s) = None /\ s.token = token
           \/ Agrees(m, s) /\ (KeyIdentity(stored) # None => s = stored)
    BY <1>1, <2>2, <2>6, PendingKeyFacts, SyncsWell
  <2>8. Agrees(n, s)
    BY <1>4, <1>10, <2>5, <2>7 DEF Agrees, View
  <2>9. Replaces(t, n, s)
    BY <1>1, <1>4, <1>10, <2>5, <2>7 DEF Agrees, Replaces
  <2>10. Move(t, n, s) /\ lock' = t
    <3>1. Commit(t, n, s, ok) /\ lock' = t
      BY <1>6, <1>10, <2>1, <2>6
    <3> QED
      BY <3>1, Committed, SoundTab
  <2> QED
    BY <1>3, <2>4, <2>5, <2>7, <2>8, <2>9, <2>10, OwnTakes DEF Goes, Keeps, Locks
<1> QED
  BY <1>9, <1>10

(* The identity a registration answers with.                               *)
LEMMA Answered ==
    ASSUME StoreTypes, NEW token \in Tokens, NEW ids,
           ids = IF Standing(token) THEN device[token] ELSE [account |-> made + 1, device |-> made + 1],
           ids.device <= MaxDevice
    PROVE  ids \in Ids
<1>1. CASE Standing(token)
  BY <1>1 DEF Standing, StoreTypes
<1>2. CASE ~Standing(token)
  <2>1. ids = [account |-> made + 1, device |-> made + 1]
    BY <1>2
  <2>2. made + 1 \in 1..MaxDevice
    BY <2>1, SizesAssumption DEF StoreTypes, SizesAssumption
  <2> QED
    BY <2>1, <2>2 DEF Ids
<1> QED
  BY <1>1, <1>2

LEMMA RegisterGoes ==
    ASSUME Sound, StoreTypes, NEW t \in Tabs, Register(t)
    PROVE  Goes(t)
<1>1. PICK m : m = tab[t]
  OBVIOUS
<1>2. PICK token : token = m.boots[1].token
  OBVIOUS
<1>3. PICK ids : ids = IF Standing(token) THEN device[token] ELSE [account |-> made + 1, device |-> made + 1]
  OBVIOUS
<1>4. PICK b : b = [at |-> "answered", token |-> token, ids |-> ids]
  OBVIOUS
<1>5. PICK n : n = [m EXCEPT !.boots[1] = b]
  OBVIOUS
<1>6. /\ m.boots # <<>> /\ m.boots[1].at = "asking" /\ ids.device <= MaxDevice
      /\ tab' = [tab EXCEPT ![t].boots[1] = [at |-> "answered", token |-> token, ids |-> ids]]
      /\ stored' = stored /\ lock' = lock /\ left' = left
  BY <1>1, <1>2, <1>3 DEF Register
<1>7. /\ View(m) /\ Asks(m) /\ DOMAIN m = TabFields /\ DOMAIN tab = Tabs
      /\ TabTypes /\ stored \in Keys /\ (~m.event => Agrees(m, stored))
  BY <1>1, SoundTab
<1>8. Len(m.boots) > 0 /\ token \in Tokens /\ Asking(m)
  BY <1>2, <1>6, <1>7, SomeBoot, FirstBoot
<1>9. ids \in Ids
  BY <1>3, <1>6, <1>8, Answered
<1>10. b \in Boot /\ b.at = "answered" /\ b.token = token /\ b.ids = ids
  BY <1>4, <1>8, <1>9 DEF Boot
<1>11. tab' = [tab EXCEPT ![t] = n]
  BY <1>1, <1>4, <1>5, <1>6
<1>12. /\ Same(m, n) /\ n.event = m.event /\ n.boots = [m.boots EXCEPT ![1] = b]
       /\ n.verdict = m.verdict /\ n.deleting = m.deleting /\ n.link = m.link
  BY <1>5, <1>7 DEF TabFields, Same
<1>13. Asks(n) /\ Asking(n)
  <2>1. PICK q : q = [m.boots EXCEPT ![1] = b]
    OBVIOUS
  <2>2. q \in Seq(Boot) /\ Len(q) = Len(m.boots) /\ q[1] = b /\ (Len(q) = 2 => q[2] = m.boots[2])
    BY <1>7, <1>8, <1>10, <2>1 DEF Asks
  <2>3. n.boots = q
    BY <1>12, <2>1
  <2> QED
    BY <1>7, <1>8, <1>9, <1>10, <1>12, <2>2, <2>3 DEF Asks, Asking
<1>14. View(n) /\ (~n.event => Agrees(n, stored)) /\ n.departed = m.departed /\ n.id = m.id
  BY <1>7, <1>12, SameView DEF Same
<1>15. Move(t, n, stored)
  BY <1>1, <1>6, <1>7, <1>11, <1>14, AloneMoves
<1>16. Takes(t, n)
  BY <1>1, <1>14, OwnTakes
<1> QED
  BY <1>1, <1>6, <1>7, <1>8, <1>13, <1>14, <1>15, <1>16 DEF Goes, Keeps, Locks, Replaces

LEMMA BootFailsGoes ==
    ASSUME Sound, NEW t \in Tabs, BootFails(t)
    PROVE  Goes(t)
<1>1. PICK m : m = tab[t]
  OBVIOUS
<1>2. PICK e : e = Ended(m)
  OBVIOUS
<1>3. PICK n : n = Released(m)
  OBVIOUS
<1>4. /\ m.boots # <<>> /\ m.boots[1].at # "queued" /\ tab' = [tab EXCEPT ![t] = n]
      /\ stored' = stored /\ lock' = None /\ left' = left
  BY <1>1, <1>3 DEF BootFails
<1>5. /\ View(m) /\ Asks(m) /\ DOMAIN m = TabFields /\ DOMAIN tab = Tabs
      /\ TabTypes /\ stored \in Keys /\ (~m.event => Agrees(m, stored)) /\ (Asking(m) <=> lock = t) /\ t # None
  BY <1>1, SoundTab
<1>6. Len(m.boots) > 0 /\ Asking(m)
  BY <1>4, <1>5, SomeBoot DEF Asking
<1>7. Same(m, e) /\ e.event = m.event /\ Asks(e) /\ ~Asking(e)
  BY <1>2, <1>5, <1>6, EndedFacts
<1>8. n = [e EXCEPT !.unproven = TRUE]
  BY <1>2, <1>3 DEF Released
<1>9. Same(e, n) /\ n.event = e.event /\ Waits(e, n)
  BY <1>7, <1>8 DEF Same, Waits, TabFields
<1>10. Same(m, n) /\ n.event = m.event /\ Asks(n) /\ ~Asking(n)
  BY <1>7, <1>9, WaitsAsks DEF Same
<1>11. View(n) /\ (~n.event => Agrees(n, stored)) /\ n.departed = m.departed /\ n.id = m.id
  BY <1>5, <1>10, SameView DEF Same
<1>12. Move(t, n, stored)
  BY <1>1, <1>4, <1>5, <1>11, AloneMoves
<1>13. Takes(t, n)
  BY <1>1, <1>11, OwnTakes
<1> QED
  BY <1>1, <1>4, <1>5, <1>6, <1>10, <1>11, <1>12, <1>13 DEF Goes, Keeps, Locks, Replaces

(* An answer that is taken: nothing is pending any more.                   *)
LEMMA LandedFacts ==
    ASSUME NEW m, View(m), Asks(m), Len(m.boots) > 0, NEW y, y = Settled(Ended(m))
    PROVE  /\ DOMAIN y = TabFields /\ y.pending = None /\ y.departed = m.departed /\ y.event = m.event
           /\ y.shared = m.shared /\ y.link = m.link /\ Asks(y) /\ ~Asking(y)
<1>1. PICK x : x = Ended(m)
  OBVIOUS
<1>2. Same(m, x) /\ x.event = m.event /\ x.link = m.link /\ Asks(x) /\ ~Asking(x)
  BY <1>1, EndedFacts DEF View
<1>3. y = Settled(x)
  BY <1>1
<1>4. /\ DOMAIN y = TabFields /\ y.pending = None /\ y.shared = x.shared /\ y.departed = x.departed
      /\ y.event = x.event /\ Waits(x, y)
  BY <1>2, <1>3, SettledFacts DEF Same
<1>5. Asks(y) /\ ~Asking(y)
  BY <1>2, <1>4, WaitsAsks
<1> QED
  BY <1>2, <1>4, <1>5 DEF Same, Waits

LEMMA WholeIdentity ==
    ASSUME NEW token \in Tokens, NEW ids \in Ids
    PROVE  Whole(token, ids) \in Identity /\ Whole(token, ids).token = token
           /\ Whole(token, ids).account = ids.account
BY DEF Whole, Identity, Ids

LEMMA BootLandsGoes ==
    ASSUME Sound, NEW t \in Tabs, BootLands(t)
    PROVE  Goes(t)
<1>1. PICK m : m = tab[t]
  OBVIOUS
<1>2. PICK mine : mine = Whole(m.boots[1].token, m.boots[1].ids)
  OBVIOUS
<1>3. PICK y : y = Settled(Ended(m))
  OBVIOUS
<1>4. PICK k : k = KeyIdentity(stored)
  OBVIOUS
<1>5. /\ m.boots # <<>> /\ m.boots[1].at = "answered" /\ lock' = None
  BY <1>1 DEF BootLands
<1>6. PICK ok \in BOOLEAN :
        IF m.signedOut THEN ok /\ Commit(t, Ended(m), stored, ok)
        ELSE IF Raced(m, m.boots[1].token)
        THEN Commit(t, Publish([y EXCEPT !.sessionOnly = FALSE, !.departed = {}], k, FALSE, FALSE, None), stored, ok)
        ELSE Commit(t, Publish([y EXCEPT !.sessionOnly = ~ok, !.departed = IF ok THEN {} ELSE y.departed],
                               mine, FALSE, ~m.unproven, None),
                    IF ok THEN WholeKey(mine) ELSE stored, ok)
  BY <1>1, <1>2, <1>3, <1>4 DEF BootLands, Writes
<1>7. /\ View(m) /\ Asks(m) /\ DOMAIN m = TabFields /\ stored \in Keys /\ TabTypes
      /\ (~m.event => Agrees(m, stored)) /\ (Asking(m) <=> lock = t) /\ t # None
  BY <1>1, SoundTab
<1>8. Len(m.boots) > 0 /\ m.boots[1].token \in Tokens /\ m.boots[1].ids \in Ids /\ Asking(m)
  BY <1>5, <1>7, SomeBoot, FirstBoot
<1>9. mine \in Identity /\ mine.token = m.boots[1].token
  BY <1>2, <1>8, WholeIdentity
<1>10. /\ DOMAIN y = TabFields /\ y.pending = None /\ y.departed = m.departed /\ y.event = m.event
       /\ y.shared = m.shared /\ y.link = m.link /\ Asks(y) /\ ~Asking(y)
  BY <1>3, <1>7, <1>8, LandedFacts
<1>11. CASE m.signedOut
  <2>1. PICK n : n = Ended(m)
    OBVIOUS
  <2>2. Same(m, n) /\ n.event = m.event /\ Asks(n) /\ ~Asking(n)
    BY <1>7, <1>8, <2>1, EndedFacts
  <2>3. View(n) /\ (~n.event => Agrees(n, stored)) /\ n.id = m.id
    BY <1>7, <2>2, SameView DEF Same
  <2>4. Move(t, n, stored)
    BY <1>6, <1>7, <1>11, <2>1, Committed
  <2> QED
    BY <1>1, <1>5, <1>7, <1>8, <2>2, <2>3, <2>4, OwnTakes DEF Goes, Keeps, Locks, Replaces
<1>12. CASE ~m.signedOut /\ Raced(m, m.boots[1].token)
  <2>1. PICK e : e = [y EXCEPT !.sessionOnly = FALSE, !.departed = {}]
    OBVIOUS
  <2>2. PICK n : n = Publish(e, k, FALSE, FALSE, None)
    OBVIOUS
  <2>3. k \in Identity /\ k.token = stored.token /\ k.token \notin m.departed
    BY <1>4, <1>7, <1>12, KeyFacts DEF Raced
  <2>4. Commit(t, n, stored, ok)
    BY <1>6, <1>12, <2>1, <2>2
  <2>5. /\ DOMAIN e = TabFields /\ e.pending = None /\ e.shared = m.shared /\ Waits(y, e)
    BY <1>10, <2>1 DEF TabFields, Waits
  <2>6. /\ DOMAIN n = TabFields /\ n.pending = e.pending /\ n.id = k /\ n.signedOut = FALSE
         /\ n.shared = e.shared /\ Waits(e, n)
    BY <2>2, <2>5 DEF Publish, TabFields, Waits
  <2>7. Asks(n) /\ ~Asking(n)
    BY <1>10, <2>5, <2>6, WaitsAsks
  <2>8. View(n) /\ Asks(n) /\ ~Asking(n) /\ n.id = k /\ ~n.shared
    BY <1>7, <1>12, <2>3, <2>5, <2>6, <2>7 DEF View
  <2>9. Agrees(n, stored)
    BY <1>4, <2>8 DEF Agrees
  <2>10. Takes(t, n)
    BY <1>1, <2>3, <2>8 DEF Takes
  <2>11. Move(t, n, stored)
    BY <1>7, <2>4, Committed
  <2> QED
    BY <1>1, <1>5, <1>7, <1>8, <2>8, <2>9, <2>10, <2>11 DEF Goes, Keeps, Locks, Replaces
<1>13. CASE ~m.signedOut /\ ~Raced(m, m.boots[1].token)
  <2>1. PICK d : d = IF ok THEN {} ELSE y.departed
    OBVIOUS
  <2>2. PICK e : e = [y EXCEPT !.sessionOnly = ~ok, !.departed = d]
    OBVIOUS
  <2>3. PICK n : n = Publish(e, mine, FALSE, ~m.unproven, None)
    OBVIOUS
  <2>4. PICK s : s = IF ok THEN WholeKey(mine) ELSE stored
    OBVIOUS
  <2>5. Commit(t, n, s, ok)
    BY <1>6, <1>13, <2>1, <2>2, <2>3, <2>4
  <2>6. /\ DOMAIN e = TabFields /\ e.pending = None /\ e.shared = m.shared /\ Waits(y, e)
        /\ e.sessionOnly = ~ok /\ e.departed = d
    BY <1>10, <2>2 DEF TabFields, Waits
  <2>7. /\ DOMAIN n = TabFields /\ n.pending = e.pending /\ n.id = mine /\ n.signedOut = FALSE
         /\ n.shared = e.shared /\ n.sessionOnly = e.sessionOnly /\ n.departed = e.departed /\ Waits(e, n)
    BY <2>3, <2>6 DEF Publish, TabFields, Waits
  <2>8. Asks(n) /\ ~Asking(n)
    BY <1>10, <2>6, <2>7, WaitsAsks
  <2>9. /\ View(n) /\ Asks(n) /\ ~Asking(n) /\ n.id = mine /\ ~n.shared
        /\ n.departed = d /\ n.sessionOnly = ~ok
    BY <1>7, <1>9, <1>13, <2>6, <2>7, <2>8 DEF View
  <2>10. y.departed = m.departed
    BY <1>10
  <2>11. s \in Keys /\ (ok => KeyIdentity(s) = mine /\ s.token = mine.token)
    BY <1>7, <1>9, <2>4, WholeKeyFacts
  <2>12. KeyIdentity(stored) = None \/ stored.token = mine.token \/ stored.token \in m.departed
    BY <1>9, <1>13 DEF Raced
  <2>13. Agrees(n, s)
    <3>1. CASE ok
      BY <2>9, <2>11, <3>1 DEF Agrees
    <3>2. CASE ~ok
      <4>1. s = stored /\ n.departed = m.departed
        BY <2>1, <2>4, <2>9, <2>10, <3>2
      <4>2. n.id = mine /\ mine # None /\ n.sessionOnly /\ ~n.shared
        BY <1>9, <2>9, <3>2, WholeKeyFacts
      <4> QED
        BY <2>12, <4>1, <4>2 DEF Agrees
    <3> QED
      BY <3>1, <3>2
  <2>14. Replaces(t, n, s)
    BY <1>1, <2>4, <2>11, <2>12 DEF Replaces
  <2>15. Takes(t, n)
    BY <1>1, <1>8, <1>9, <2>9 DEF Takes
  <2>16. Move(t, n, s)
    BY <1>7, <2>5, Committed
  <2> QED
    BY <1>1, <1>5, <1>7, <1>8, <2>9, <2>11, <2>13, <2>14, <2>15, <2>16 DEF Goes, Keeps, Locks
<1> QED
  BY <1>11, <1>12, <1>13

LEMMA VerdictLandsGoes ==
    ASSUME Sound, NEW t \in Tabs, VerdictLands(t)
    PROVE  Goes(t)
<1>1. PICK m : m = tab[t]
  OBVIOUS
<1>2. PICK n : n = [m EXCEPT !.verdict = None]
  OBVIOUS
<1>3. PICK ids : ids = IdsOf(m.id)
  OBVIOUS
<1>4. PICK y : y = Settled(n)
  OBVIOUS
<1> DEFINE out(shared) ==
        Publish([y EXCEPT !.departed = @ \cup TokensOf(m), !.shared = shared, !.dismissed = None,
                          !.sessionOnly = FALSE, !.flight = FALSE], None, TRUE, FALSE, ids)
<1>6. m.verdict # None /\ lock' = lock
  BY <1>1 DEF VerdictLands
<1>7. PICK ok \in BOOLEAN :
        IF ids # m.verdict THEN Commit(t, n, stored, ok)
        ELSE IF MayInstall(m.id.token) THEN Commit(t, out(ok), IF ok THEN Tombstone(ids) ELSE stored, ok)
        ELSE Commit(t, out(FALSE), stored, ok)
  BY <1>1, <1>2, <1>3, <1>4 DEF VerdictLands, Writes, StillNamed
<1>8. /\ View(m) /\ Asks(m) /\ DOMAIN m = TabFields /\ stored \in Keys /\ TabTypes
      /\ (~m.event => Agrees(m, stored))
  BY <1>1, SoundTab
<1>9. Same(m, n) /\ n.event = m.event /\ n.boots = m.boots /\ n.verdict = None
      /\ n.deleting = m.deleting /\ n.link = m.link
  BY <1>2, <1>8 DEF Same, TabFields
<1>10. Asks(n) /\ (Asking(n) <=> Asking(m))
  BY <1>8, <1>9 DEF Asks, Asking
<1>11. CASE ids # m.verdict
  <2>1. View(n) /\ (~n.event => Agrees(n, stored)) /\ n.id = m.id
    BY <1>8, <1>9, SameView DEF Same
  <2>2. Move(t, n, stored)
    BY <1>7, <1>8, <1>11, Committed
  <2> QED
    BY <1>1, <1>6, <1>8, <1>10, <2>1, <2>2, OwnTakes DEF Goes, Keeps, Locks, Replaces
<1>12. CASE ids = m.verdict
  <2>1. m.id # None /\ m.id \in Identity /\ ids \in Ids /\ m.id.token \in Tokens
    <3>1. ids # None /\ m.verdict \in Ids \cup {None} /\ m.id \in Identity \cup {None}
      BY <1>6, <1>8, <1>12 DEF Asks, View
    <3>2. m.id # None
      BY <1>3, <3>1 DEF IdsOf
    <3> QED
      BY <1>12, <3>1, <3>2, WholeKeyFacts
  <2>2. TokensOf(m) = {m.id.token}
    BY <2>1 DEF TokensOf
  <2>3. PICK shared, s :
          /\ shared \in BOOLEAN /\ Commit(t, out(shared), s, ok)
          /\ \/ shared /\ s = Tombstone(ids) /\ stored.token \in {None, m.id.token}
             \/ ~shared /\ s = stored
    <3>1. CASE MayInstall(m.id.token) /\ ok
      BY <1>7, <1>12, <3>1 DEF MayInstall
    <3>2. CASE MayInstall(m.id.token) /\ ~ok
      <4>1. Commit(t, out(FALSE), stored, ok)
        BY <1>7, <1>12, <3>2
      <4> QED
        BY <4>1
    <3>3. CASE ~MayInstall(m.id.token)
      <4>1. Commit(t, out(FALSE), stored, ok)
        BY <1>7, <1>12, <3>3
      <4> QED
        BY <4>1
    <3> QED
      BY <3>1, <3>2, <3>3
  <2>4. PICK o : o = out(shared)
    OBVIOUS
  <2>5. /\ View(o) /\ Waits(n, o) /\ o.event = n.event /\ o.id = None
        /\ o.departed = n.departed \cup TokensOf(m) /\ o.shared = shared
    <3>1. PICK e : e = [y EXCEPT !.departed = @ \cup TokensOf(m), !.shared = shared, !.dismissed = None,
                                 !.sessionOnly = FALSE, !.flight = FALSE]
      OBVIOUS
    <3>2. o = Publish(e, None, TRUE, FALSE, ids)
      BY <2>4, <3>1
    <3>3. /\ DOMAIN y = TabFields /\ y.pending = None /\ y.departed = n.departed /\ y.event = n.event
          /\ Waits(n, y)
      BY <1>4, <1>9, SettledFacts DEF Same
    <3>4. /\ DOMAIN e = TabFields /\ e.pending = y.pending /\ e.departed = y.departed \cup TokensOf(m)
          /\ e.shared = shared /\ e.event = y.event /\ Waits(y, e)
      BY <3>1, <3>3 DEF TabFields, Waits
    <3>5. /\ DOMAIN o = TabFields /\ o.pending = e.pending /\ o.departed = e.departed /\ o.id = None
          /\ o.signedOut = TRUE /\ o.shared = e.shared /\ o.event = e.event /\ Waits(e, o)
      BY <3>2, <3>4 DEF Publish, TabFields, Waits
    <3> QED
      BY <3>3, <3>4, <3>5 DEF View, Waits
  <2> HIDE DEF out
  <2>6. Asks(o) /\ (Asking(o) <=> Asking(m)) /\ o.event = m.event
    BY <1>9, <1>10, <2>5, WaitsAsks
  <2>7. o.departed = m.departed \cup {m.id.token}
    BY <1>9, <2>2, <2>5 DEF Same
  <2>8. Tombstone(ids) \in Keys /\ Tombstone(ids).out /\ KeyIdentity(Tombstone(ids)) = None
    BY <2>1 DEF Keys, Tombstone, KeyIdentity
  <2>9. ~o.event => Agrees(o, s)
    <3>1. CASE shared /\ s = Tombstone(ids)
      BY <2>5, <2>8, <3>1 DEF Agrees
    <3>2. CASE ~shared /\ s = stored
      <4>1. ~m.event =>
              \/ KeyIdentity(stored) = None
              \/ stored.token \in m.departed \cup {m.id.token}
        BY <1>8, <2>1, KeyFacts DEF Agrees
      <4> QED
        BY <2>5, <2>6, <2>7, <3>2, <4>1 DEF Agrees
    <3> QED
      BY <2>3, <3>1, <3>2
  <2>10. Replaces(t, o, s)
    BY <1>8, <2>3, <2>7, KeyFacts DEF Replaces
  <2>11. Move(t, o, s) /\ s \in Keys
    BY <1>8, <2>3, <2>4, <2>8, Committed
  <2> QED
    BY <1>1, <1>6, <2>5, <2>6, <2>9, <2>10, <2>11, OwnTakes DEF Goes, Keeps, Locks
<1> QED
  BY <1>11, <1>12

LEMMA StartFreshGoes ==
    ASSUME Sound, NEW t \in Tabs, NEW m, Same(tab[t], m), m.event = tab[t].event,
           Asks(m), Asking(m) <=> Asking(tab[t]),
           NEW deleted, NEW ok, StartFresh(t, deleted, m, ok), lock' = lock
    PROVE  Goes(t)
<1>1. PICK y : y = Settled(m)
  OBVIOUS
<1>2. PICK gone : gone = Leaving(m)
  OBVIOUS
<1>3. PICK e : e = [y EXCEPT !.departed = @ \cup gone,
                             !.dismissed = IF deleted # None THEN deleted ELSE IF stored.out THEN stored.ids ELSE @,
                             !.shared = FALSE, !.sessionOnly = FALSE, !.flight = FALSE]
  OBVIOUS
<1>4. PICK n : n = Publish(e, None, FALSE, FALSE, None)
  OBVIOUS
<1>5. PICK s : s = IF ok /\ MayClear(gone) THEN EmptyKey ELSE stored
  OBVIOUS
<1>6. Commit(t, n, s, ok)
  BY <1>1, <1>2, <1>3, <1>4, <1>5 DEF StartFresh
<1>7. /\ View(m) /\ DOMAIN m = TabFields /\ stored \in Keys /\ TabTypes
      /\ (~m.event => Agrees(m, stored))
  BY SoundTab, SameView DEF Same
<1>8. /\ DOMAIN y = TabFields /\ y.pending = None /\ y.departed = m.departed /\ y.event = m.event /\ Waits(m, y)
  BY <1>1, <1>7, SettledFacts
<1>9. /\ DOMAIN e = TabFields /\ e.pending = y.pending /\ e.departed = y.departed \cup gone
      /\ e.shared = FALSE /\ e.event = y.event /\ Waits(y, e)
  BY <1>3, <1>8 DEF TabFields, Waits
<1>10. /\ DOMAIN n = TabFields /\ n.pending = e.pending /\ n.departed = e.departed /\ n.id = None
       /\ n.signedOut = FALSE /\ n.shared = e.shared /\ n.event = e.event /\ Waits(e, n)
  BY <1>4, <1>9 DEF Publish, TabFields, Waits
<1>11. /\ View(n) /\ Waits(m, n) /\ n.event = m.event /\ n.id = None
       /\ n.departed = m.departed \cup gone /\ ~n.shared
  BY <1>8, <1>9, <1>10 DEF View, Waits
<1>12. Asks(n) /\ (Asking(n) <=> Asking(tab[t]))
  BY <1>11, WaitsAsks
<1>13. EmptyKey \in Keys /\ KeyIdentity(EmptyKey) = None
  BY DEF Keys, EmptyKey, KeyIdentity
<1>14. ~m.event => KeyIdentity(stored) = None \/ stored.token \in m.departed \cup gone
  <2>1. m.id # None => gone = {m.id.token}
    BY <1>2 DEF Leaving, TokensOf
  <2> QED
    BY <1>7, <2>1, KeyFacts DEF Agrees
<1>15. ~n.event => Agrees(n, s)
  BY <1>5, <1>11, <1>13, <1>14 DEF Agrees
<1>16. Replaces(t, n, s)
  <2>1. MayClear(gone) => KeyIdentity(stored) = None \/ stored.token \in gone
    BY <1>7, KeyFacts DEF MayClear
  <2> QED
    BY <1>5, <1>11, <2>1 DEF Replaces
<1>17. Move(t, n, s) /\ s \in Keys /\ Takes(t, n)
  BY <1>5, <1>6, <1>7, <1>11, <1>13, Committed, OwnTakes
<1> QED
  BY <1>11, <1>12, <1>15, <1>16, <1>17 DEF Goes, Keeps, Locks

LEMMA DismissGoes ==
    ASSUME Sound, NEW t \in Tabs, Dismiss(t)
    PROVE  Goes(t)
<1>1. PICK ok : StartFresh(t, None, tab[t], ok) /\ lock' = lock
  BY DEF Dismiss
<1>2. Same(tab[t], tab[t]) /\ Asks(tab[t])
  BY SoundTab DEF Same
<1> QED
  BY <1>1, <1>2, StartFreshGoes

LEMMA DeleteLandsGoes ==
    ASSUME Sound, NEW t \in Tabs, DeleteLands(t)
    PROVE  Goes(t)
<1>1. PICK o : o = tab[t]
  OBVIOUS
<1>2. PICK m : m = [o EXCEPT !.deleting = None]
  OBVIOUS
<1>3. PICK ok : StartFresh(t, o.deleting, m, ok) \/ Commit(t, m, stored, ok)
  BY <1>1, <1>2 DEF DeleteLands
<1>4. lock' = lock
  BY DEF DeleteLands
<1>5. /\ View(o) /\ Asks(o) /\ DOMAIN o = TabFields /\ stored \in Keys /\ TabTypes
      /\ (~o.event => Agrees(o, stored))
  BY <1>1, SoundTab
<1>6. Same(o, m) /\ m.event = o.event /\ m.boots = o.boots /\ m.deleting = None
      /\ m.verdict = o.verdict /\ m.link = o.link
  BY <1>2, <1>5 DEF Same, TabFields
<1>7. Asks(m) /\ (Asking(m) <=> Asking(o))
  BY <1>5, <1>6 DEF Asks, Asking
<1>8. CASE StartFresh(t, o.deleting, m, ok)
  BY <1>1, <1>4, <1>6, <1>7, <1>8, StartFreshGoes
<1>9. CASE Commit(t, m, stored, ok)
  <2>1. View(m) /\ (~m.event => Agrees(m, stored)) /\ m.id = o.id
    BY <1>5, <1>6, SameView DEF Same
  <2>2. Move(t, m, stored)
    BY <1>5, <1>9, Committed
  <2> QED
    BY <1>1, <1>4, <1>5, <1>7, <2>1, <2>2, OwnTakes DEF Goes, Keeps, Locks, Replaces
<1> QED
  BY <1>3, <1>8, <1>9

(* A step of the server whose answer is on its way to the tab.             *)
LEMMA AwaitsGoes ==
    ASSUME Sound, NEW t \in Tabs, NEW n, Same(tab[t], n), n.event = tab[t].event,
           Asks(n), Asking(n) <=> Asking(tab[t]),
           tab' = [tab EXCEPT ![t] = n], stored' = stored, lock' = lock, left' = left
    PROVE  Goes(t)
<1>1. /\ View(tab[t]) /\ stored \in Keys /\ TabTypes /\ (~tab[t].event => Agrees(tab[t], stored))
  BY SoundTab
<1>2. View(n) /\ (~n.event => Agrees(n, stored)) /\ n.id = tab[t].id /\ n.departed = tab[t].departed
  BY <1>1, SameView DEF Same
<1>3. Move(t, n, stored)
  BY <1>1, <1>2, AloneMoves
<1>4. Takes(t, n)
  BY <1>2, OwnTakes
<1> QED
  BY <1>1, <1>2, <1>3, <1>4 DEF Goes, Keeps, Locks, Replaces

LEMMA IdsOfHeld ==
    ASSUME NEW m, View(m), m.id # None
    PROVE  m.id \in Identity /\ IdsOf(m.id) \in Ids /\ m.id.token \in Tokens
BY WholeKeyFacts DEF View

LEMMA RefuseGoes ==
    ASSUME Sound, NEW t \in Tabs, Refuse(t)
    PROVE  Goes(t)
<1>1. PICK m : m = tab[t]
  OBVIOUS
<1>2. PICK ids : ids = IdsOf(m.id)
  OBVIOUS
<1>3. PICK n : n = [m EXCEPT !.verdict = ids]
  OBVIOUS
<1>4. m.id # None /\ tab' = [tab EXCEPT ![t] = n] /\ stored' = stored /\ lock' = lock /\ left' = left
  BY <1>1, <1>2, <1>3 DEF Refuse
<1>5. View(m) /\ Asks(m) /\ DOMAIN m = TabFields /\ ids \in Ids
  BY <1>1, <1>2, <1>4, SoundTab, IdsOfHeld
<1>6. /\ Same(m, n) /\ n.event = m.event /\ n.boots = m.boots /\ n.verdict = ids
      /\ n.deleting = m.deleting /\ n.link = m.link
  BY <1>3, <1>5 DEF Same, TabFields
<1>7. Asks(n) /\ (Asking(n) <=> Asking(m))
  BY <1>5, <1>6 DEF Asks, Asking
<1> QED
  BY <1>1, <1>4, <1>6, <1>7, AwaitsGoes

LEMMA DeleteGoes ==
    ASSUME Sound, NEW t \in Tabs, Delete(t)
    PROVE  Goes(t)
<1>1. PICK m : m = tab[t]
  OBVIOUS
<1>2. PICK ids : ids = IdsOf(m.id)
  OBVIOUS
<1>3. PICK n : n = [m EXCEPT !.deleting = ids]
  OBVIOUS
<1>4. m.id # None /\ tab' = [tab EXCEPT ![t] = n] /\ stored' = stored /\ lock' = lock /\ left' = left
  BY <1>1, <1>2, <1>3 DEF Delete
<1>5. View(m) /\ Asks(m) /\ DOMAIN m = TabFields /\ ids \in Ids
  BY <1>1, <1>2, <1>4, SoundTab, IdsOfHeld
<1>6. /\ Same(m, n) /\ n.event = m.event /\ n.boots = m.boots /\ n.deleting = ids
      /\ n.verdict = m.verdict /\ n.link = m.link
  BY <1>3, <1>5 DEF Same, TabFields
<1>7. Asks(n) /\ (Asking(n) <=> Asking(m))
  BY <1>5, <1>6 DEF Asks, Asking
<1> QED
  BY <1>1, <1>4, <1>6, <1>7, AwaitsGoes

LEMMA LinkGoes ==
    ASSUME Sound, StoreTypes, NEW t \in Tabs, Link(t)
    PROVE  Goes(t)
<1>1. PICK m : m = tab[t]
  OBVIOUS
<1>2. PICK a \in spare.bound : tab' = [tab EXCEPT ![t].link = [from |-> IdsOf(m.id), to |-> a]]
  BY <1>1 DEF Link
<1>3. PICK l : l = [from |-> IdsOf(m.id), to |-> a]
  OBVIOUS
<1>4. PICK n : n = [m EXCEPT !.link = l]
  OBVIOUS
<1>5. m.id # None /\ tab' = [tab EXCEPT ![t] = n] /\ stored' = stored /\ lock' = lock /\ left' = left
  BY <1>1, <1>2, <1>3, <1>4 DEF Link
<1>6. a \in 1..MaxDevice
  BY DEF StoreTypes, Budgets
<1>7. View(m) /\ Asks(m) /\ DOMAIN m = TabFields /\ l \in [from : Ids, to : 1..MaxDevice]
  BY <1>1, <1>3, <1>5, <1>6, SoundTab, IdsOfHeld
<1>8. /\ Same(m, n) /\ n.event = m.event /\ n.boots = m.boots /\ n.link = l
      /\ n.verdict = m.verdict /\ n.deleting = m.deleting
  BY <1>4, <1>7 DEF Same, TabFields
<1>9. Asks(n) /\ (Asking(n) <=> Asking(m))
  BY <1>7, <1>8 DEF Asks, Asking
<1> QED
  BY <1>1, <1>5, <1>8, <1>9, AwaitsGoes

LEMMA LinkLandsGoes ==
    ASSUME Sound, NEW t \in Tabs, LinkLands(t)
    PROVE  Goes(t)
<1>1. PICK m : m = tab[t]
  OBVIOUS
<1>2. PICK n : n = [m EXCEPT !.link = None]
  OBVIOUS
<1>3. PICK next : next = [m.id EXCEPT !.account = m.link.to]
  OBVIOUS
<1>4. PICK residue : residue =
          IF KeyIdentity(stored) # None /\ stored.token = m.id.token THEN stored.ids.account ELSE None
  OBVIOUS
<1>5. m.link # None /\ lock' = lock
  BY <1>1 DEF LinkLands
<1>6. PICK ok \in BOOLEAN :
        IF ~StillNamed(m, m.link.from) THEN Commit(t, n, stored, ok)
        ELSE Commit(t, Publish([n EXCEPT !.sessionOnly = ~ok, !.residue = IF ok THEN @ ELSE residue],
                               next, FALSE, FALSE, None),
                    IF ok THEN WholeKey(next) ELSE stored, ok)
  BY <1>1, <1>2, <1>3, <1>4 DEF LinkLands, Writes
<1>7. /\ View(m) /\ Asks(m) /\ DOMAIN m = TabFields /\ stored \in Keys /\ TabTypes
      /\ (~m.event => Agrees(m, stored))
  BY <1>1, SoundTab
<1>8. Same(m, n) /\ n.event = m.event /\ n.boots = m.boots /\ n.link = None
      /\ n.verdict = m.verdict /\ n.deleting = m.deleting
  BY <1>2, <1>7 DEF Same, TabFields
<1>9. Asks(n) /\ (Asking(n) <=> Asking(m))
  BY <1>7, <1>8 DEF Asks, Asking
<1>10. CASE ~StillNamed(m, m.link.from)
  <2>1. View(n) /\ (~n.event => Agrees(n, stored)) /\ n.id = m.id
    BY <1>7, <1>8, SameView DEF Same
  <2>2. Move(t, n, stored)
    BY <1>6, <1>7, <1>10, Committed
  <2> QED
    BY <1>1, <1>5, <1>7, <1>9, <2>1, <2>2, OwnTakes DEF Goes, Keeps, Locks, Replaces
<1>11. CASE StillNamed(m, m.link.from)
  <2>1. m.link \in [from : Ids, to : 1..MaxDevice]
    BY <1>5, <1>7 DEF Asks
  <2>2. IdsOf(m.id) \in Ids /\ m.link.to \in 1..MaxDevice
    BY <1>11, <2>1 DEF StillNamed
  <2>3. m.id # None /\ m.id \in Identity
    BY <1>7, <2>2, NoneAssumption DEF IdsOf, View, NoneAssumption
  <2>4. next \in Identity /\ next.token = m.id.token
    BY <1>3, <2>2, <2>3 DEF Identity
  <2>5. PICK e : e = [n EXCEPT !.sessionOnly = ~ok, !.residue = IF ok THEN @ ELSE residue]
    OBVIOUS
  <2>6. PICK o : o = Publish(e, next, FALSE, FALSE, None)
    OBVIOUS
  <2>7. PICK s : s = IF ok THEN WholeKey(next) ELSE stored
    OBVIOUS
  <2>8. Commit(t, o, s, ok)
    BY <1>6, <1>11, <2>5, <2>6, <2>7
  <2>9. /\ DOMAIN e = TabFields /\ e.sessionOnly = ~ok /\ e.pending = n.pending /\ e.shared = n.shared
        /\ e.departed = n.departed /\ e.event = n.event /\ Waits(n, e)
    BY <1>8, <2>5 DEF Same, TabFields, Waits
  <2>10. /\ DOMAIN o = TabFields /\ o.id = next /\ o.signedOut = FALSE /\ o.pending = e.pending
         /\ o.sessionOnly = e.sessionOnly /\ o.shared = e.shared
         /\ o.departed = e.departed /\ o.event = e.event /\ Waits(e, o)
    BY <2>6, <2>9 DEF Publish, TabFields, Waits
  <2>11. Asks(o) /\ (Asking(o) <=> Asking(m)) /\ o.link = None
    <3>1. Waits(n, o)
      BY <2>9, <2>10 DEF Waits
    <3> QED
      BY <1>8, <1>9, <3>1, WaitsAsks DEF Waits
  <2>12. m.pending = None /\ ~m.signedOut /\ ~m.shared
    BY <1>7, <2>3 DEF View
  <2>13. /\ View(o) /\ ~o.shared /\ o.id = next /\ o.departed = m.departed
         /\ o.event = m.event /\ o.sessionOnly = ~ok
    BY <1>8, <2>4, <2>9, <2>10, <2>12 DEF View, Same
  <2>14. s \in Keys /\ (ok => KeyIdentity(s) = next) /\ next # None
    BY <1>7, <2>4, <2>7, WholeKeyFacts
  <2>15. ~o.event => Agrees(o, s)
    <3>1. CASE ok
      BY <2>13, <2>14, <3>1 DEF Agrees
    <3>2. CASE ~ok
      <4>1. ~m.event =>
              KeyIdentity(stored) = None \/ stored.token = next.token \/ stored.token \in m.departed
        BY <1>7, <2>3, <2>4, KeyFacts DEF Agrees
      <4> QED
        BY <2>7, <2>13, <2>14, <3>2, <4>1 DEF Agrees
    <3> QED
      BY <3>1, <3>2
  <2>16. Replaces(t, o, s)
    BY <1>1, <1>5, <2>11 DEF Replaces
  <2>17. Takes(t, o)
    BY <1>1, <2>3, <2>4, <2>13, WholeKeyFacts DEF Takes, TokensOf
  <2>18. Move(t, o, s)
    BY <1>7, <2>8, Committed
  <2> QED
    BY <1>1, <1>5, <2>11, <2>13, <2>14, <2>15, <2>16, <2>17, <2>18 DEF Goes, Keeps, Locks
<1> QED
  BY <1>10, <1>11

LEMMA NewTabFacts ==
    /\ View(NewTab) /\ Asks(NewTab) /\ ~Asking(NewTab) /\ NewTab.id = None /\ NewTab.departed = {}
    /\ DOMAIN NewTab = TabFields /\ TokensOf(NewTab) = {} /\ NewTab.event = FALSE
<1>1. /\ DOMAIN NewTab = TabFields /\ NewTab.boots = <<>> /\ NewTab.verdict = None /\ NewTab.deleting = None
      /\ NewTab.link = None /\ NewTab.id = None /\ NewTab.pending = None /\ NewTab.shared = FALSE
      /\ NewTab.departed = {} /\ NewTab.event = FALSE
  BY DEF NewTab, TabFields
<1>2. <<>> \in Seq(Boot) /\ Len(<<>>) = 0
  BY EmptySeq
<1> QED
  BY <1>1, <1>2 DEF View, Asks, Asking, TokensOf

(* A page that is loaded has read the key.                                 *)
LEMMA LoadedFacts ==
    ASSUME NEW s \in Keys, NEW m, m = Synced(NewTab, s)
    PROVE  /\ View(m) /\ Asks(m) /\ ~Asking(m) /\ Agrees(m, s) /\ m.departed = {}
           /\ Waits(NewTab, m)
<1>1. PICK o : o = NewTab
  OBVIOUS
<1>2. View(o) /\ Asks(o) /\ ~Asking(o) /\ o.departed = {} /\ TokensOf(o) = {}
  BY <1>1, NewTabFacts
<1>3. m = Synced(o, s)
  BY <1>1
<1>4. View(m) /\ Waits(o, m) /\ Agrees(m, s) /\ m.departed \subseteq o.departed \cup TokensOf(o)
  BY <1>2, <1>3, SyncedFacts
<1> QED
  BY <1>1, <1>2, <1>4, WaitsAsks

LEMMA LoadGoes ==
    ASSUME Sound, NEW t \in Tabs, Load(t)
    PROVE  Goes(t)
<1>1. PICK m : m = Synced(NewTab, stored)
  OBVIOUS
<1>2. /\ tab' = [tab EXCEPT ![t] = m] /\ lock' = (IF lock = t THEN None ELSE lock)
      /\ left' = [left EXCEPT ![t] = {}] /\ stored' = stored
  BY <1>1 DEF Load
<1>3. /\ TabTypes /\ stored \in Keys /\ DOMAIN tab = Tabs /\ DOMAIN left = Tabs
      /\ (Asking(tab[t]) <=> lock = t) /\ t # None /\ tab[t].departed \subseteq left[t]
  BY SoundTab DEF TabTypes
<1>4. View(m) /\ Asks(m) /\ ~Asking(m) /\ Agrees(m, stored) /\ m.departed = {}
  BY <1>1, <1>3, LoadedFacts
<1>5. Move(t, m, stored)
  BY <1>2, <1>3, <1>4 DEF Move
<1>6. Takes(t, m)
  BY <1>2, <1>3 DEF Takes
<1>7. Locks(t, m)
  BY <1>2, <1>3, <1>4 DEF Locks
<1> QED
  BY <1>3, <1>4, <1>5, <1>6, <1>7 DEF Goes, Keeps, Replaces

-----------------------------------------------------------------------------
(* Every step                                                              *)

LEMMA TabStep ==
    ASSUME Sound, StoreTypes, Next
    PROVE  (\E t \in Tabs : Goes(t)) \/ Revoke
BY FollowGoes, EnsureGoes, EnterGoes, RegisterGoes, BootFailsGoes, BootLandsGoes, RefuseGoes,
   VerdictLandsGoes, DismissGoes, DeleteGoes, DeleteLandsGoes, LinkGoes, LinkLandsGoes, LoadGoes DEF Next

LEMMA SpentFacts ==
    ASSUME NEW b \in Budgets
    PROVE  /\ b.acts > 0 => [b EXCEPT !.acts = @ - 1] \in Budgets
           /\ b.faults > 0 => [b EXCEPT !.faults = @ - 1] \in Budgets
           /\ b.unwritten > 0 => [b EXCEPT !.unwritten = @ - 1] \in Budgets
           /\ b.revokes > 0 => [b EXCEPT !.revokes = @ - 1] \in Budgets
           /\ b.deletes > 0 => [b EXCEPT !.deletes = @ - 1] \in Budgets
           /\ b.links > 0 => [b EXCEPT !.links = @ - 1] \in Budgets
           /\ b.loads > 0 => [b EXCEPT !.loads = @ - 1] \in Budgets
BY DEF Budgets

(* What the environment may still do only shrinks.                         *)
Spends ==
    /\ spare' \in Budgets
    /\ spare'.innocent = spare.innocent /\ spare'.bound = spare.bound
    /\ spare'.unwritten <= spare.unwritten /\ spare'.revokes <= spare.revokes /\ spare'.deletes <= spare.deletes

LEMMA SpendsOne ==
    ASSUME NEW b \in Budgets, NEW c \in Budgets,
           \/ c = b
           \/ b.acts > 0 /\ c = [b EXCEPT !.acts = @ - 1]
           \/ b.faults > 0 /\ c = [b EXCEPT !.faults = @ - 1]
           \/ b.unwritten > 0 /\ c = [b EXCEPT !.unwritten = @ - 1]
           \/ b.revokes > 0 /\ c = [b EXCEPT !.revokes = @ - 1]
           \/ b.deletes > 0 /\ c = [b EXCEPT !.deletes = @ - 1]
           \/ b.links > 0 /\ c = [b EXCEPT !.links = @ - 1]
           \/ b.loads > 0 /\ c = [b EXCEPT !.loads = @ - 1]
    PROVE  /\ c.innocent = b.innocent /\ c.bound = b.bound
           /\ c.unwritten <= b.unwritten /\ c.revokes <= b.revokes /\ c.deletes <= b.deletes
BY DEF Budgets

LEMMA Spent ==
    ASSUME StoreTypes,
           \/ spare' = spare
           \/ spare.acts > 0 /\ spare' = [spare EXCEPT !.acts = @ - 1]
           \/ spare.faults > 0 /\ spare' = [spare EXCEPT !.faults = @ - 1]
           \/ spare.unwritten > 0 /\ spare' = [spare EXCEPT !.unwritten = @ - 1]
           \/ spare.revokes > 0 /\ spare' = [spare EXCEPT !.revokes = @ - 1]
           \/ spare.deletes > 0 /\ spare' = [spare EXCEPT !.deletes = @ - 1]
           \/ spare.links > 0 /\ spare' = [spare EXCEPT !.links = @ - 1]
           \/ spare.loads > 0 /\ spare' = [spare EXCEPT !.loads = @ - 1]
    PROVE  Spends
<1>1. PICK b : b = spare
  OBVIOUS
<1>2. PICK c : c = spare'
  OBVIOUS
<1>3. b \in Budgets
  BY <1>1 DEF StoreTypes
<1>4. \/ c = b
      \/ b.acts > 0 /\ c = [b EXCEPT !.acts = @ - 1]
      \/ b.faults > 0 /\ c = [b EXCEPT !.faults = @ - 1]
      \/ b.unwritten > 0 /\ c = [b EXCEPT !.unwritten = @ - 1]
      \/ b.revokes > 0 /\ c = [b EXCEPT !.revokes = @ - 1]
      \/ b.deletes > 0 /\ c = [b EXCEPT !.deletes = @ - 1]
      \/ b.links > 0 /\ c = [b EXCEPT !.links = @ - 1]
      \/ b.loads > 0 /\ c = [b EXCEPT !.loads = @ - 1]
  BY <1>1, <1>2
<1>5. c \in Budgets
  BY <1>3, <1>4, SpentFacts
<1>6. /\ c.innocent = b.innocent /\ c.bound = b.bound
      /\ c.unwritten <= b.unwritten /\ c.revokes <= b.revokes /\ c.deletes <= b.deletes
  BY <1>3, <1>4, <1>5, SpendsOne
<1> QED
  BY <1>1, <1>2, <1>5, <1>6 DEF Spends

LEMMA CommitSpends ==
    ASSUME StoreTypes, NEW t, NEW m, NEW s, NEW ok \in Writes, Commit(t, m, s, ok)
    PROVE  Spends /\ (spare.unwritten = 0 => ok)
<1>1. spare' = IF ok THEN spare ELSE [spare EXCEPT !.unwritten = @ - 1]
  BY DEF Commit
<1>2. ok \/ spare.unwritten > 0
  BY DEF Writes
<1>3. spare.unwritten = 0 => ok
  BY DEF Writes
<1> QED
  BY <1>1, <1>2, <1>3, Spent

LEMMA StoreStep ==
    ASSUME Sound, StoreTypes, Next
    PROVE  StoreTypes' /\ Spends
<1>1. Spends /\ device' \in [Tokens -> Ids \cup {None}] /\ made' \in 0..MaxDevice /\ used' \in 0..MaxToken
  <2>1. device \in [Tokens -> Ids \cup {None}] /\ made \in 0..MaxDevice /\ used \in 0..MaxToken
    BY DEF StoreTypes
  <2>2. ASSUME NEW t \in Tabs, Follow(t)
        PROVE  Spends /\ device' = device /\ made' = made /\ used' = used
    BY <2>2, CommitSpends DEF Follow, Server
  <2>3. ASSUME NEW t \in Tabs, Ensure(t)
        PROVE  Spends /\ device' = device /\ made' = made /\ used' = used
    <3>1. spare.acts > 0 /\ spare' = [spare EXCEPT !.acts = @ - 1]
      BY <2>3 DEF Ensure
    <3> QED
      BY <2>3, <3>1, Spent DEF Ensure, Server
  <2>4. ASSUME NEW t \in Tabs, Enter(t)
        PROVE  Spends /\ device' = device /\ made' = made /\ used' \in 0..MaxToken
    <3>1. PICK m : m = Synced(tab[t], stored)
      OBVIOUS
    <3>2. PICK token : token = TokenFor(m)
      OBVIOUS
    <3>3. View(m)
      BY <3>1, SyncsWell
    <3>4. \E n, s : \E ok \in Writes : Commit(t, n, s, ok)
      BY <2>4 DEF Enter
    <3>5. used' = used \/ (token <= MaxToken /\ used' = IF token > used THEN token ELSE used)
      BY <2>4, <3>1, <3>2 DEF Enter
    <3>6. token \in Nat
      BY <2>1, <3>2, <3>3, SizesAssumption DEF View, TokenFor, Tokens, SizesAssumption
    <3>7. used' \in 0..MaxToken
      BY <2>1, <3>5, <3>6, SizesAssumption DEF SizesAssumption
    <3> QED
      BY <2>4, <3>4, <3>7, CommitSpends DEF Enter, Server
  <2>5. ASSUME NEW t \in Tabs, Register(t)
        PROVE  Spends /\ device' \in [Tokens -> Ids \cup {None}] /\ made' \in 0..MaxDevice /\ used' = used
    <3>1. PICK token : token = tab[t].boots[1].token
      OBVIOUS
    <3>2. PICK ids : ids = IF Standing(token) THEN device[token] ELSE [account |-> made + 1, device |-> made + 1]
      OBVIOUS
    <3>3. /\ tab[t].boots # <<>> /\ tab[t].boots[1].at = "asking" /\ ids.device <= MaxDevice
          /\ device' = [device EXCEPT ![token] = ids]
          /\ made' = (IF ids.device > made THEN ids.device ELSE made) /\ spare' = spare /\ used' = used
      BY <2>5, <3>1, <3>2 DEF Register
    <3>4. token \in Tokens
      BY <3>1, <3>3, SoundTab, SomeBoot, FirstBoot
    <3>5. ids \in Ids
      BY <3>2, <3>3, <3>4, Answered
    <3>6. made' \in 0..MaxDevice
      BY <2>1, <3>3, <3>5, SizesAssumption DEF Ids, SizesAssumption
    <3>7. Spends
      BY <3>3, Spent
    <3> QED
      BY <2>1, <3>3, <3>5, <3>6, <3>7
  <2>6. ASSUME NEW t \in Tabs, BootFails(t)
        PROVE  Spends /\ device' = device /\ made' = made /\ used' = used
    <3>1. spare.faults > 0 /\ spare' = [spare EXCEPT !.faults = @ - 1]
      BY <2>6 DEF BootFails
    <3> QED
      BY <2>6, <3>1, Spent DEF BootFails, Server
  <2>7. ASSUME NEW t \in Tabs, BootLands(t)
        PROVE  Spends /\ device' = device /\ made' = made /\ used' = used
    <3>1. \E n, s : \E ok \in Writes : Commit(t, n, s, ok)
      BY <2>7 DEF BootLands
    <3> QED
      BY <2>7, <3>1, CommitSpends DEF BootLands, Server
  <2>8. ASSUME NEW t \in Tabs, Refuse(t)
        PROVE  Spends /\ device' = device /\ made' = made /\ used' = used
    BY <2>8, Spent DEF Refuse, Server
  <2>9. ASSUME NEW t \in Tabs, VerdictLands(t)
        PROVE  Spends /\ device' = device /\ made' = made /\ used' = used
    <3>1. \E n, s : \E ok \in Writes : Commit(t, n, s, ok)
      BY <2>9 DEF VerdictLands
    <3> QED
      BY <2>9, <3>1, CommitSpends DEF VerdictLands, Server
  <2>10. ASSUME NEW t \in Tabs, Dismiss(t)
         PROVE  Spends /\ device' = device /\ made' = made /\ used' = used
    <3>1. \E n, s : \E ok \in Writes : Commit(t, n, s, ok)
      BY <2>10 DEF Dismiss, StartFresh
    <3> QED
      BY <2>10, <3>1, CommitSpends DEF Dismiss, Server
  <2>11. ASSUME NEW t \in Tabs, Delete(t)
         PROVE  Spends /\ device' = device /\ made' = made /\ used' = used
    <3>1. spare.deletes > 0 /\ spare' = [spare EXCEPT !.deletes = @ - 1]
      BY <2>11 DEF Delete
    <3> QED
      BY <2>11, <3>1, Spent DEF Delete
  <2>12. ASSUME NEW t \in Tabs, DeleteLands(t)
         PROVE  Spends /\ device' = device /\ made' = made /\ used' = used
    <3>1. \E n, s : \E ok \in Writes : Commit(t, n, s, ok)
      BY <2>12 DEF DeleteLands, StartFresh
    <3> QED
      BY <2>12, <3>1, CommitSpends DEF DeleteLands, Server
  <2>13. ASSUME NEW t \in Tabs, Link(t)
         PROVE  Spends /\ device' \in [Tokens -> Ids \cup {None}] /\ made' = made /\ used' = used
    <3>1. PICK k : k = tab[t].id.token
      OBVIOUS
    <3>2. PICK a \in spare.bound : device' = [device EXCEPT ![k].account = a]
      BY <2>13, <3>1 DEF Link
    <3>3. a \in 1..MaxDevice
      BY DEF StoreTypes, Budgets
    <3>4. tab[t].id # None /\ Standing(k) /\ spare.links > 0 /\ spare' = [spare EXCEPT !.links = @ - 1]
          /\ made' = made /\ used' = used
      BY <2>13, <3>1 DEF Link
    <3>5. k \in Tokens
      BY <3>1, <3>4, SoundTab, IdsOfHeld
    <3>6. device[k] \in Ids
      BY <2>1, <3>4, <3>5 DEF Standing
    <3>7. [device[k] EXCEPT !.account = a] \in Ids
      BY <3>3, <3>6 DEF Ids
    <3>8. device' = [device EXCEPT ![k] = [device[k] EXCEPT !.account = a]]
      BY <3>2
    <3> QED
      BY <2>1, <3>4, <3>5, <3>7, <3>8, Spent
  <2>14. ASSUME NEW t \in Tabs, LinkLands(t)
         PROVE  Spends /\ device' = device /\ made' = made /\ used' = used
    <3>1. \E n, s : \E ok \in Writes : Commit(t, n, s, ok)
      BY <2>14 DEF LinkLands
    <3> QED
      BY <2>14, <3>1, CommitSpends DEF LinkLands, Server
  <2>15. ASSUME NEW t \in Tabs, Load(t)
         PROVE  Spends /\ device' = device /\ made' = made /\ used' = used
    <3>1. spare.loads > 0 /\ spare' = [spare EXCEPT !.loads = @ - 1]
      BY <2>15 DEF Load
    <3> QED
      BY <2>15, <3>1, Spent DEF Load, Server
  <2>16. ASSUME Revoke
         PROVE  Spends /\ device' \in [Tokens -> Ids \cup {None}] /\ made' = made /\ used' = used
    <3>1. spare.revokes > 0 /\ spare' = [spare EXCEPT !.revokes = @ - 1]
      BY <2>16 DEF Revoke
    <3> QED
      BY <2>1, <2>16, <3>1, Spent DEF Revoke
  <2> QED
    BY <2>1, <2>2, <2>3, <2>4, <2>5, <2>6, <2>7, <2>8, <2>9, <2>10, <2>11, <2>12, <2>13, <2>14, <2>15, <2>16
       DEF Next
<1> QED
  BY <1>1 DEF StoreTypes, Spends

LEMMA Starting ==
    ASSUME Init
    PROVE  Sound /\ StoreTypes
<1>1. PICK s \in Starts :
        /\ stored = s.stored /\ device = s.device /\ made = s.made /\ used = s.used /\ spare = s.spare
        /\ tab = [t \in Tabs |-> Synced(NewTab, s.stored)]
        /\ lock = None /\ left = [t \in Tabs |-> {}]
  BY DEF Init
<1>2. /\ stored \in Keys /\ device \in [Tokens -> Ids \cup {None}]
      /\ made \in 0..MaxDevice /\ used \in 0..MaxToken /\ spare \in Budgets
  BY <1>1, StartsAssumption DEF StartsAssumption
<1>3. PICK m : m = Synced(NewTab, stored)
  OBVIOUS
<1>4. View(m) /\ Asks(m) /\ ~Asking(m) /\ Agrees(m, stored) /\ m.departed = {}
  BY <1>2, <1>3, LoadedFacts
<1>5. tab = [t \in Tabs |-> m]
  BY <1>1, <1>3
<1>6. \A t \in Tabs : tab[t] = m /\ left[t] = {}
  BY <1>1, <1>5
<1>7. TabTypes
  BY <1>1, <1>4, <1>5, <1>6 DEF TabTypes
<1>8. LockInv
  BY <1>1, <1>4, <1>6, NoneAssumption DEF LockInv, NoneAssumption
<1> QED
  BY <1>2, <1>4, <1>6, <1>7, <1>8 DEF Sound, StoreTypes

LEMMA RevokeSound ==
    ASSUME Sound, Revoke
    PROVE  Sound'
<1>1. UNCHANGED <<stored, tab, lock, left>>
  BY DEF Revoke
<1> QED
  BY <1>1 DEF Sound, TabTypes, LockInv, View, Asks, Asking, Agrees

LEMMA Step ==
    ASSUME Sound, StoreTypes, Next
    PROVE  Sound' /\ StoreTypes'
<1>1. CASE \E t \in Tabs : Goes(t)
  <2>1. PICK t, m, s : t \in Tabs /\ Move(t, m, s) /\ Keeps(m, s) /\ Locks(t, m)
    BY <1>1 DEF Goes
  <2>2. Sound'
    BY <2>1, MovesSoundly
  <2> QED
    BY <2>2, StoreStep
<1>2. CASE Revoke
  BY <1>2, RevokeSound, StoreStep
<1> QED
  BY <1>1, <1>2, TabStep

LEMMA Stuttering ==
    ASSUME Sound, StoreTypes, UNCHANGED vars
    PROVE  Sound' /\ StoreTypes'
BY DEF vars, Sound, StoreTypes, TabTypes, LockInv, View, Asks, Asking, Agrees

(* In every state, what the tabs remember has its shapes, each bootstrap   *)
(* that is on its way holds the lock, and a tab that has heard of the key  *)
(* agrees with it.                                                         *)
THEOREM IdentityInvariance == Spec => [](Sound /\ StoreTypes)
<1>1. Init => Sound /\ StoreTypes
  BY Starting
<1>2. Sound /\ StoreTypes /\ [Next]_vars => (Sound /\ StoreTypes)'
  BY Step, Stuttering
<1> QED
  BY <1>1, <1>2, PTL DEF Spec

LEMMA SoundMeans ==
    ASSUME Sound
    PROVE  TabsSound
<1>1. TypeOK
  <2>1. stored \in Keys /\ lock \in Tabs \cup {None}
    BY DEF Sound, LockInv
  <2>2. ASSUME NEW t \in Tabs
        PROVE  /\ tab[t].id \in Identity \cup {None}
               /\ tab[t].id # None => ~tab[t].signedOut /\ tab[t].pending = None
               /\ Len(tab[t].boots) <= 2
    BY SoundTab DEF View, Asks
  <2>3. ASSUME lock # None
        PROVE  tab[lock].boots # <<>> /\ tab[lock].boots[1].at # "queued"
    <3>1. lock \in Tabs /\ Asking(tab[lock])
      BY <2>1, <2>3 DEF Sound, LockInv
    <3>2. Asks(tab[lock])
      BY <3>1, SoundTab
    <3> QED
      BY <3>1, <3>2, FirstBoot DEF Asking
  <2> QED
    BY <2>1, <2>2, <2>3 DEF TypeOK
<1>2. TabsAgree
  BY SoundTab DEF TabsAgree, Agrees
<1> QED
  BY <1>1, <1>2 DEF TabsSound

(* Every tab that has heard what changed acts as the identity in the key,  *)
(* unless it left it, could not write its own, or reads another identity's *)
(* tombstone (syncFromStorage).                                            *)
THEOREM TheTabsAreSound == Spec => []TabsSound
<1>1. Sound /\ StoreTypes => TabsSound
  BY SoundMeans
<1> QED
  BY <1>1, IdentityInvariance, PTL

(* A whole identity goes out of the key only by a tab that left its token, *)
(* or whose link has landed (installTombstone, clearStored, the last look  *)
(* of bootstrap).                                                          *)
THEOREM TheNewerIsKept == Spec => NewerKept
<1>1. ASSUME Sound, StoreTypes, Next, KeyIdentity(stored) # None, stored'.token # stored.token
      PROVE  \E t \in Tabs : stored.token \in left'[t] \/ Linked(t)
  <2>1. \E t \in Tabs : Goes(t)
    BY <1>1, TabStep DEF Revoke
  <2>2. PICK t, m, s : t \in Tabs /\ Move(t, m, s) /\ Replaces(t, m, s)
    BY <2>1 DEF Goes
  <2>3. /\ tab'[t] = m /\ stored' = s /\ m.departed \subseteq left'[t]
        /\ s # stored => left[t] \subseteq left'[t]
    BY <2>2 DEF Move
  <2>4. stored.token \in m.departed \cup tab[t].departed \/ (tab[t].link # None /\ m.link = None)
    BY <1>1, <2>2, <2>3 DEF Replaces
  <2>5. tab[t].departed \subseteq left[t] /\ s # stored
    BY <1>1, <2>2, <2>3, SoundTab
  <2> QED
    BY <2>2, <2>3, <2>4, <2>5 DEF Linked
<1>2. Sound /\ StoreTypes /\ [Next]_vars =>
        [KeyIdentity(stored) # None /\ stored'.token # stored.token =>
            \E t \in Tabs : stored.token \in left'[t] \/ Linked(t)]_vars
  BY <1>1
<1> QED
  BY <1>2, IdentityInvariance, PTL DEF Spec, NewerKept

-----------------------------------------------------------------------------
(* What a tab may know after a step                                        *)

KeyFrom(t, m, s) ==
    \/ s \in {stored, EmptyKey}
    \/ m.id # None /\ s = WholeKey(m.id)
    \/ m.pending # None /\ s = PendingKey(m.pending)
    \/ tab[t].id # None /\ s = Tombstone(IdsOf(tab[t].id))

(* The server is as it was, but that a device may have been moved.         *)
Known ==
    /\ used' = used /\ made' = made
    /\ \A x \in Tokens : device'[x] # None =>
            device[x] # None /\ device'[x].account \in {device[x].account} \cup spare.bound

SameBoot(t, m) == Asking(m) => Asking(tab[t]) /\ m.boots[1] = tab[t].boots[1]

(* Nothing that the tab or the key did not hold.                           *)
Follows(t, m) ==
    /\ Known /\ SameBoot(t, m)
    /\ m.id \in {tab[t].id, None, KeyIdentity(stored)}
    /\ m.pending \in {tab[t].pending, None, stored.token}
    /\ Proven(m) => /\ Proven(tab[t]) /\ m.pending = tab[t].pending
                    /\ m.signedOut => tab[t].signedOut
                    /\ Asking(tab[t]) => Asking(m) \/ tab[t].signedOut
    /\ m.link # None => m.link = tab[t].link \/ m.link.to \in spare.bound

(* A token sent to be resolved, of its own or resumed.                     *)
Enters(t, m) ==
    /\ ~Asking(tab[t]) /\ Asking(m) /\ m.boots[1].at = "asking" /\ m.boots[1].token = m.pending
    /\ m.id = None /\ ~m.signedOut /\ m.link = tab[t].link
    /\ \/ m.pending = used + 1
       \/ m.pending \in {tab[t].pending, stored.token} /\ (Proven(m) => Proven(tab[t]))
    /\ used' = IF m.pending > used THEN m.pending ELSE used
    /\ made' = made /\ device' = device

(* The server's answer to it.                                              *)
Registers(t, m) ==
    LET b == tab[t].boots[1]
        ids == m.boots[1].ids
    IN
    /\ Asking(tab[t]) /\ b.at = "asking"
    /\ Asking(m) /\ m.boots[1].at = "answered" /\ m.boots[1].token = b.token
    /\ m.id = tab[t].id /\ m.pending = tab[t].pending /\ m.unproven = tab[t].unproven
    /\ m.signedOut = tab[t].signedOut /\ m.link = tab[t].link
    /\ \/ Standing(b.token) /\ ids = device[b.token]
       \/ ~Standing(b.token) /\ ids.account = made + 1 /\ ids.device = made + 1
    /\ device' = [device EXCEPT ![b.token] = ids]
    /\ made' = IF ids.device > made THEN ids.device ELSE made
    /\ used' = used

(* The identity the answer names, taken.                                   *)
Lands(t, m) ==
    /\ Known /\ ~Asking(m)
    /\ Asking(tab[t]) /\ tab[t].boots[1].at = "answered" /\ ~tab[t].signedOut
    /\ m.id = Whole(tab[t].boots[1].token, tab[t].boots[1].ids)
    /\ m.pending = None /\ m.link = tab[t].link
    /\ m.minted => ~tab[t].unproven

(* The identity held, as another account.                                  *)
Relinks(t, m) ==
    /\ Known /\ SameBoot(t, m)
    /\ tab[t].link # None /\ tab[t].id # None /\ m.id = [tab[t].id EXCEPT !.account = tab[t].link.to]
    /\ m.pending = None /\ m.link = None

Comes(t, m, s) ==
    /\ KeyFrom(t, m, s)
    /\ \/ acted' = acted \cup {id.account : id \in {m.id} \ {None}}
       \/ acted' = acted /\ m.id \in {tab[t].id, None}
    /\ m.id # None /\ TokensOf(m) # TokensOf(tab[t]) /\ m.minted => Lands(t, m)
    /\ Follows(t, m) \/ Enters(t, m) \/ Registers(t, m) \/ Lands(t, m) \/ Relinks(t, m)

LEMMA CommitActs ==
    ASSUME TabTypes, NEW t \in Tabs, NEW m, NEW s, NEW ok, Commit(t, m, s, ok)
    PROVE  /\ tab'[t] = m /\ stored' = s
           /\ acted' = acted \cup {id.account : id \in {m.id} \ {None}}
<1>1. tab'[t] = m /\ stored' = s
  BY Committed DEF Move
<1> QED
  BY <1>1 DEF Commit

LEMMA ServerKnown ==
    ASSUME UNCHANGED used, UNCHANGED Server
    PROVE  Known
BY DEF Server, Known

(* A tab that keeps its bootstraps and its link, or ends the first of them *)
(* before it was on its way, follows.                                      *)
LEMMA SyncFollows ==
    ASSUME Sound, NEW t \in Tabs, NEW m, m = Synced(tab[t], stored)
    PROVE  /\ m.id \in {tab[t].id, None, KeyIdentity(stored)} /\ (m.id \in {tab[t].id, None} \/ ~m.minted)
           /\ m.pending \in {tab[t].pending, None, stored.token}
           /\ Proven(m) => Proven(tab[t]) /\ m.pending = tab[t].pending /\ (m.signedOut => tab[t].signedOut)
           /\ m.link = tab[t].link /\ m.boots = tab[t].boots /\ DOMAIN m = TabFields
<1>1. PICK o : o = tab[t]
  OBVIOUS
<1>2. View(o) /\ stored \in Keys
  BY <1>1, SoundTab
<1>3. m = Synced(o, stored)
  BY <1>1
<1>4. Origin(o, m, stored)
  BY <1>2, <1>3, SyncedOrigin
<1>5. Waits(o, m) /\ DOMAIN m = TabFields
  BY <1>1, SyncsWell
<1> QED
  BY <1>1, <1>4, <1>5 DEF Origin, Waits

LEMMA FollowComes ==
    ASSUME Sound, NEW t \in Tabs, Follow(t)
    PROVE  Comes(t, tab'[t], stored')
<1>1. PICK ok : Commit(t, [Synced(tab[t], stored) EXCEPT !.event = FALSE], KeyAfterSync(tab[t], stored, ok), ok)
  BY DEF Follow
<1>2. PICK m : m = Synced(tab[t], stored)
  OBVIOUS
<1>3. PICK n : n = [m EXCEPT !.event = FALSE]
  OBVIOUS
<1>4. Commit(t, n, KeyAfterSync(tab[t], stored, ok), ok)
  BY <1>1, <1>2, <1>3
<1>5. /\ tab'[t] = n /\ stored' \in {stored, EmptyKey}
      /\ acted' = acted \cup {id.account : id \in {n.id} \ {None}}
  BY <1>4, CommitActs, SoundTab DEF KeyAfterSync
<1>6. /\ m.id \in {tab[t].id, None, KeyIdentity(stored)} /\ (m.id \in {tab[t].id, None} \/ ~m.minted)
      /\ m.pending \in {tab[t].pending, None, stored.token}
      /\ Proven(m) => Proven(tab[t]) /\ m.pending = tab[t].pending /\ (m.signedOut => tab[t].signedOut)
      /\ m.link = tab[t].link /\ m.boots = tab[t].boots /\ DOMAIN m = TabFields
  BY <1>2, SyncFollows
<1>7. /\ n.id = m.id /\ n.minted = m.minted /\ n.pending = m.pending /\ n.unproven = m.unproven
      /\ n.signedOut = m.signedOut /\ n.link = m.link /\ n.boots = m.boots
  BY <1>3, <1>6 DEF TabFields
<1>8. Known
  BY ServerKnown DEF Follow
<1>9. Follows(t, n)
  BY <1>6, <1>7, <1>8 DEF Follows, SameBoot, Proven, Asking
<1> QED
  BY <1>5, <1>6, <1>7, <1>9 DEF Comes, KeyFrom, TokensOf

LEMMA EnsureComes ==
    ASSUME Sound, NEW t \in Tabs, Ensure(t)
    PROVE  Comes(t, tab'[t], stored')
<1>1. PICK m : m = Synced(tab[t], stored)
  OBVIOUS
<1>2. PICK n : n = IF m.flight THEN m ELSE [m EXCEPT !.boots = Append(@, Queued), !.flight = TRUE]
  OBVIOUS
<1>3. /\ tab' = [tab EXCEPT ![t] = n] /\ m.id = None /\ Len(tab[t].boots) < 2
      /\ stored' = stored /\ acted' = acted
  BY <1>1, <1>2 DEF Ensure
<1>4. /\ m.pending \in {tab[t].pending, None, stored.token}
      /\ Proven(m) => Proven(tab[t]) /\ m.pending = tab[t].pending /\ (m.signedOut => tab[t].signedOut)
      /\ m.link = tab[t].link /\ m.boots = tab[t].boots /\ DOMAIN m = TabFields
  BY <1>1, SyncFollows
<1>5. Asks(m)
  BY <1>1, SyncsWell
<1>6. /\ n.id = m.id /\ n.pending = m.pending /\ n.unproven = m.unproven
      /\ n.signedOut = m.signedOut /\ n.link = m.link
      /\ n.boots = m.boots \/ n.boots = Append(m.boots, Queued)
  BY <1>2, <1>4 DEF TabFields
<1>7. (Asking(n) <=> Asking(m)) /\ (Asking(n) => n.boots[1] = m.boots[1])
  <2>1. m.boots \in Seq(Boot) /\ Len(m.boots) < 2 /\ Queued \in Boot /\ Queued.at = "queued"
    BY <1>3, <1>4, <1>5 DEF Asks, Queued, Boot
  <2>2. PICK q : q = Append(m.boots, Queued)
    OBVIOUS
  <2>3. /\ Len(m.boots) \in {0, 1} /\ Len(q) = Len(m.boots) + 1
        /\ Len(m.boots) = 0 => q[1] = Queued
        /\ Len(m.boots) = 1 => q[1] = m.boots[1]
    BY <2>1, <2>2, AppendFacts
  <2> QED
    BY <1>6, <2>1, <2>2, <2>3 DEF Asking
<1>8. Known
  BY ServerKnown DEF Ensure
<1>9. Follows(t, n)
  BY <1>3, <1>4, <1>6, <1>7, <1>8 DEF Follows, SameBoot, Proven, Asking
<1>10. tab'[t] = n
  BY <1>3, SoundTab
<1> QED
  BY <1>3, <1>6, <1>9, <1>10 DEF Comes, KeyFrom

LEMMA EnterComes ==
    ASSUME Sound, StoreTypes, NEW t \in Tabs, Enter(t)
    PROVE  Comes(t, tab'[t], stored')
<1>1. PICK m : m = Synced(tab[t], stored)
  OBVIOUS
<1>2. PICK token : token = TokenFor(m)
  OBVIOUS
<1>3. /\ tab[t].boots # <<>> /\ tab[t].boots[1].at = "queued"
  BY DEF Enter
<1>4. /\ m.id \in {tab[t].id, None, KeyIdentity(stored)} /\ (m.id \in {tab[t].id, None} \/ ~m.minted)
      /\ m.pending \in {tab[t].pending, None, stored.token}
      /\ Proven(m) => Proven(tab[t]) /\ m.pending = tab[t].pending /\ (m.signedOut => tab[t].signedOut)
      /\ m.link = tab[t].link /\ m.boots = tab[t].boots /\ DOMAIN m = TabFields
  BY <1>1, SyncFollows
<1>5. Asks(m) /\ Len(m.boots) > 0 /\ ~Asking(m) /\ ~Asking(tab[t])
  BY <1>1, <1>3, <1>4, SyncsWell, SomeBoot DEF Asking
<1>6. PICK ok \in Writes :
        IF m.id # None \/ m.signedOut
        THEN /\ Commit(t, Ended(m), KeyAfterSync(tab[t], stored, ok), ok)
             /\ UNCHANGED <<lock, used>>
        ELSE /\ token <= MaxToken
             /\ Commit(t, [m EXCEPT !.pending = token,
                                    !.unproven = IF m.pending = None THEN FALSE ELSE @,
                                    !.boots[1] = [at |-> "asking", token |-> token, ids |-> None]],
                       IF ok THEN PendingKey(token) ELSE KeyAfterSync(tab[t], stored, FALSE), ok)
             /\ lock' = t
             /\ used' = IF token > used THEN token ELSE used
  BY <1>1, <1>2 DEF Enter
<1>7. made' = made /\ device' = device /\ UNCHANGED Server
  BY DEF Enter, Server
<1>8. CASE m.id # None \/ m.signedOut
  <2>1. PICK n : n = Ended(m)
    OBVIOUS
  <2>2. /\ n.id = m.id /\ n.minted = m.minted /\ n.pending = m.pending /\ n.unproven = m.unproven
        /\ n.signedOut = m.signedOut /\ n.link = m.link
    BY <1>4, <2>1 DEF Ended, TabFields
  <2>3. ~Asking(n)
    BY <1>4, <1>5, <2>1, EndedFacts
  <2>4. Commit(t, n, KeyAfterSync(tab[t], stored, ok), ok) /\ Known
    BY <1>6, <1>7, <1>8, <2>1, ServerKnown
  <2>5. /\ tab'[t] = n /\ stored' \in {stored, EmptyKey}
        /\ acted' = acted \cup {id.account : id \in {n.id} \ {None}}
    BY <2>4, CommitActs, SoundTab DEF KeyAfterSync
  <2>6. Follows(t, n)
    BY <1>4, <1>5, <2>2, <2>3, <2>4 DEF Follows, SameBoot, Proven
  <2> QED
    BY <1>4, <2>2, <2>5, <2>6 DEF Comes, KeyFrom, TokensOf
<1>9. CASE ~(m.id # None \/ m.signedOut)
  <2>1. PICK n : n = [m EXCEPT !.pending = token,
                               !.unproven = IF m.pending = None THEN FALSE ELSE @,
                               !.boots[1] = [at |-> "asking", token |-> token, ids |-> None]]
    OBVIOUS
  <2>2. PICK b : b = [at |-> "asking", token |-> token, ids |-> None]
    OBVIOUS
  <2>3. /\ n.id = m.id /\ n.signedOut = m.signedOut /\ n.link = m.link /\ n.pending = token
        /\ n.boots = [m.boots EXCEPT ![1] = b]
        /\ m.pending # None => n.unproven = m.unproven
    BY <1>4, <2>1, <2>2 DEF TabFields
  <2>4. Asking(n) /\ n.boots[1].at = "asking" /\ n.boots[1].token = token
    <3>1. PICK q : q = [m.boots EXCEPT ![1] = b]
      OBVIOUS
    <3>2. Len(q) = Len(m.boots) /\ q[1] = b
      BY <1>5, <3>1 DEF Asks
    <3>3. b.at = "asking" /\ b.token = token
      BY <2>2
    <3> QED
      BY <1>5, <2>3, <3>1, <3>2, <3>3 DEF Asking
  <2>5. PICK s : s = IF ok THEN PendingKey(token) ELSE KeyAfterSync(tab[t], stored, FALSE)
    OBVIOUS
  <2>6. Commit(t, n, s, ok) /\ used' = (IF token > used THEN token ELSE used)
    BY <1>6, <1>9, <2>1, <2>5
  <2>7. /\ tab'[t] = n /\ stored' = s
        /\ acted' = acted \cup {id.account : id \in {n.id} \ {None}}
    BY <2>6, CommitActs, SoundTab
  <2>8. n.id = None /\ ~n.signedOut
    BY <1>9, <2>3
  <2>9. token = used + 1 \/ (token = m.pending /\ m.pending # None)
    BY <1>2 DEF TokenFor
  <2>10. Enters(t, n)
    <3>1. CASE token = used + 1
      BY <1>4, <1>5, <1>7, <2>3, <2>4, <2>6, <2>8, <3>1 DEF Enters
    <3>2. CASE token = m.pending /\ m.pending # None
      <4>1. Proven(n) => Proven(m)
        BY <2>3, <3>2 DEF Proven
      <4> QED
        BY <1>4, <1>5, <1>7, <2>3, <2>4, <2>6, <2>8, <3>2, <4>1 DEF Enters
    <3> QED
      BY <2>9, <3>1, <3>2
  <2>11. KeyFrom(t, n, s)
    <3>1. n.pending # None
      <4>1. View(m)
        BY <1>1, SyncsWell
      <4>2. token \in Tokens
        BY <1>2, <1>6, <1>9, <4>1 DEF TokenFor, View, Tokens, StoreTypes
      <4> QED
        BY <2>3, <4>2, NoneAssumption DEF NoneAssumption
    <3> QED
      BY <2>3, <2>5, <3>1 DEF KeyFrom, KeyAfterSync
  <2> QED
    BY <2>7, <2>8, <2>10, <2>11 DEF Comes
<1> QED
  BY <1>8, <1>9

LEMMA RegisterComes ==
    ASSUME Sound, NEW t \in Tabs, Register(t)
    PROVE  Comes(t, tab'[t], stored')
<1>1. PICK m : m = tab[t]
  OBVIOUS
<1>2. PICK token : token = m.boots[1].token
  OBVIOUS
<1>3. PICK ids : ids = IF Standing(token) THEN device[token] ELSE [account |-> made + 1, device |-> made + 1]
  OBVIOUS
<1>4. PICK b : b = [at |-> "answered", token |-> token, ids |-> ids]
  OBVIOUS
<1>5. PICK n : n = [m EXCEPT !.boots[1] = b]
  OBVIOUS
<1>6. /\ m.boots # <<>> /\ m.boots[1].at = "asking"
      /\ tab' = [tab EXCEPT ![t].boots[1] = [at |-> "answered", token |-> token, ids |-> ids]]
      /\ device' = [device EXCEPT ![token] = ids]
      /\ made' = (IF ids.device > made THEN ids.device ELSE made)
      /\ stored' = stored /\ used' = used /\ acted' = acted
  BY <1>1, <1>2, <1>3 DEF Register
<1>7. Asks(m) /\ DOMAIN m = TabFields /\ DOMAIN tab = Tabs
  BY <1>1, SoundTab
<1>8. Len(m.boots) > 0 /\ Asking(m)
  BY <1>6, <1>7, SomeBoot DEF Asking
<1>9. b.at = "answered" /\ b.token = token /\ b.ids = ids
  BY <1>4
<1>10. tab'[t] = n
  BY <1>1, <1>4, <1>5, <1>6, <1>7
<1>11. /\ n.id = m.id /\ n.pending = m.pending /\ n.unproven = m.unproven
       /\ n.signedOut = m.signedOut /\ n.link = m.link /\ n.boots = [m.boots EXCEPT ![1] = b]
  BY <1>5, <1>7 DEF TabFields
<1>12. Asking(n) /\ n.boots[1] = b
  <2>1. PICK q : q = [m.boots EXCEPT ![1] = b]
    OBVIOUS
  <2>2. Len(q) = Len(m.boots) /\ q[1] = b
    BY <1>7, <1>8, <2>1 DEF Asks
  <2> QED
    BY <1>8, <1>9, <1>11, <2>1, <2>2 DEF Asking
<1>13. \/ Standing(token) /\ ids = device[token]
       \/ ~Standing(token) /\ ids.account = made + 1 /\ ids.device = made + 1
  BY <1>3
<1>14. Registers(t, n)
  BY <1>1, <1>2, <1>6, <1>8, <1>9, <1>11, <1>12, <1>13 DEF Registers
<1> QED
  BY <1>1, <1>6, <1>10, <1>11, <1>14 DEF Comes, KeyFrom, TokensOf

LEMMA BootFailsComes ==
    ASSUME Sound, NEW t \in Tabs, BootFails(t)
    PROVE  Comes(t, tab'[t], stored')
<1>1. PICK m : m = tab[t]
  OBVIOUS
<1>2. PICK e : e = Ended(m)
  OBVIOUS
<1>3. PICK n : n = Released(m)
  OBVIOUS
<1>4. /\ m.boots # <<>> /\ tab' = [tab EXCEPT ![t] = n] /\ stored' = stored /\ acted' = acted /\ Known
  BY <1>1, <1>3, ServerKnown DEF BootFails
<1>5. Asks(m) /\ DOMAIN m = TabFields /\ DOMAIN tab = Tabs
  BY <1>1, SoundTab
<1>6. Len(m.boots) > 0
  BY <1>4, <1>5, SomeBoot
<1>7. DOMAIN e = TabFields /\ e.id = m.id /\ e.pending = m.pending /\ e.link = m.link /\ ~Asking(e)
  BY <1>2, <1>5, <1>6, EndedFacts DEF Same
<1>8. n = [e EXCEPT !.unproven = TRUE]
  BY <1>2, <1>3 DEF Released
<1>9. n.id = m.id /\ n.pending = m.pending /\ n.link = m.link /\ ~Asking(n) /\ n.unproven
  BY <1>7, <1>8 DEF TabFields, Asking
<1>10. Follows(t, n)
  BY <1>1, <1>4, <1>9 DEF Follows, SameBoot, Proven
<1> QED
  BY <1>1, <1>4, <1>5, <1>9, <1>10 DEF Comes, KeyFrom, TokensOf

LEMMA BootLandsComes ==
    ASSUME Sound, NEW t \in Tabs, BootLands(t)
    PROVE  Comes(t, tab'[t], stored')
<1>1. PICK m : m = tab[t]
  OBVIOUS
<1>2. PICK mine : mine = Whole(m.boots[1].token, m.boots[1].ids)
  OBVIOUS
<1>3. PICK y : y = Settled(Ended(m))
  OBVIOUS
<1>4. PICK k : k = KeyIdentity(stored)
  OBVIOUS
<1>5. m.boots # <<>> /\ m.boots[1].at = "answered" /\ Known
  BY <1>1, ServerKnown DEF BootLands
<1>6. PICK ok \in BOOLEAN :
        IF m.signedOut THEN ok /\ Commit(t, Ended(m), stored, ok)
        ELSE IF Raced(m, m.boots[1].token)
        THEN Commit(t, Publish([y EXCEPT !.sessionOnly = FALSE, !.departed = {}], k, FALSE, FALSE, None), stored, ok)
        ELSE Commit(t, Publish([y EXCEPT !.sessionOnly = ~ok, !.departed = IF ok THEN {} ELSE y.departed],
                               mine, FALSE, ~m.unproven, None),
                    IF ok THEN WholeKey(mine) ELSE stored, ok)
  BY <1>1, <1>2, <1>3, <1>4 DEF BootLands, Writes
<1>7. View(m) /\ Asks(m) /\ DOMAIN m = TabFields /\ TabTypes
  BY <1>1, SoundTab
<1>8. Len(m.boots) > 0 /\ m.boots[1].token \in Tokens /\ m.boots[1].ids \in Ids /\ Asking(m)
  BY <1>5, <1>7, SomeBoot, FirstBoot
<1>9. /\ DOMAIN y = TabFields /\ y.pending = None /\ y.link = m.link /\ ~Asking(y)
  BY <1>3, <1>7, <1>8, LandedFacts
<1>10. CASE m.signedOut
  <2>1. PICK n : n = Ended(m)
    OBVIOUS
  <2>2. /\ n.id = m.id /\ n.pending = m.pending /\ n.unproven = m.unproven /\ n.link = m.link
        /\ n.signedOut = m.signedOut
    BY <1>7, <2>1 DEF Ended, TabFields
  <2>3. ~Asking(n)
    BY <1>7, <1>8, <2>1, EndedFacts
  <2>4. Commit(t, n, stored, ok)
    BY <1>6, <1>10, <2>1
  <2>5. /\ tab'[t] = n /\ stored' = stored
        /\ acted' = acted \cup {id.account : id \in {n.id} \ {None}}
    BY <1>7, <2>4, CommitActs
  <2>6. Follows(t, n)
    BY <1>1, <1>5, <1>10, <2>2, <2>3 DEF Follows, SameBoot, Proven
  <2> QED
    BY <1>1, <2>2, <2>5, <2>6 DEF Comes, KeyFrom, TokensOf
<1>11. CASE ~m.signedOut /\ Raced(m, m.boots[1].token)
  <2>1. PICK e : e = [y EXCEPT !.sessionOnly = FALSE, !.departed = {}]
    OBVIOUS
  <2>2. PICK n : n = Publish(e, k, FALSE, FALSE, None)
    OBVIOUS
  <2>3. Commit(t, n, stored, ok)
    BY <1>6, <1>11, <2>1, <2>2
  <2>4. /\ tab'[t] = n /\ stored' = stored
        /\ acted' = acted \cup {id.account : id \in {n.id} \ {None}}
    BY <1>7, <2>3, CommitActs
  <2>5. DOMAIN e = TabFields /\ e.pending = None /\ e.link = y.link /\ e.boots = y.boots
    BY <1>9, <2>1 DEF TabFields
  <2>6. n.id = k /\ ~n.minted /\ n.pending = None /\ n.link = m.link /\ n.boots = y.boots
    BY <1>9, <2>2, <2>5 DEF Publish, TabFields
  <2>7. ~Asking(n)
    BY <1>9, <2>6 DEF Asking
  <2>8. Follows(t, n)
    BY <1>1, <1>4, <1>5, <2>6, <2>7 DEF Follows, SameBoot, Proven
  <2> QED
    BY <2>4, <2>6, <2>8 DEF Comes, KeyFrom
<1>12. CASE ~m.signedOut /\ ~Raced(m, m.boots[1].token)
  <2>1. PICK d : d = IF ok THEN {} ELSE y.departed
    OBVIOUS
  <2>2. PICK e : e = [y EXCEPT !.sessionOnly = ~ok, !.departed = d]
    OBVIOUS
  <2>3. PICK n : n = Publish(e, mine, FALSE, ~m.unproven, None)
    OBVIOUS
  <2>4. PICK s : s = IF ok THEN WholeKey(mine) ELSE stored
    OBVIOUS
  <2>5. Commit(t, n, s, ok)
    BY <1>6, <1>12, <2>1, <2>2, <2>3, <2>4
  <2>6. /\ tab'[t] = n /\ stored' = s
        /\ acted' = acted \cup {id.account : id \in {n.id} \ {None}}
    BY <1>7, <2>5, CommitActs
  <2>7. DOMAIN e = TabFields /\ e.pending = None /\ e.link = y.link /\ e.boots = y.boots
    BY <1>9, <2>2 DEF TabFields
  <2>8. n.id = mine /\ n.pending = None /\ n.link = m.link /\ n.boots = y.boots
    BY <1>9, <2>3, <2>7 DEF Publish, TabFields
  <2>9. n.minted => ~m.unproven
    BY <2>3, <2>7 DEF Publish, TabFields
  <2>10. ~Asking(n)
    BY <1>9, <2>8 DEF Asking
  <2>11. Lands(t, n)
    BY <1>1, <1>2, <1>5, <1>8, <1>12, <2>8, <2>9, <2>10 DEF Lands
  <2>12. mine # None
    BY <1>2, <1>8, WholeIdentity, NoneAssumption DEF NoneAssumption
  <2>13. KeyFrom(t, n, s)
    BY <2>4, <2>8, <2>12 DEF KeyFrom
  <2> QED
    BY <2>6, <2>11, <2>13 DEF Comes
<1> QED
  BY <1>10, <1>11, <1>12

(* A tab that waits for one more answer, or for one less, and is otherwise *)
(* as it was.                                                              *)
LEMMA AwaitComes ==
    ASSUME NEW t \in Tabs, NEW n, Known, stored' = stored,
           \/ acted' = acted
           \/ acted' = acted \cup {id.account : id \in {n.id} \ {None}},
           n.id = tab[t].id, n.pending = tab[t].pending, n.unproven = tab[t].unproven,
           n.signedOut = tab[t].signedOut, n.boots = tab[t].boots,
           n.link # None => n.link = tab[t].link \/ n.link.to \in spare.bound
    PROVE  Comes(t, n, stored')
<1>1. Follows(t, n)
  BY DEF Follows, SameBoot, Proven, Asking
<1> QED
  BY <1>1 DEF Comes, KeyFrom, TokensOf

LEMMA RefuseComes ==
    ASSUME Sound, NEW t \in Tabs, Refuse(t)
    PROVE  Comes(t, tab'[t], stored')
<1>1. PICK m : m = tab[t]
  OBVIOUS
<1>2. PICK n : n = [m EXCEPT !.verdict = IdsOf(m.id)]
  OBVIOUS
<1>3. tab' = [tab EXCEPT ![t] = n] /\ stored' = stored /\ acted' = acted /\ Known
  BY <1>1, <1>2, ServerKnown DEF Refuse
<1>4. DOMAIN m = TabFields /\ DOMAIN tab = Tabs
  BY <1>1, SoundTab
<1>5. /\ n.id = m.id /\ n.pending = m.pending /\ n.unproven = m.unproven /\ n.signedOut = m.signedOut
      /\ n.boots = m.boots /\ n.link = m.link
  BY <1>2, <1>4 DEF TabFields
<1>6. tab'[t] = n
  BY <1>3, <1>4
<1> QED
  BY <1>1, <1>3, <1>5, <1>6, AwaitComes

LEMMA DeleteComes ==
    ASSUME Sound, NEW t \in Tabs, Delete(t)
    PROVE  Comes(t, tab'[t], stored')
<1>1. PICK m : m = tab[t]
  OBVIOUS
<1>2. PICK n : n = [m EXCEPT !.deleting = IdsOf(m.id)]
  OBVIOUS
<1>3. tab' = [tab EXCEPT ![t] = n] /\ stored' = stored /\ acted' = acted /\ Known
  BY <1>1, <1>2 DEF Delete, Known
<1>4. DOMAIN m = TabFields /\ DOMAIN tab = Tabs
  BY <1>1, SoundTab
<1>5. /\ n.id = m.id /\ n.pending = m.pending /\ n.unproven = m.unproven /\ n.signedOut = m.signedOut
      /\ n.boots = m.boots /\ n.link = m.link
  BY <1>2, <1>4 DEF TabFields
<1>6. tab'[t] = n
  BY <1>3, <1>4
<1> QED
  BY <1>1, <1>3, <1>5, <1>6, AwaitComes

LEMMA LinkComes ==
    ASSUME Sound, StoreTypes, NEW t \in Tabs, Link(t)
    PROVE  Comes(t, tab'[t], stored')
<1>1. PICK m : m = tab[t]
  OBVIOUS
<1>2. PICK k : k = m.id.token
  OBVIOUS
<1>3. PICK a \in spare.bound :
        /\ device' = [device EXCEPT ![k].account = a]
        /\ tab' = [tab EXCEPT ![t].link = [from |-> IdsOf(m.id), to |-> a]]
  BY <1>1, <1>2 DEF Link
<1>4. PICK l : l = [from |-> IdsOf(m.id), to |-> a]
  OBVIOUS
<1>5. PICK n : n = [m EXCEPT !.link = l]
  OBVIOUS
<1>6. /\ m.id # None /\ Standing(k) /\ tab' = [tab EXCEPT ![t] = n]
      /\ stored' = stored /\ acted' = acted /\ used' = used /\ made' = made
  BY <1>1, <1>2, <1>3, <1>4, <1>5 DEF Link
<1>7. View(m) /\ DOMAIN m = TabFields /\ DOMAIN tab = Tabs
  BY <1>1, SoundTab
<1>8. /\ n.id = m.id /\ n.pending = m.pending /\ n.unproven = m.unproven /\ n.signedOut = m.signedOut
      /\ n.boots = m.boots /\ n.link.to \in spare.bound
  BY <1>4, <1>5, <1>7 DEF TabFields
<1>9. tab'[t] = n
  BY <1>6, <1>7
<1>10. Known
  <2>1. k \in Tokens /\ device[k] # None /\ device \in [Tokens -> Ids \cup {None}]
    BY <1>2, <1>6, <1>7, IdsOfHeld DEF Standing, StoreTypes
  <2>2. device[k] \in Ids
    BY <2>1
  <2>3. PICK d : d = [device[k] EXCEPT !.account = a]
    OBVIOUS
  <2>4. d.account = a
    BY <2>2, <2>3 DEF Ids
  <2>5. device' = [device EXCEPT ![k] = d]
    BY <1>3, <2>3
  <2>6. ASSUME NEW x \in Tokens, device'[x] # None
        PROVE  device[x] # None /\ device'[x].account \in {device[x].account} \cup spare.bound
    BY <2>1, <2>4, <2>5, <2>6
  <2> QED
    BY <1>6, <2>6 DEF Known
<1> QED
  BY <1>1, <1>6, <1>8, <1>9, <1>10, AwaitComes

(* A tab that leaves its identity.                                         *)
LEMMA LeaveComes ==
    ASSUME NEW t \in Tabs, NEW n, NEW s, Known, KeyFrom(t, n, s),
           acted' = acted \cup {id.account : id \in {n.id} \ {None}},
           n.id = None, n.pending = None, n.boots = tab[t].boots,
           n.link # None => n.link = tab[t].link
    PROVE  Comes(t, n, s)
<1>1. Follows(t, n)
  BY DEF Follows, SameBoot, Proven, Asking
<1> QED
  BY <1>1 DEF Comes

LEMMA VerdictLandsComes ==
    ASSUME Sound, NEW t \in Tabs, VerdictLands(t)
    PROVE  Comes(t, tab'[t], stored')
<1>1. PICK m : m = tab[t]
  OBVIOUS
<1>2. PICK n : n = [m EXCEPT !.verdict = None]
  OBVIOUS
<1>3. PICK y : y = Settled(n)
  OBVIOUS
<1> DEFINE out(shared) ==
        Publish([y EXCEPT !.departed = @ \cup TokensOf(m), !.shared = shared, !.dismissed = None,
                          !.sessionOnly = FALSE, !.flight = FALSE], None, TRUE, FALSE, IdsOf(m.id))
<1>4. m.verdict # None /\ Known
  BY <1>1, ServerKnown DEF VerdictLands
<1>5. PICK ok \in BOOLEAN :
        IF ~StillNamed(m, m.verdict) THEN Commit(t, n, stored, ok)
        ELSE IF MayInstall(m.id.token) THEN Commit(t, out(ok), IF ok THEN Tombstone(IdsOf(m.id)) ELSE stored, ok)
        ELSE Commit(t, out(FALSE), stored, ok)
  BY <1>1, <1>2, <1>3 DEF VerdictLands, Writes
<1>6. View(m) /\ Asks(m) /\ DOMAIN m = TabFields /\ TabTypes
  BY <1>1, SoundTab
<1>7. /\ DOMAIN n = TabFields /\ n.id = m.id /\ n.pending = m.pending /\ n.unproven = m.unproven
      /\ n.signedOut = m.signedOut /\ n.boots = m.boots /\ n.link = m.link
  BY <1>2, <1>6 DEF TabFields
<1>8. CASE ~StillNamed(m, m.verdict)
  <2>1. Commit(t, n, stored, ok)
    BY <1>5, <1>8
  <2>2. /\ tab'[t] = n /\ stored' = stored
        /\ acted' = acted \cup {id.account : id \in {n.id} \ {None}}
    BY <1>6, <2>1, CommitActs
  <2> QED
    BY <1>1, <1>4, <1>7, <2>2, AwaitComes
<1>9. CASE StillNamed(m, m.verdict)
  <2>1. m.id # None
    BY <1>4, <1>9 DEF StillNamed, IdsOf
  <2>2. PICK shared, s :
          /\ Commit(t, out(shared), s, ok)
          /\ s = Tombstone(IdsOf(m.id)) \/ s = stored
    BY <1>5, <1>9
  <2>3. PICK e : e = [y EXCEPT !.departed = @ \cup TokensOf(m), !.shared = shared, !.dismissed = None,
                               !.sessionOnly = FALSE, !.flight = FALSE]
    OBVIOUS
  <2>4. PICK o : o = Publish(e, None, TRUE, FALSE, IdsOf(m.id))
    OBVIOUS
  <2>5. Commit(t, o, s, ok)
    BY <2>2, <2>3, <2>4
  <2> HIDE DEF out
  <2>6. DOMAIN y = TabFields /\ y.pending = None /\ y.boots = n.boots /\ y.link = n.link
    BY <1>3, <1>7 DEF Settled, TabFields
  <2>7. DOMAIN e = TabFields /\ e.pending = None /\ e.boots = y.boots /\ e.link = y.link
    BY <2>3, <2>6 DEF TabFields
  <2>8. o.id = None /\ o.pending = None /\ o.boots = m.boots /\ o.link = m.link
    BY <1>7, <2>4, <2>6, <2>7 DEF Publish, TabFields
  <2>9. /\ tab'[t] = o /\ stored' = s
        /\ acted' = acted \cup {id.account : id \in {o.id} \ {None}}
    BY <1>6, <2>5, CommitActs
  <2>10. KeyFrom(t, o, s)
    BY <1>1, <2>1, <2>2 DEF KeyFrom
  <2> QED
    BY <1>1, <1>4, <2>8, <2>9, <2>10, LeaveComes
<1> QED
  BY <1>8, <1>9

LEMMA StartFreshComes ==
    ASSUME Sound, NEW t \in Tabs, NEW m, DOMAIN m = TabFields,
           m.boots = tab[t].boots, m.link = tab[t].link,
           NEW deleted, NEW ok, StartFresh(t, deleted, m, ok), Known
    PROVE  Comes(t, tab'[t], stored')
<1>1. PICK y : y = Settled(m)
  OBVIOUS
<1>2. PICK e : e = [y EXCEPT !.departed = @ \cup Leaving(m),
                             !.dismissed = IF deleted # None THEN deleted ELSE IF stored.out THEN stored.ids ELSE @,
                             !.shared = FALSE, !.sessionOnly = FALSE, !.flight = FALSE]
  OBVIOUS
<1>3. PICK n : n = Publish(e, None, FALSE, FALSE, None)
  OBVIOUS
<1>4. PICK s : s = IF ok /\ MayClear(Leaving(m)) THEN EmptyKey ELSE stored
  OBVIOUS
<1>5. Commit(t, n, s, ok)
  BY <1>1, <1>2, <1>3, <1>4 DEF StartFresh
<1>6. DOMAIN y = TabFields /\ y.pending = None /\ y.boots = m.boots /\ y.link = m.link
  BY <1>1 DEF Settled, TabFields
<1>7. DOMAIN e = TabFields /\ e.pending = None /\ e.boots = y.boots /\ e.link = y.link
  BY <1>2, <1>6 DEF TabFields
<1>8. n.id = None /\ n.pending = None /\ n.boots = m.boots /\ n.link = m.link
  BY <1>3, <1>6, <1>7 DEF Publish, TabFields
<1>9. /\ tab'[t] = n /\ stored' = s
      /\ acted' = acted \cup {id.account : id \in {n.id} \ {None}}
  BY <1>5, CommitActs, SoundTab
<1>10. KeyFrom(t, n, s)
  BY <1>4 DEF KeyFrom
<1> QED
  BY <1>8, <1>9, <1>10, LeaveComes

LEMMA DismissComes ==
    ASSUME Sound, NEW t \in Tabs, Dismiss(t)
    PROVE  Comes(t, tab'[t], stored')
<1>1. PICK ok : StartFresh(t, None, tab[t], ok)
  BY DEF Dismiss
<1>2. Known /\ DOMAIN tab[t] = TabFields
  BY ServerKnown, SoundTab DEF Dismiss
<1> QED
  BY <1>1, <1>2, StartFreshComes

LEMMA DeleteLandsComes ==
    ASSUME Sound, NEW t \in Tabs, DeleteLands(t)
    PROVE  Comes(t, tab'[t], stored')
<1>1. PICK o : o = tab[t]
  OBVIOUS
<1>2. PICK m : m = [o EXCEPT !.deleting = None]
  OBVIOUS
<1>3. PICK ok : StartFresh(t, o.deleting, m, ok) \/ Commit(t, m, stored, ok)
  BY <1>1, <1>2 DEF DeleteLands
<1>4. Known /\ DOMAIN o = TabFields /\ TabTypes
  BY <1>1, ServerKnown, SoundTab DEF DeleteLands
<1>5. /\ DOMAIN m = TabFields /\ m.id = o.id /\ m.pending = o.pending /\ m.unproven = o.unproven
      /\ m.signedOut = o.signedOut /\ m.boots = o.boots /\ m.link = o.link
  BY <1>2, <1>4 DEF TabFields
<1>6. CASE StartFresh(t, o.deleting, m, ok)
  BY <1>1, <1>4, <1>5, <1>6, StartFreshComes
<1>7. CASE Commit(t, m, stored, ok)
  <2>1. /\ tab'[t] = m /\ stored' = stored
        /\ acted' = acted \cup {id.account : id \in {m.id} \ {None}}
    BY <1>4, <1>7, CommitActs
  <2> QED
    BY <1>1, <1>4, <1>5, <2>1, AwaitComes
<1> QED
  BY <1>3, <1>6, <1>7

LEMMA LinkLandsComes ==
    ASSUME Sound, NEW t \in Tabs, LinkLands(t)
    PROVE  Comes(t, tab'[t], stored')
<1>1. PICK m : m = tab[t]
  OBVIOUS
<1>2. PICK n : n = [m EXCEPT !.link = None]
  OBVIOUS
<1>3. PICK next : next = [m.id EXCEPT !.account = m.link.to]
  OBVIOUS
<1>4. PICK residue : residue =
          IF KeyIdentity(stored) # None /\ stored.token = m.id.token THEN stored.ids.account ELSE None
  OBVIOUS
<1>5. m.link # None /\ Known
  BY <1>1, ServerKnown DEF LinkLands
<1>6. PICK ok \in BOOLEAN :
        IF ~StillNamed(m, m.link.from) THEN Commit(t, n, stored, ok)
        ELSE Commit(t, Publish([n EXCEPT !.sessionOnly = ~ok, !.residue = IF ok THEN @ ELSE residue],
                               next, FALSE, FALSE, None),
                    IF ok THEN WholeKey(next) ELSE stored, ok)
  BY <1>1, <1>2, <1>3, <1>4 DEF LinkLands, Writes
<1>7. View(m) /\ Asks(m) /\ DOMAIN m = TabFields /\ TabTypes
  BY <1>1, SoundTab
<1>8. /\ DOMAIN n = TabFields /\ n.id = m.id /\ n.pending = m.pending /\ n.unproven = m.unproven
      /\ n.signedOut = m.signedOut /\ n.boots = m.boots /\ n.link = None
  BY <1>2, <1>7 DEF TabFields
<1>9. CASE ~StillNamed(m, m.link.from)
  <2>1. Commit(t, n, stored, ok)
    BY <1>6, <1>9
  <2>2. /\ tab'[t] = n /\ stored' = stored
        /\ acted' = acted \cup {id.account : id \in {n.id} \ {None}}
    BY <1>7, <2>1, CommitActs
  <2> QED
    BY <1>1, <1>5, <1>8, <2>2, AwaitComes
<1>10. CASE StillNamed(m, m.link.from)
  <2>1. m.link \in [from : Ids, to : 1..MaxDevice]
    BY <1>5, <1>7 DEF Asks
  <2>2. IdsOf(m.id) \in Ids /\ m.link.to \in 1..MaxDevice
    BY <1>10, <2>1 DEF StillNamed
  <2>3. m.id # None /\ m.id \in Identity /\ m.pending = None
    BY <1>7, <2>2, NoneAssumption DEF IdsOf, View, NoneAssumption
  <2>4. next \in Identity /\ next.token = m.id.token /\ next # None
    BY <1>3, <2>2, <2>3, NoneAssumption DEF Identity, NoneAssumption
  <2>5. PICK e : e = [n EXCEPT !.sessionOnly = ~ok, !.residue = IF ok THEN @ ELSE residue]
    OBVIOUS
  <2>6. PICK o : o = Publish(e, next, FALSE, FALSE, None)
    OBVIOUS
  <2>7. PICK s : s = IF ok THEN WholeKey(next) ELSE stored
    OBVIOUS
  <2>8. Commit(t, o, s, ok)
    BY <1>6, <1>10, <2>5, <2>6, <2>7
  <2>9. /\ tab'[t] = o /\ stored' = s
        /\ acted' = acted \cup {id.account : id \in {o.id} \ {None}}
    BY <1>7, <2>8, CommitActs
  <2>10. DOMAIN e = TabFields /\ e.pending = n.pending /\ e.boots = n.boots /\ e.link = n.link
    BY <1>8, <2>5 DEF TabFields
  <2>11. o.id = next /\ ~o.minted /\ o.pending = None /\ o.boots = m.boots /\ o.link = None
    BY <1>8, <2>3, <2>6, <2>10 DEF Publish, TabFields
  <2>12. Relinks(t, o)
    BY <1>1, <1>3, <1>5, <2>3, <2>11 DEF Relinks, SameBoot, Asking
  <2>13. KeyFrom(t, o, s)
    BY <2>4, <2>7, <2>11 DEF KeyFrom
  <2> QED
    BY <2>9, <2>11, <2>12, <2>13 DEF Comes
<1> QED
  BY <1>9, <1>10

LEMMA LoadComes ==
    ASSUME Sound, NEW t \in Tabs, Load(t)
    PROVE  Comes(t, tab'[t], stored')
<1>1. PICK o : o = NewTab
  OBVIOUS
<1>2. PICK m : m = Synced(o, stored)
  OBVIOUS
<1>3. /\ tab' = [tab EXCEPT ![t] = m] /\ stored' = stored
      /\ acted' = acted \cup {id.account : id \in {m.id} \ {None}}
      /\ Known
  BY <1>1, <1>2, ServerKnown DEF Load
<1>4. stored \in Keys /\ DOMAIN tab = Tabs
  BY SoundTab
<1>5. View(o) /\ Asks(o) /\ ~Asking(o) /\ o.id = None
  BY <1>1, NewTabFacts
<1>6. o.pending = None /\ o.link = None
  BY <1>1 DEF NewTab
<1>7. Origin(o, m, stored) /\ Waits(o, m)
  BY <1>2, <1>4, <1>5, SyncedOrigin, SyncedFacts
<1>8. ~Asking(m) /\ m.link = None
  BY <1>5, <1>6, <1>7, WaitsAsks DEF Waits
<1>9. /\ m.id \in {None, KeyIdentity(stored)} /\ (m.id = None \/ ~m.minted)
      /\ m.pending \in {None, stored.token} /\ ~Proven(m)
  BY <1>5, <1>6, <1>7 DEF Origin, Proven
<1>10. Follows(t, m)
  BY <1>3, <1>8, <1>9 DEF Follows, SameBoot
<1>11. tab'[t] = m
  BY <1>3, <1>4
<1> QED
  BY <1>3, <1>9, <1>10, <1>11 DEF Comes, KeyFrom


-----------------------------------------------------------------------------
(* Numbers are given out in turn                                           *)

(* What a memory names has been given out, and an account it acts as, or   *)
(* is about to be moved to, has been acted as.                             *)
Has(m, u, k, a) ==
    /\ m.pending # None => m.pending <= u
    /\ m.id # None => m.id.token <= u /\ m.id.account \in a
    /\ Asking(m) => m.boots[1].token <= u /\ (m.boots[1].at = "answered" => m.boots[1].ids.account <= k)
    /\ m.link # None => m.link.to \in a

KeyHas(s, u, a) ==
    /\ s.token # None => s.token <= u
    /\ KeyIdentity(s) # None => KeyIdentity(s).account \in a

(* A tab that knows its token to be its own is asking with it: the server  *)
(* has not heard of it, or has answered with an account of nobody.         *)
Sure(m, d, a) ==
    Proven(m) =>
        /\ ~m.signedOut /\ Asking(m) /\ m.boots[1].token = m.pending
        /\ m.boots[1].at = "asking" => d[m.pending] = None
        /\ m.boots[1].at = "answered" => m.boots[1].ids.account \notin a

Counted ==
    /\ acted \subseteq 1..made /\ spare.bound \subseteq acted
    /\ KeyHas(stored, used, acted)
    /\ \A x \in Tokens : device[x] # None => x <= used /\ device[x].account <= made
    /\ \A t \in Tabs : Has(tab[t], used, made, acted) /\ Sure(tab[t], device, acted)

LEMMA TabMoves ==
    ASSUME Sound, StoreTypes, Next
    PROVE  \/ \E t \in Tabs : Goes(t) /\ Comes(t, tab'[t], stored')
           \/ Revoke
BY FollowGoes, EnsureGoes, EnterGoes, RegisterGoes, BootFailsGoes, BootLandsGoes, RefuseGoes,
   VerdictLandsGoes, DismissGoes, DeleteGoes, DeleteLandsGoes, LinkGoes, LinkLandsGoes, LoadGoes,
   FollowComes, EnsureComes, EnterComes, RegisterComes, BootFailsComes, BootLandsComes, RefuseComes,
   VerdictLandsComes, DismissComes, DeleteComes, DeleteLandsComes, LinkComes, LinkLandsComes, LoadComes
   DEF Next

LEMMA HasGrows ==
    ASSUME NEW m, View(m), Asks(m),
           NEW u \in Nat, NEW v \in Nat, u <= v, NEW k \in Nat, NEW l \in Nat, k <= l,
           NEW a, NEW b, a \subseteq b, Has(m, u, k, a)
    PROVE  Has(m, v, l, b)
<1>1. m.pending # None => m.pending \in Nat
  BY DEF View, Tokens
<1>2. m.id # None => m.id.token \in Nat
  BY DEF View, Identity, Tokens
<1>3. ASSUME Asking(m)
      PROVE  m.boots[1].token \in Nat /\ (m.boots[1].at = "answered" => m.boots[1].ids.account \in Nat)
  <2> PICK b1 : b1 = m.boots[1]
    OBVIOUS
  <2>1. b1.token \in Tokens /\ (b1.at = "answered" => b1.ids \in Ids)
    BY <1>3 DEF Asks, Asking
  <2> QED
    BY <2>1 DEF Tokens, Ids
<1> QED
  BY <1>1, <1>2, <1>3 DEF Has

LEMMA KeyHasGrows ==
    ASSUME NEW s \in Keys, NEW u \in Nat, NEW v \in Nat, u <= v, NEW a, NEW b, a \subseteq b, KeyHas(s, u, a)
    PROVE  KeyHas(s, v, b)
<1>1. s.token # None => s.token \in Nat
  BY KeyFacts DEF Tokens
<1> QED
  BY <1>1 DEF KeyHas

(* The same of a memory that only heard of an event.                       *)
LEMMA HeardHas ==
    ASSUME NEW m, NEW n, n.id = m.id, n.pending = m.pending, n.unproven = m.unproven,
           n.signedOut = m.signedOut, n.boots = m.boots, n.link = m.link
    PROVE  /\ \A u, k, a : Has(m, u, k, a) => Has(n, u, k, a)
           /\ \A d, a : Sure(m, d, a) => Sure(n, d, a)
BY DEF Has, Sure, Proven, Asking

(* What a tab names after a step of its own has been given out.            *)
LEMMA NamesKnown ==
    ASSUME Sound, StoreTypes, StoreTypes', Counted, NEW t \in Tabs, NEW m, NEW s, View(m), Asks(m),
           Comes(t, m, s)
    PROVE  /\ used \in Nat /\ used' \in Nat /\ used <= used' /\ made \in Nat /\ made' \in Nat /\ made <= made'
           /\ m.pending # None => m.pending <= used'
           /\ m.id # None => m.id.token <= used' /\ m.id.account \in 1..made'
           /\ Asking(m) => m.boots[1].token <= used' /\ (m.boots[1].at = "answered" => m.boots[1].ids.account <= made')
           /\ m.link # None => m.link.to \in acted
<1>1. PICK o : o = tab[t]
  OBVIOUS
<1>2. View(o) /\ Asks(o) /\ stored \in Keys
  BY <1>1, SoundTab
<1>3. Has(o, used, made, acted) /\ KeyHas(stored, used, acted) /\ acted \subseteq 1..made /\ spare.bound \subseteq acted
  BY <1>1 DEF Counted
<1>4. used \in Nat /\ used' \in Nat /\ made \in Nat /\ made' \in Nat
  BY SizesAssumption DEF StoreTypes, SizesAssumption
<1>5. /\ stored.token \in Tokens \cup {None}
      /\ KeyIdentity(stored) # None => KeyIdentity(stored).token = stored.token /\ stored.token \in Tokens
  BY <1>2, KeyFacts
<1>6. /\ o.pending \in Tokens \cup {None} /\ o.id \in Identity \cup {None} /\ m.pending \in Tokens \cup {None}
      /\ None \notin Tokens /\ None \notin Identity /\ Tokens \subseteq Nat
  BY <1>2, NoneAssumption DEF View, NoneAssumption, Tokens
<1>7. Asking(o) => o.boots[1].token \in Tokens /\ (o.boots[1].at = "answered" => o.boots[1].ids \in Ids)
  BY <1>2 DEF Asks, Asking
<1>8. CASE Follows(t, m)
  <2>1. /\ used' = used /\ made' = made /\ m.id \in {o.id, None, KeyIdentity(stored)}
        /\ m.pending \in {o.pending, None, stored.token}
        /\ m.link # None => m.link = o.link \/ m.link.to \in spare.bound
        /\ Asking(m) => Asking(o) /\ m.boots[1] = o.boots[1]
    BY <1>1, <1>8 DEF Follows, Known, SameBoot
  <2>2. m.pending # None => m.pending <= used'
    BY <1>3, <2>1 DEF Has, KeyHas
  <2>3. m.id # None => m.id.token <= used' /\ m.id.account \in 1..made'
    <3>1. CASE m.id = o.id /\ m.id # None
      <4>1. m.id.token <= used /\ m.id.account \in acted
        BY <1>3, <3>1 DEF Has
      <4> QED
        BY <1>3, <2>1, <4>1
    <3>2. CASE m.id = KeyIdentity(stored) /\ m.id # None
      <4>1. m.id.token <= used /\ m.id.account \in acted
        BY <1>3, <1>5, <1>6, <3>2 DEF KeyHas
      <4> QED
        BY <1>3, <2>1, <4>1
    <3> QED
      BY <2>1, <3>1, <3>2
  <2>4. Asking(m) => m.boots[1].token <= used' /\ (m.boots[1].at = "answered" => m.boots[1].ids.account <= made')
    BY <1>3, <2>1 DEF Has
  <2>5. m.link # None => m.link.to \in acted
    BY <1>3, <2>1 DEF Has
  <2> QED
    BY <1>4, <2>1, <2>2, <2>3, <2>4, <2>5
<1>9. CASE Enters(t, m)
  <2>1. /\ Asking(m) /\ m.boots[1].at = "asking" /\ m.boots[1].token = m.pending
        /\ m.id = None /\ m.link = o.link /\ made' = made
        /\ m.pending = used + 1 \/ m.pending \in {o.pending, stored.token}
        /\ used' = IF m.pending > used THEN m.pending ELSE used
    BY <1>1, <1>9 DEF Enters
  <2>2. m.pending \in Tokens
    BY <2>1, <1>2, <1>6 DEF Asks, Asking
  <2>3. m.pending \in Nat
    BY <1>6, <2>2
  <2>4. used <= used' /\ m.pending <= used'
    BY <1>4, <2>1, <2>3
  <2>5. m.link # None => m.link.to \in acted
    BY <1>3, <2>1 DEF Has
  <2> QED
    BY <1>4, <2>1, <2>4, <2>5
<1>10. CASE Registers(t, m)
  <2>1. PICK b : b = o.boots[1]
    OBVIOUS
  <2>2. PICK ids : ids = m.boots[1].ids
    OBVIOUS
  <2>3. /\ Asking(o) /\ Asking(m) /\ m.boots[1].at = "answered" /\ m.boots[1].token = b.token
        /\ m.id = o.id /\ m.pending = o.pending /\ m.link = o.link
        /\ \/ Standing(b.token) /\ ids = device[b.token]
           \/ ids.account = made + 1 /\ ids.device = made + 1
        /\ made' = IF ids.device > made THEN ids.device ELSE made
        /\ used' = used
    BY <1>1, <1>10, <2>1, <2>2 DEF Registers
  <2>4. b.token \in Tokens /\ ids \in Ids
    BY <1>2, <1>7, <2>1, <2>2, <2>3 DEF Asks, Asking
  <2>5. ids.device \in Nat /\ ids.account \in Nat
    BY <2>4 DEF Ids
  <2>6. made <= made'
    BY <1>4, <2>3, <2>5
  <2>7. ids.account <= made'
    <3>1. CASE Standing(b.token) /\ ids = device[b.token]
      <4>1. ids.account <= made
        BY <2>4, <3>1 DEF Counted, Standing
      <4> QED
        BY <1>4, <2>5, <2>6, <4>1
    <3>2. CASE ids.account = made + 1 /\ ids.device = made + 1
      BY <1>4, <2>3, <3>2
    <3> QED
      BY <2>3, <3>1, <3>2
  <2>8. m.id # None => m.id.token <= used' /\ m.id.account \in 1..made'
    <3>1. m.id # None => m.id.token <= used /\ m.id.account \in 1..made
      BY <1>3, <2>3 DEF Has
    <3>2. 1..made \subseteq 1..made'
      BY <1>4, <2>6
    <3> QED
      BY <2>3, <3>1, <3>2
  <2> QED
    BY <1>3, <1>4, <2>1, <2>2, <2>3, <2>6, <2>7, <2>8 DEF Has
<1>11. CASE Lands(t, m)
  <2>1. PICK b : b = o.boots[1]
    OBVIOUS
  <2>2. /\ Asking(o) /\ b.at = "answered" /\ m.id = Whole(b.token, b.ids) /\ ~Asking(m)
        /\ m.pending = None /\ m.link = o.link /\ used' = used /\ made' = made
    BY <1>1, <1>11, <2>1 DEF Lands, Known
  <2>3. b.ids \in Ids /\ b.ids.account <= made /\ b.token <= used
    BY <1>3, <1>7, <2>1, <2>2 DEF Has
  <2>4. m.id.token = b.token /\ m.id.account = b.ids.account
    BY <2>2 DEF Whole
  <2>5. m.id.account \in 1..made'
    BY <1>4, <2>2, <2>3, <2>4 DEF Ids
  <2> QED
    BY <1>3, <1>4, <2>2, <2>3, <2>4, <2>5 DEF Has
<1>12. CASE Relinks(t, m)
  <2>1. /\ used' = used /\ made' = made /\ o.link # None /\ o.id # None
        /\ m.id = [o.id EXCEPT !.account = o.link.to] /\ m.pending = None /\ m.link = None
        /\ Asking(m) => Asking(o) /\ m.boots[1] = o.boots[1]
    BY <1>1, <1>12 DEF Relinks, Known, SameBoot
  <2>2. o.id \in Identity
    BY <1>6, <2>1
  <2>3. m.id.token = o.id.token /\ m.id.account = o.link.to
    BY <2>1, <2>2 DEF Identity
  <2>4. m.id # None => m.id.token <= used' /\ m.id.account \in 1..made'
    BY <1>3, <2>1, <2>3 DEF Has
  <2> QED
    BY <1>3, <1>4, <2>1, <2>4 DEF Has
<1> QED
  BY <1>8, <1>9, <1>10, <1>11, <1>12 DEF Comes

LEMMA ActedGrows ==
    ASSUME Sound, StoreTypes, StoreTypes', Counted, NEW t \in Tabs, NEW m, NEW s, View(m), Asks(m),
           Comes(t, m, s)
    PROVE  acted \subseteq acted' /\ acted' \subseteq 1..made' /\ Has(m, used', made', acted')
<1>1. /\ used \in Nat /\ used' \in Nat /\ used <= used' /\ made \in Nat /\ made' \in Nat /\ made <= made'
      /\ m.pending # None => m.pending <= used'
      /\ m.id # None => m.id.token <= used' /\ m.id.account \in 1..made'
      /\ Asking(m) => m.boots[1].token <= used' /\ (m.boots[1].at = "answered" => m.boots[1].ids.account <= made')
      /\ m.link # None => m.link.to \in acted
  BY NamesKnown
<1>2. acted \subseteq 1..made /\ Has(tab[t], used, made, acted)
  BY DEF Counted
<1>3. \/ acted' = acted \cup {id.account : id \in {m.id} \ {None}}
      \/ acted' = acted /\ m.id \in {tab[t].id, None}
  BY DEF Comes
<1>4. acted \subseteq acted'
  BY <1>3
<1>5. acted' \subseteq 1..made'
  <2>1. acted \subseteq 1..made'
    BY <1>1, <1>2
  <2>2. CASE m.id # None
    BY <1>1, <1>3, <2>1, <2>2
  <2>3. CASE m.id = None
    BY <1>3, <2>1, <2>3
  <2> QED
    BY <2>2, <2>3
<1>6. m.id # None => m.id.account \in acted'
  BY <1>2, <1>3 DEF Has
<1> QED
  BY <1>1, <1>4, <1>5, <1>6 DEF Has

LEMMA KeyStaysKnown ==
    ASSUME Sound, StoreTypes, StoreTypes', Counted, NEW t \in Tabs, NEW m, NEW s, View(m), Asks(m),
           Comes(t, m, s)
    PROVE  KeyHas(s, used', acted')
<1>1. acted \subseteq acted' /\ Has(m, used', made', acted') /\ used <= used' /\ used \in Nat /\ used' \in Nat
  BY ActedGrows, NamesKnown
<1>2. KeyHas(stored, used, acted) /\ stored \in Keys
  BY SoundTab DEF Counted
<1>3. CASE s = stored
  BY <1>1, <1>2, <1>3, KeyHasGrows
<1>4. CASE s = EmptyKey
  BY <1>4 DEF KeyHas, EmptyKey, KeyIdentity
<1>5. CASE m.id # None /\ s = WholeKey(m.id)
  <2>1. m.id \in Identity
    BY <1>5 DEF View
  <2>2. s.token = m.id.token /\ KeyIdentity(s) = m.id
    BY <1>5, <2>1, WholeKeyFacts
  <2> QED
    BY <1>1, <1>5, <2>2 DEF Has, KeyHas
<1>6. CASE m.pending # None /\ s = PendingKey(m.pending)
  BY <1>1, <1>6 DEF Has, KeyHas, PendingKey, EmptyKey, KeyIdentity
<1>7. CASE tab[t].id # None /\ s = Tombstone(IdsOf(tab[t].id))
  BY <1>7 DEF KeyHas, Tombstone, KeyIdentity
<1> QED
  BY <1>3, <1>4, <1>5, <1>6, <1>7 DEF Comes, KeyFrom

LEMMA DevicesKnown ==
    ASSUME Sound, StoreTypes, StoreTypes', Counted, NEW t \in Tabs, NEW m, NEW s, View(m), Asks(m),
           Comes(t, m, s), NEW x \in Tokens
    PROVE  /\ device'[x] # None => x <= used' /\ device'[x].account <= made'
           /\ ~Asking(tab[t]) /\ device[x] = None => device'[x] = None
<1>1. /\ used \in Nat /\ used' \in Nat /\ used <= used' /\ made \in Nat /\ made' \in Nat /\ made <= made'
      /\ Asking(m) => m.boots[1].token <= used' /\ (m.boots[1].at = "answered" => m.boots[1].ids.account <= made')
  BY NamesKnown
<1>2. /\ device \in [Tokens -> Ids \cup {None}] /\ x \in Nat
      /\ device[x] # None => x <= used /\ device[x].account <= made /\ device[x].account \in Nat
      /\ spare.bound \subseteq 1..made
  <2>1. device \in [Tokens -> Ids \cup {None}] /\ x \in Nat
    BY DEF StoreTypes, Tokens
  <2>2. device[x] # None => x <= used /\ device[x].account <= made
    BY DEF Counted
  <2>3. spare.bound \subseteq 1..made
    BY DEF Counted
  <2>4. device[x] # None => device[x].account \in Nat
    BY <2>1 DEF Ids
  <2> QED
    BY <2>1, <2>2, <2>3, <2>4
<1>3. CASE Known
  <2>1. used' = used /\ made' = made
    BY <1>3 DEF Known
  <2>2. device'[x] # None => device[x] # None /\ device'[x].account \in {device[x].account} \cup spare.bound
    BY <1>3 DEF Known
  <2>3. \A a \in spare.bound : a <= made
    BY <1>1, <1>2
  <2> QED
    BY <1>2, <2>1, <2>2, <2>3
<1>4. CASE Enters(t, m)
  BY <1>1, <1>2, <1>4 DEF Enters
<1>5. CASE Registers(t, m)
  <2>1. PICK b : b = tab[t].boots[1]
    OBVIOUS
  <2>2. PICK ids : ids = m.boots[1].ids
    OBVIOUS
  <2>3. /\ Asking(tab[t]) /\ Asking(m) /\ m.boots[1].token = b.token /\ m.boots[1].at = "answered"
        /\ device' = [device EXCEPT ![b.token] = ids] /\ used' = used
    BY <1>5, <2>1, <2>2 DEF Registers
  <2>4. b.token \in Tokens /\ b.token <= used' /\ ids.account <= made'
    BY <1>1, <2>2, <2>3 DEF Asks, Asking
  <2>5. CASE x = b.token
    BY <1>2, <2>3, <2>4, <2>5
  <2>6. CASE x # b.token
    <3>1. device'[x] = device[x]
      BY <1>2, <2>3, <2>6
    <3> QED
      BY <1>1, <1>2, <2>3, <3>1
  <2> QED
    BY <2>5, <2>6
<1> QED
  BY <1>3, <1>4, <1>5 DEF Comes, Follows, Lands, Relinks

(* Without an answer to take, nobody new is acted as.                      *)
LEMMA NobodyNew ==
    ASSUME Sound, StoreTypes, Counted, NEW t \in Tabs, NEW m, NEW s, View(m), Asks(m),
           Comes(t, m, s), ~Lands(t, m)
    PROVE  acted' = acted
<1>1. PICK o : o = tab[t]
  OBVIOUS
<1>2. View(o) /\ stored \in Keys /\ Has(o, used, made, acted) /\ KeyHas(stored, used, acted)
  BY <1>1, SoundTab DEF Counted
<1>3. m.id # None => m.id.account \in acted
  <2>1. CASE Follows(t, m)
    <3>1. m.id \in {o.id, None, KeyIdentity(stored)}
      BY <1>1, <2>1 DEF Follows
    <3> QED
      BY <1>2, <3>1 DEF Has, KeyHas
  <2>2. CASE Enters(t, m)
    BY <2>2 DEF Enters
  <2>3. CASE Registers(t, m)
    BY <1>1, <1>2, <2>3 DEF Registers, Has
  <2>4. CASE Relinks(t, m)
    <3>1. o.id # None /\ o.link # None /\ m.id = [o.id EXCEPT !.account = o.link.to]
      BY <1>1, <2>4 DEF Relinks
    <3>2. m.id.account = o.link.to
      BY <1>2, <3>1 DEF View, Identity
    <3> QED
      BY <1>2, <3>1, <3>2 DEF Has
  <2> QED
    BY <2>1, <2>2, <2>3, <2>4 DEF Comes
<1>4. CASE m.id = None
  BY <1>4 DEF Comes
<1>5. CASE m.id # None
  <2>1. \/ acted' = acted \cup {m.id.account}
        \/ acted' = acted
    BY <1>5 DEF Comes
  <2> QED
    BY <1>3, <1>5, <2>1
<1> QED
  BY <1>4, <1>5

LEMMA MoverSure ==
    ASSUME Sound, StoreTypes, StoreTypes', Counted, NEW t \in Tabs, NEW m, NEW s, View(m), Asks(m),
           Comes(t, m, s)
    PROVE  Sure(m, device', acted')
<1>1. PICK o : o = tab[t]
  OBVIOUS
<1>2. View(o) /\ Asks(o) /\ Sure(o, device, acted) /\ device \in [Tokens -> Ids \cup {None}] /\ made \in Nat
  BY <1>1, SoundTab, SizesAssumption DEF Counted, StoreTypes, SizesAssumption
<1> SUFFICES ASSUME Proven(m)
             PROVE  /\ ~m.signedOut /\ Asking(m) /\ m.boots[1].token = m.pending
                    /\ m.boots[1].at = "asking" => device'[m.pending] = None
                    /\ m.boots[1].at = "answered" => m.boots[1].ids.account \notin acted'
  BY DEF Sure
<1>3. m.pending \in Tokens /\ ~Lands(t, m) /\ ~Relinks(t, m)
  BY DEF Proven, Lands, Relinks, View
<1>4. acted' = acted
  BY <1>3, NobodyNew
<1>5. CASE Follows(t, m)
  <2>1. Proven(o) /\ m.pending = o.pending /\ (m.signedOut => o.signedOut) /\ (Asking(o) => Asking(m) \/ o.signedOut)
    BY <1>1, <1>5 DEF Follows
  <2>2. /\ ~o.signedOut /\ Asking(o) /\ o.boots[1].token = o.pending
        /\ o.boots[1].at = "asking" => device[o.pending] = None
        /\ o.boots[1].at = "answered" => o.boots[1].ids.account \notin acted
    BY <1>2, <2>1 DEF Sure
  <2>3. Asking(m) /\ m.boots[1] = o.boots[1] /\ Known
    BY <1>1, <1>5, <2>1, <2>2 DEF Follows, SameBoot
  <2>4. device[m.pending] = None => device'[m.pending] = None
    BY <1>3, <2>3 DEF Known
  <2> QED
    BY <1>4, <2>1, <2>2, <2>3, <2>4
<1>6. CASE Enters(t, m)
  <2>1. /\ ~Asking(o) /\ Asking(m) /\ m.boots[1].at = "asking" /\ m.boots[1].token = m.pending
        /\ ~m.signedOut /\ device' = device
        /\ m.pending = used + 1 \/ (Proven(m) => Proven(o))
    BY <1>1, <1>6 DEF Enters
  <2>2. ~Proven(o)
    BY <1>2, <2>1 DEF Sure
  <2>3. m.pending = used + 1 /\ used \in Nat
    BY <2>1, <2>2, SizesAssumption DEF StoreTypes, SizesAssumption
  <2>4. device[m.pending] # None => m.pending <= used
    BY <1>3 DEF Counted
  <2>5. device[m.pending] = None
    BY <2>3, <2>4
  <2> QED
    BY <2>1, <2>5
<1>7. CASE Registers(t, m)
  <2>1. PICK b : b = o.boots[1]
    OBVIOUS
  <2>2. PICK ids : ids = m.boots[1].ids
    OBVIOUS
  <2>3. /\ Asking(o) /\ b.at = "asking" /\ Asking(m) /\ m.boots[1].at = "answered" /\ m.boots[1].token = b.token
        /\ m.pending = o.pending /\ m.unproven = o.unproven /\ m.signedOut = o.signedOut
        /\ \/ Standing(b.token)
           \/ ids.account = made + 1
    BY <1>1, <1>7, <2>1, <2>2 DEF Registers
  <2>4. Proven(o)
    BY <2>3 DEF Proven
  <2>5. ~o.signedOut /\ b.token = o.pending /\ device[o.pending] = None
    BY <1>2, <2>1, <2>3, <2>4 DEF Sure
  <2>6. ids.account = made + 1
    BY <2>3, <2>5 DEF Standing
  <2>7. made + 1 \notin acted
    BY <1>2 DEF Counted
  <2> QED
    BY <1>4, <2>2, <2>3, <2>5, <2>6, <2>7
<1> QED
  BY <1>3, <1>5, <1>6, <1>7 DEF Comes

(* A tab that is sure has the lock, so no other one hears from the server. *)
LEMMA OthersSure ==
    ASSUME Sound, StoreTypes, StoreTypes', Counted, NEW t \in Tabs, NEW m, NEW s, View(m), Asks(m),
           Comes(t, m, s), NEW u \in Tabs, u # t
    PROVE  Sure(tab[u], device', acted')
<1>1. PICK o : o = tab[u]
  OBVIOUS
<1>2. View(o) /\ Sure(o, device, acted) /\ (Asking(o) <=> lock = u) /\ (Asking(tab[t]) <=> lock = t)
  BY <1>1, SoundTab DEF Counted
<1>3. CASE Proven(o)
  <2>1. Asking(o) /\ ~Asking(tab[t]) /\ o.pending \in Tokens
    BY <1>2, <1>3 DEF Sure, Proven, View
  <2>2. ~Lands(t, m)
    BY <2>1 DEF Lands
  <2>3. acted' = acted
    BY <2>2, NobodyNew
  <2>4. device[o.pending] = None => device'[o.pending] = None
    BY <2>1, DevicesKnown
  <2> QED
    BY <1>1, <1>2, <2>3, <2>4 DEF Sure
<1>4. CASE ~Proven(o)
  BY <1>1, <1>4 DEF Sure
<1> QED
  BY <1>3, <1>4

LEMMA CountedGoes ==
    ASSUME Sound, StoreTypes, StoreTypes', Spends, Counted, NEW t \in Tabs, Goes(t), Comes(t, tab'[t], stored')
    PROVE  Counted'
<1>1. PICK m, s : Move(t, m, s) /\ Keeps(m, s)
  BY DEF Goes
<1>2. m = tab'[t] /\ s = stored' /\ View(m) /\ Asks(m) /\ s \in Keys
  BY <1>1 DEF Move, Keeps
<1>3. Comes(t, m, s)
  BY <1>2
<1>4. /\ used \in Nat /\ used' \in Nat /\ used <= used' /\ made \in Nat /\ made' \in Nat /\ made <= made'
      /\ acted \subseteq acted' /\ acted' \subseteq 1..made' /\ Has(m, used', made', acted')
      /\ KeyHas(s, used', acted') /\ Sure(m, device', acted')
  BY <1>2, <1>3, NamesKnown, ActedGrows, KeyStaysKnown, MoverSure
<1>5. spare'.bound \subseteq acted'
  BY <1>4 DEF Counted, Spends
<1>6. \A x \in Tokens : device'[x] # None => x <= used' /\ device'[x].account <= made'
  BY <1>2, <1>3, DevicesKnown
<1>7. ASSUME NEW u \in Tabs
      PROVE  Has(tab'[u], used', made', acted') /\ Sure(tab'[u], device', acted')
  <2>1. CASE u = t
    BY <1>2, <1>4, <2>1
  <2>2. CASE u # t
    <3>1. PICK o : o = tab[u]
      OBVIOUS
    <3>2. PICK n : n = tab'[u]
      OBVIOUS
    <3>3. View(o) /\ Asks(o) /\ DOMAIN o = TabFields /\ Has(o, used, made, acted)
      BY <3>1, SoundTab DEF Counted
    <3>4. n = o \/ n = [o EXCEPT !.event = TRUE]
      BY <1>1, <2>2, <3>1, <3>2 DEF Move
    <3>5. /\ n.id = o.id /\ n.pending = o.pending /\ n.unproven = o.unproven
          /\ n.signedOut = o.signedOut /\ n.boots = o.boots /\ n.link = o.link
      BY <3>3, <3>4 DEF TabFields
    <3>6. Sure(o, device', acted')
      BY <1>2, <1>3, <2>2, <3>1, OthersSure
    <3>7. Has(o, used', made', acted')
      BY <1>4, <3>3, HasGrows
    <3> QED
      BY <3>2, <3>5, <3>6, <3>7, HeardHas
  <2> QED
    BY <2>1, <2>2
<1> QED
  BY <1>2, <1>4, <1>5, <1>6, <1>7 DEF Counted

LEMMA CountedStarts ==
    ASSUME Init
    PROVE  Counted
<1>1. PICK s \in Starts :
        /\ stored = s.stored /\ device = s.device /\ made = s.made /\ used = s.used /\ spare = s.spare
        /\ tab = [t \in Tabs |-> Synced(NewTab, s.stored)] /\ acted = 1..s.made
  BY DEF Init
<1>2. /\ stored \in Keys /\ made \in Nat /\ used \in Nat
      /\ stored.token \in {None} \cup (1..used)
      /\ stored.ids # None => stored.ids.account <= made
      /\ spare.bound \subseteq 1..made
      /\ \A x \in Tokens : device[x] # None => x <= used /\ device[x].account <= made
  BY <1>1, StartsAssumption, SizesAssumption DEF StartsAssumption, SizesAssumption
<1>3. KeyIdentity(stored) # None => KeyIdentity(stored).account \in 1..made
  <2>1. KeyIdentity(stored) # None => KeyIdentity(stored) \in Identity /\ stored.ids # None
    BY <1>2, KeyFacts DEF KeyIdentity
  <2>2. KeyIdentity(stored) # None => KeyIdentity(stored).account = stored.ids.account
    BY DEF KeyIdentity, Whole
  <2> QED
    BY <1>2, <2>1, <2>2 DEF Identity
<1>4. stored.token # None => stored.token <= used
  BY <1>2
<1>5. KeyHas(stored, used, acted)
  BY <1>1, <1>3, <1>4 DEF KeyHas
<1>6. PICK m : m = Synced(NewTab, stored)
  OBVIOUS
<1>7. Has(m, used, made, acted) /\ Sure(m, device, acted)
  <2>1. PICK o : o = NewTab
    OBVIOUS
  <2>2. /\ o.id = None /\ o.pending = None /\ o.link = None /\ ~Asking(o) /\ View(o)
    BY <2>1, NewTabFacts DEF NewTab, Asking
  <2>3. m = Synced(o, stored)
    BY <1>6, <2>1
  <2>4. Origin(o, m, stored) /\ Waits(o, m)
    BY <1>2, <2>2, <2>3, SyncedOrigin, SyncedFacts
  <2>5. ~Asking(m) /\ m.link = None /\ ~Proven(m) /\ m.id \in {None, KeyIdentity(stored)}
        /\ m.pending \in {None, stored.token}
    BY <2>2, <2>4 DEF Waits, Asking, Origin, Proven
  <2>6. m.id # None => m.id.token <= used /\ m.id.account \in acted
    BY <1>1, <1>2, <1>3, <1>4, <2>5, KeyFacts, NoneAssumption DEF NoneAssumption
  <2> QED
    BY <1>4, <2>5, <2>6 DEF Has, Sure
<1>8. \A t \in Tabs : tab[t] = m
  <2>1. tab = [t \in Tabs |-> m]
    BY <1>1, <1>6
  <2> QED
    BY <2>1
<1> QED
  BY <1>1, <1>2, <1>5, <1>7, <1>8 DEF Counted

LEMMA RevokeCounted ==
    ASSUME Counted, StoreTypes, Revoke, Spends
    PROVE  Counted'
<1>1. PICK token \in Tokens : device' = [device EXCEPT ![token] = None]
  BY DEF Revoke
<1>2. UNCHANGED <<stored, tab, used, made, acted>> /\ spare'.bound = spare.bound
  BY DEF Revoke, Spends
<1>3. \A x \in Tokens : device'[x] \in {device[x], None}
  BY <1>1 DEF StoreTypes
<1>4. \A t \in Tabs : tab[t].pending \in Tokens => device'[tab[t].pending] \in {device[tab[t].pending], None}
  BY <1>3
<1>5. ASSUME NEW t \in Tabs
      PROVE  Has(tab'[t], used', made', acted') /\ Sure(tab'[t], device', acted')
  <2>1. PICK o : o = tab[t]
    OBVIOUS
  <2>2. Has(o, used, made, acted) /\ Sure(o, device, acted)
    BY <2>1 DEF Counted
  <2>3. Sure(o, device', acted)
    <3>1. ASSUME Proven(o), o.boots[1].at = "asking"
          PROVE  device'[o.pending] = None
      <4>1. Asking(o) /\ o.boots[1].token = o.pending /\ device[o.pending] = None
        BY <2>2, <3>1 DEF Sure
      <4> QED
        BY <1>1, <4>1
    <3> QED
      BY <2>2, <3>1 DEF Sure
  <2> QED
    BY <1>2, <2>1, <2>2, <2>3
<1> QED
  BY <1>2, <1>3, <1>5 DEF Counted

LEMMA CountedStep ==
    ASSUME Sound, StoreTypes, Counted, Next
    PROVE  Counted'
<1>1. Sound' /\ StoreTypes' /\ Spends
  BY Step, StoreStep
<1> QED
  BY <1>1, TabMoves, CountedGoes, RevokeCounted

LEMMA CountedStutters ==
    ASSUME Counted, UNCHANGED vars
    PROVE  Counted'
BY DEF vars, Counted, Has, KeyHas, Sure, Proven, Asking, KeyIdentity

(* In every state, the tokens and accounts a tab or the key names have     *)
(* been given out, and a tab that knows its token to be its own is asking  *)
(* with it, and will get an account of nobody.                             *)
THEOREM TokensAreCounted == Spec => [](Sound /\ StoreTypes /\ Counted)
<1>1. Init => Counted
  BY CountedStarts
<1>2. Sound /\ StoreTypes /\ Counted /\ [Next]_vars => Counted'
  BY CountedStep, CountedStutters
<1> QED
  BY <1>1, <1>2, IdentityInvariance, PTL DEF Spec

LEMMA BootsHeld ==
    ASSUME NEW m, Asks(m), Len(m.boots) > 0
    PROVE  m.boots # <<>>
<1>1. PICK q : q = m.boots
  OBVIOUS
<1>2. q \in Seq(Boot) /\ Len(q) > 0
  BY <1>1 DEF Asks
<1>3. q # <<>>
  BY <1>2, EmptySeq
<1> QED
  BY <1>1, <1>3

(* Until it is loaded anew, a tab never takes up a token it has left,      *)
(* except as the answer to a bootstrap of its own that was on its way; and *)
(* an identity said to be minted is one nobody has acted as                *)
(* (departedTokens, pendingUnproven).                                      *)
THEOREM NothingComesBack == Spec => NeverBack
<1>1. ASSUME Sound, StoreTypes, Counted, Next, NEW t \in Tabs, TakesUp(t)
      PROVE  /\ left[t] \subseteq left'[t] /\ tab'[t].id.token \in tab[t].departed => AskedItself(t)
             /\ tab'[t].minted /\ tab[t].pending # None => tab'[t].id.account \notin acted
  <2>1. tab' # tab
    BY <1>1 DEF TakesUp, TokensOf
  <2>2. PICK u \in Tabs : Goes(u) /\ Comes(u, tab'[u], stored')
    BY <1>1, <2>1, TabMoves DEF Revoke
  <2>3. PICK m, s : Move(u, m, s) /\ Takes(u, m)
    BY <2>2 DEF Goes
  <2>4. PICK o : o = tab[t]
    OBVIOUS
  <2>5. View(o) /\ Asks(o) /\ DOMAIN o = TabFields
    BY <1>1, <2>4, SoundTab
  <2>6. u = t
    <3>1. ASSUME u # t
          PROVE  FALSE
      <4>1. PICK n : n = tab'[t]
        OBVIOUS
      <4>2. n = o \/ n = [o EXCEPT !.event = TRUE]
        BY <2>3, <2>4, <3>1, <4>1 DEF Move
      <4>3. n.id = o.id
        BY <2>5, <4>2 DEF TabFields
      <4> QED
        BY <1>1, <2>4, <4>1, <4>3 DEF TakesUp, TokensOf
    <3> QED
      BY <3>1
  <2>7. m = tab'[t] /\ s = stored'
    BY <2>3, <2>6 DEF Move
  <2>8. m.id # None /\ TokensOf(m) # TokensOf(o)
    BY <1>1, <2>4, <2>7 DEF TakesUp
  <2>9. ASSUME left[t] \subseteq left'[t], m.id.token \in o.departed
        PROVE  AskedItself(t)
    <3>1. Len(o.boots) > 0 /\ m.id.token = o.boots[1].token
      BY <2>3, <2>4, <2>6, <2>8, <2>9 DEF Takes
    <3>2. o.boots # <<>>
      BY <2>5, <3>1, BootsHeld
    <3> QED
      BY <2>4, <2>7, <3>1, <3>2 DEF AskedItself
  <2>10. ASSUME m.minted, o.pending # None
         PROVE  m.id.account \notin acted
    <3>1. Lands(t, m)
      BY <2>2, <2>4, <2>6, <2>7, <2>8, <2>10 DEF Comes
    <3>2. /\ o.boots[1].at = "answered" /\ m.id = Whole(o.boots[1].token, o.boots[1].ids)
          /\ ~o.unproven
      BY <2>4, <2>10, <3>1 DEF Lands
    <3>3. Proven(o)
      BY <2>10, <3>2 DEF Proven
    <3>4. o.boots[1].ids.account \notin acted
      BY <1>1, <2>4, <3>2, <3>3 DEF Counted, Sure
    <3> QED
      BY <3>2, <3>4 DEF Whole
  <2> QED
    BY <2>4, <2>7, <2>9, <2>10
<1>2. Sound /\ StoreTypes /\ Counted /\ [Next]_vars =>
        [\A t \in Tabs : TakesUp(t) =>
            /\ left[t] \subseteq left'[t] /\ tab'[t].id.token \in tab[t].departed => AskedItself(t)
            /\ tab'[t].minted /\ tab[t].pending # None => tab'[t].id.account \notin acted]_vars
  BY <1>1
<1> QED
  BY <1>2, TokensAreCounted, PTL DEF Spec, NeverBack

-----------------------------------------------------------------------------
(* A browser in which nothing was ever left                                *)

(* A tab that was never signed out, and left nothing.                      *)
Clear(m) ==
    ~m.signedOut /\ m.departed = {} /\ m.verdict = None /\ m.deleting = None /\ m.link = None

(* The token a tab acts with, or has an answer for, is one the server      *)
(* knows.                                                                  *)
Backed(m, d) ==
    /\ m.id # None => d[m.id.token] # None
    /\ Asking(m) /\ m.boots[1].at = "answered" => d[m.boots[1].token] # None

(* One token at most was generated, and from then on the key names it; one *)
(* account at most was opened, and from then on the token authenticates    *)
(* it.                                                                     *)
Blameless ==
    spare.innocent =>
        /\ dead = {} /\ spare.unwritten = 0 /\ spare.revokes = 0 /\ spare.deletes = 0 /\ spare.bound = {}
        /\ ~stored.out /\ used <= 1 /\ (used = 1 => stored.token # None)
        /\ KeyIdentity(stored) # None => device[stored.token] # None
        /\ made <= 1 /\ (made = 1 => device[1] # None)
        /\ \A x \in Tokens : device[x] # None => device[x].device <= made
        /\ \A t \in Tabs : Clear(tab[t]) /\ Backed(tab[t], device)

(* Such a step of a tab.                                                   *)
Quiet(t) ==
    /\ Clear(tab'[t]) /\ ~stored'.out /\ (stored.token # None => stored'.token # None)
    /\ dead' = dead
    /\ used' = used \/ (used' = 1 /\ stored'.token # None)

(* What the server knows of its token.                                     *)
Stands ==
    /\ \A x \in Tokens : device[x] # None => device'[x] # None
    /\ \A x \in Tokens : device'[x] # None => device'[x].device <= made'
    /\ made' <= 1 /\ (made' = 1 => device'[1] # None)

LEMMA ServerStands ==
    ASSUME Blameless, spare.innocent, UNCHANGED Server
    PROVE  Stands
<1>1. device' = device /\ made' = made
  BY DEF Server
<1> QED
  BY <1>1 DEF Blameless, Stands

LEMMA ClearSync ==
    ASSUME NEW o, View(o), Clear(o), NEW s \in Keys, ~s.out, NEW m, m = Synced(o, s)
    PROVE  /\ Clear(m) /\ DOMAIN m = TabFields
           /\ s.token # None /\ m.id = None => m.pending = s.token
           /\ \A ok : KeyAfterSync(o, s, ok) = s
<1>1. Origin(o, m, s) /\ Waits(o, m) /\ View(m)
  BY SyncedOrigin, SyncedFacts
<1>2. ~m.signedOut /\ m.departed = {}
  BY <1>1 DEF Origin, Clear
<1>3. s.token # None /\ m.id = None => m.pending = s.token
  BY <1>1 DEF Origin, Clear
<1>4. Clear(m)
  BY <1>1, <1>2 DEF Clear, Waits
<1> QED
  BY <1>1, <1>3, <1>4 DEF KeyAfterSync, View

LEMMA QuietSync ==
    ASSUME Sound, Blameless, spare.innocent, NEW t \in Tabs, NEW m, m = Synced(tab[t], stored)
    PROVE  /\ Clear(m) /\ DOMAIN m = TabFields
           /\ stored.token # None /\ m.id = None => m.pending = stored.token
           /\ \A ok : KeyAfterSync(tab[t], stored, ok) = stored
<1>1. PICK o : o = tab[t]
  OBVIOUS
<1>2. View(o) /\ Clear(o) /\ stored \in Keys /\ ~stored.out
  BY <1>1, SoundTab DEF Blameless
<1> QED
  BY <1>1, <1>2, ClearSync

(* A tab's own step, that leaves the key and what it has not left alone.   *)
LEMMA QuietCommit ==
    ASSUME Sound, Blameless, spare.innocent, NEW t \in Tabs, NEW m, NEW s, NEW ok, Commit(t, m, s, ok),
           Clear(m), ~s.out, stored.token # None => s.token # None, UNCHANGED Server,
           used' = used \/ (used' = 1 /\ s.token # None)
    PROVE  Quiet(t) /\ Stands
<1>1. tab'[t] = m /\ stored' = s
  BY CommitActs, SoundTab
<1> QED
  BY <1>1, ServerStands DEF Quiet, Server

LEMMA FollowQuiet ==
    ASSUME Sound, StoreTypes, Blameless, spare.innocent, NEW t \in Tabs, Follow(t)
    PROVE  Quiet(t) /\ Stands
<1>1. PICK ok : Commit(t, [Synced(tab[t], stored) EXCEPT !.event = FALSE], KeyAfterSync(tab[t], stored, ok), ok)
  BY DEF Follow
<1>2. PICK m : m = Synced(tab[t], stored)
  OBVIOUS
<1>3. PICK n : n = [m EXCEPT !.event = FALSE]
  OBVIOUS
<1>4. Clear(m) /\ DOMAIN m = TabFields /\ KeyAfterSync(tab[t], stored, ok) = stored
  BY <1>2, QuietSync
<1>5. Commit(t, n, stored, ok)
  BY <1>1, <1>2, <1>3, <1>4
<1>6. Clear(n)
  BY <1>3, <1>4 DEF Clear, TabFields
<1>7. UNCHANGED Server /\ used' = used /\ ~stored.out
  BY DEF Follow, Server, Blameless
<1> QED
  BY <1>5, <1>6, <1>7, QuietCommit

LEMMA EnsureQuiet ==
    ASSUME Sound, StoreTypes, Blameless, spare.innocent, NEW t \in Tabs, Ensure(t)
    PROVE  Quiet(t) /\ Stands
<1>1. PICK m : m = Synced(tab[t], stored)
  OBVIOUS
<1>2. PICK n : n = IF m.flight THEN m ELSE [m EXCEPT !.boots = Append(@, Queued), !.flight = TRUE]
  OBVIOUS
<1>3. tab' = [tab EXCEPT ![t] = n] /\ stored' = stored /\ used' = used /\ UNCHANGED Server
  BY <1>1, <1>2 DEF Ensure
<1>4. Clear(m) /\ DOMAIN m = TabFields
  BY <1>1, QuietSync
<1>5. Clear(n)
  BY <1>2, <1>4 DEF Clear, TabFields
<1>6. tab'[t] = n /\ ~stored.out
  BY <1>3, SoundTab DEF Blameless
<1> QED
  BY <1>3, <1>5, <1>6, ServerStands DEF Quiet, Server

LEMMA EnterQuiet ==
    ASSUME Sound, StoreTypes, Counted, Blameless, spare.innocent, NEW t \in Tabs, Enter(t)
    PROVE  Quiet(t) /\ Stands
<1>1. PICK m : m = Synced(tab[t], stored)
  OBVIOUS
<1>2. PICK token : token = TokenFor(m)
  OBVIOUS
<1>3. /\ Clear(m) /\ DOMAIN m = TabFields
      /\ stored.token # None /\ m.id = None => m.pending = stored.token
      /\ \A ok : KeyAfterSync(tab[t], stored, ok) = stored
  BY <1>1, QuietSync
<1>4. ~stored.out /\ spare.unwritten = 0 /\ used <= 1 /\ (used = 1 => stored.token # None)
  BY DEF Blameless
<1>5. \E ok \in Writes :
        IF m.id # None \/ m.signedOut
        THEN /\ Commit(t, Ended(m), KeyAfterSync(tab[t], stored, ok), ok)
             /\ UNCHANGED <<lock, used>>
        ELSE /\ token <= MaxToken
             /\ Commit(t, [m EXCEPT !.pending = token,
                                    !.unproven = IF m.pending = None THEN FALSE ELSE @,
                                    !.boots[1] = [at |-> "asking", token |-> token, ids |-> None]],
                       IF ok THEN PendingKey(token) ELSE KeyAfterSync(tab[t], stored, FALSE), ok)
             /\ lock' = t
             /\ used' = IF token > used THEN token ELSE used
  BY <1>1, <1>2 DEF Enter
<1>6. Writes = {TRUE}
  BY <1>4 DEF Writes
<1>7. UNCHANGED Server
  BY DEF Enter
<1>8. CASE m.id # None
  <2>1. PICK n : n = Ended(m)
    OBVIOUS
  <2>2. PICK ok : Commit(t, n, stored, ok) /\ used' = used
    BY <1>3, <1>5, <1>8, <2>1
  <2>3. Clear(n)
    BY <1>3, <2>1 DEF Clear, Ended, TabFields
  <2> QED
    BY <1>4, <1>7, <2>2, <2>3, QuietCommit
<1>9. CASE m.id = None
  <2>1. PICK n : n = [m EXCEPT !.pending = token,
                               !.unproven = IF m.pending = None THEN FALSE ELSE @,
                               !.boots[1] = [at |-> "asking", token |-> token, ids |-> None]]
    OBVIOUS
  <2>2. ~m.signedOut
    BY <1>3 DEF Clear
  <2>3. PICK ok : Commit(t, n, PendingKey(token), ok) /\ token <= MaxToken
                  /\ used' = (IF token > used THEN token ELSE used)
    BY <1>5, <1>6, <1>9, <2>1, <2>2
  <2>4. View(m) /\ used \in Nat
    BY <1>1, SyncsWell, SizesAssumption DEF StoreTypes, SizesAssumption
  <2>5. token \in Tokens
    BY <1>2, <2>3, <2>4 DEF TokenFor, View, Tokens
  <2>6. PendingKey(token).token # None /\ ~PendingKey(token).out
    BY <2>5, PendingKeyFacts, NoneAssumption DEF NoneAssumption
  <2>7. Clear(n)
    BY <1>3, <2>1 DEF Clear, TabFields
  <2>8. used' = used \/ used' = 1
    <3>1. CASE m.pending = None
      <4>1. used = 0
        BY <1>3, <1>4, <1>9, <2>4, <3>1
      <4> QED
        BY <1>2, <2>3, <3>1, <4>1 DEF TokenFor
    <3>2. CASE m.pending # None
      <4>1. token = m.pending
        BY <1>2, <3>2 DEF TokenFor
      <4>2. m.pending \in {tab[t].pending, stored.token}
        BY <1>1, <3>2, SyncFollows
      <4>3. token <= used
        BY <3>2, <4>1, <4>2 DEF Counted, Has, KeyHas
      <4>4. token \in Nat
        BY <2>5 DEF Tokens
      <4> QED
        BY <2>3, <2>4, <4>3, <4>4
    <3> QED
      BY <3>1, <3>2
  <2> QED
    BY <1>7, <2>3, <2>6, <2>7, <2>8, QuietCommit
<1> QED
  BY <1>8, <1>9

LEMMA RegisterQuiet ==
    ASSUME Sound, StoreTypes, Counted, Blameless, spare.innocent, NEW t \in Tabs, Register(t)
    PROVE  Quiet(t) /\ Stands
<1>1. PICK m : m = tab[t]
  OBVIOUS
<1>2. PICK token : token = m.boots[1].token
  OBVIOUS
<1>3. PICK ids : ids = IF Standing(token) THEN device[token] ELSE [account |-> made + 1, device |-> made + 1]
  OBVIOUS
<1>4. PICK n : n = [m EXCEPT !.boots[1] = [at |-> "answered", token |-> token, ids |-> ids]]
  OBVIOUS
<1>5. /\ m.boots # <<>> /\ m.boots[1].at = "asking" /\ ids.device <= MaxDevice
      /\ tab' = [tab EXCEPT ![t].boots[1] = [at |-> "answered", token |-> token, ids |-> ids]]
      /\ device' = [device EXCEPT ![token] = ids]
      /\ made' = (IF ids.device > made THEN ids.device ELSE made)
      /\ stored' = stored /\ used' = used /\ dead' = dead
  BY <1>1, <1>2, <1>3 DEF Register
<1>6. View(m) /\ Asks(m) /\ DOMAIN m = TabFields /\ DOMAIN tab = Tabs
  BY <1>1, SoundTab
<1>7. tab'[t] = n
  BY <1>1, <1>4, <1>5, <1>6
<1>8. Clear(m) /\ ~stored.out
  BY <1>1 DEF Blameless
<1>9. Clear(n)
  BY <1>4, <1>6, <1>8 DEF Clear, TabFields
<1>10. token \in Tokens /\ token <= used
  <2>1. Len(m.boots) > 0 /\ token \in Tokens
    BY <1>2, <1>5, <1>6, SomeBoot, FirstBoot
  <2> QED
    BY <1>1, <1>2, <1>5, <2>1 DEF Counted, Has, Asking
<1>11. /\ device \in [Tokens -> Ids \cup {None}] /\ made \in Nat /\ used \in Nat
       /\ dead = {} /\ used <= 1 /\ made <= 1 /\ (made = 1 => device[1] # None)
       /\ \A x \in Tokens : device[x] # None => device[x].device <= made
  BY SizesAssumption DEF StoreTypes, Blameless, SizesAssumption
<1>12. token = 1 /\ used = 1
  BY <1>10, <1>11 DEF Tokens
<1>13. ids \in Ids
  BY <1>3, <1>5, <1>10, Answered
<1>14. CASE device[1] # None
  <2>1. ids = device[1]
    BY <1>3, <1>11, <1>12, <1>14 DEF Standing
  <2>2. device' = device
    BY <1>5, <1>11, <1>12, <2>1
  <2>3. ids.device <= made /\ ids.device \in Nat
    BY <1>10, <1>11, <1>12, <1>13, <1>14, <2>1 DEF Ids
  <2>4. made' = made
    BY <1>5, <1>11, <2>3
  <2>5. Stands
    BY <1>11, <2>2, <2>4 DEF Stands
  <2> QED
    BY <1>5, <1>7, <1>8, <1>9, <2>5 DEF Quiet
<1>15. CASE device[1] = None
  <2>1. made = 0 /\ ids.device = 1
    BY <1>3, <1>11, <1>12, <1>15 DEF Standing
  <2>2. made' = 1 /\ device' = [device EXCEPT ![1] = ids]
    BY <1>5, <1>12, <2>1
  <2>3. \A x \in Tokens : device'[x] = IF x = 1 THEN ids ELSE device[x]
    BY <1>11, <2>2
  <2>4. device'[1] = ids /\ ids # None
    BY <1>10, <1>12, <1>13, <2>3, NoneAssumption DEF NoneAssumption
  <2>5. \A x \in Tokens : device[x] # None => device'[x] # None
    BY <1>15, <2>3
  <2>6. \A x \in Tokens : device[x] # None => device[x].device \in Nat
    BY <1>11 DEF Ids
  <2>7. ASSUME NEW x \in Tokens, device'[x] # None
        PROVE  device'[x].device <= made'
    <3>1. CASE x = 1
      BY <2>1, <2>2, <2>4, <3>1
    <3>2. CASE x # 1
      <4>1. device'[x] = device[x] /\ device[x].device <= made /\ device[x].device \in Nat
        BY <1>11, <2>3, <2>6, <2>7, <3>2
      <4> QED
        BY <2>1, <2>2, <4>1
    <3> QED
      BY <3>1, <3>2
  <2>8. Stands
    BY <2>2, <2>4, <2>5, <2>7 DEF Stands
  <2> QED
    BY <1>5, <1>7, <1>8, <1>9, <2>8 DEF Quiet
<1> QED
  BY <1>14, <1>15

LEMMA BootFailsQuiet ==
    ASSUME Sound, Blameless, spare.innocent, NEW t \in Tabs, BootFails(t)
    PROVE  Quiet(t) /\ Stands
<1>1. PICK m : m = tab[t]
  OBVIOUS
<1>2. PICK e : e = Ended(m)
  OBVIOUS
<1>3. PICK n : n = [e EXCEPT !.unproven = TRUE]
  OBVIOUS
<1>4. tab' = [tab EXCEPT ![t] = n] /\ stored' = stored /\ used' = used /\ UNCHANGED Server
  BY <1>1, <1>2, <1>3 DEF BootFails, Released
<1>5. Clear(m) /\ DOMAIN m = TabFields /\ DOMAIN tab = Tabs /\ ~stored.out
  BY <1>1, SoundTab DEF Blameless
<1>6. Clear(e) /\ DOMAIN e = TabFields
  BY <1>2, <1>5 DEF Clear, Ended, TabFields
<1>7. Clear(n)
  BY <1>3, <1>6 DEF Clear, TabFields
<1>8. tab'[t] = n
  BY <1>4, <1>5
<1> QED
  BY <1>4, <1>5, <1>7, <1>8, ServerStands DEF Quiet, Server

LEMMA BootLandsQuiet ==
    ASSUME Sound, Blameless, spare.innocent, NEW t \in Tabs, BootLands(t)
    PROVE  Quiet(t) /\ Stands
<1>1. PICK m : m = tab[t]
  OBVIOUS
<1>2. PICK mine : mine = Whole(m.boots[1].token, m.boots[1].ids)
  OBVIOUS
<1>3. PICK y : y = Settled(Ended(m))
  OBVIOUS
<1>4. PICK k : k = KeyIdentity(stored)
  OBVIOUS
<1>5. m.boots # <<>> /\ m.boots[1].at = "answered" /\ UNCHANGED Server /\ used' = used
  BY <1>1 DEF BootLands
<1>6. Clear(m) /\ ~stored.out /\ spare.unwritten = 0
  BY <1>1 DEF Blameless
<1>7. Writes = {TRUE}
  BY <1>6 DEF Writes
<1>8. \E ok \in Writes :
        IF m.signedOut THEN ok /\ Commit(t, Ended(m), stored, ok)
        ELSE IF Raced(m, m.boots[1].token)
        THEN Commit(t, Publish([y EXCEPT !.sessionOnly = FALSE, !.departed = {}], k, FALSE, FALSE, None), stored, ok)
        ELSE Commit(t, Publish([y EXCEPT !.sessionOnly = ~ok, !.departed = IF ok THEN {} ELSE y.departed],
                               mine, FALSE, ~m.unproven, None),
                    IF ok THEN WholeKey(mine) ELSE stored, ok)
  BY <1>1, <1>2, <1>3, <1>4, <1>7 DEF BootLands
<1>9. View(m) /\ Asks(m) /\ DOMAIN m = TabFields
  BY <1>1, SoundTab
<1>10. mine \in Identity
  <2>1. Len(m.boots) > 0 /\ m.boots[1].token \in Tokens /\ m.boots[1].ids \in Ids
    BY <1>5, <1>9, SomeBoot, FirstBoot
  <2> QED
    BY <1>2, <2>1, WholeIdentity
<1>11. DOMAIN y = TabFields /\ Clear(y)
  <2>1. PICK e : e = Ended(m)
    OBVIOUS
  <2>2. DOMAIN e = TabFields /\ Clear(e)
    BY <1>6, <1>9, <2>1 DEF Clear, Ended, TabFields
  <2>3. y = Settled(e)
    BY <1>3, <2>1
  <2> QED
    BY <2>2, <2>3 DEF Clear, Settled, TabFields
<1>12. CASE Raced(m, m.boots[1].token)
  <2>1. PICK e : e = [y EXCEPT !.sessionOnly = FALSE, !.departed = {}]
    OBVIOUS
  <2>2. PICK n : n = Publish(e, k, FALSE, FALSE, None)
    OBVIOUS
  <2>3. PICK ok : Commit(t, n, stored, ok)
    BY <1>6, <1>8, <1>12, <2>1, <2>2 DEF Clear
  <2>4. DOMAIN e = TabFields /\ Clear(e)
    BY <1>11, <2>1 DEF Clear, TabFields
  <2>5. Clear(n)
    BY <2>2, <2>4 DEF Clear, Publish, TabFields
  <2> QED
    BY <1>5, <1>6, <2>3, <2>5, QuietCommit
<1>13. CASE ~Raced(m, m.boots[1].token)
  <2>1. PICK e : e = [y EXCEPT !.sessionOnly = FALSE, !.departed = {}]
    OBVIOUS
  <2>2. PICK n : n = Publish(e, mine, FALSE, ~m.unproven, None)
    OBVIOUS
  <2>3. PICK s : s = WholeKey(mine)
    OBVIOUS
  <2>4. \E ok : Commit(t, n, s, ok)
    <3>1. Commit(t, Publish([y EXCEPT !.sessionOnly = ~TRUE, !.departed = IF TRUE THEN {} ELSE y.departed],
                            mine, FALSE, ~m.unproven, None),
                 IF TRUE THEN WholeKey(mine) ELSE stored, TRUE)
      BY <1>6, <1>7, <1>8, <1>13 DEF Clear
    <3>2. [y EXCEPT !.sessionOnly = ~TRUE, !.departed = IF TRUE THEN {} ELSE y.departed] = e
      BY <2>1
    <3> QED
      BY <2>2, <2>3, <3>1, <3>2
  <2>5. DOMAIN e = TabFields /\ Clear(e)
    BY <1>11, <2>1 DEF Clear, TabFields
  <2>6. Clear(n)
    BY <2>2, <2>5 DEF Clear, Publish, TabFields
  <2>7. ~s.out /\ s.token # None
    BY <1>10, <2>3, WholeKeyFacts, NoneAssumption DEF NoneAssumption
  <2> QED
    BY <1>5, <2>4, <2>6, <2>7, QuietCommit
<1> QED
  BY <1>12, <1>13

LEMMA LoadQuiet ==
    ASSUME Sound, Blameless, spare.innocent, NEW t \in Tabs, Load(t)
    PROVE  Quiet(t) /\ Stands
<1>1. PICK o : o = NewTab
  OBVIOUS
<1>2. PICK m : m = Synced(o, stored)
  OBVIOUS
<1>3. tab' = [tab EXCEPT ![t] = m] /\ stored' = stored /\ used' = used /\ UNCHANGED Server
  BY <1>1, <1>2 DEF Load
<1>4. View(o)
  BY <1>1, NewTabFacts
<1>5. Clear(o)
  BY <1>1 DEF NewTab, Clear
<1>6. stored \in Keys /\ ~stored.out /\ DOMAIN tab = Tabs
  BY SoundTab DEF Blameless
<1>7. Clear(m)
  BY <1>2, <1>4, <1>5, <1>6, ClearSync
<1>8. tab'[t] = m
  BY <1>3, <1>6
<1> QED
  BY <1>3, <1>6, <1>7, <1>8, ServerStands DEF Quiet, Server

(* The other actions need what an innocent browser does not have.          *)
LEMMA NoneOther ==
    ASSUME Sound, StoreTypes, Blameless, spare.innocent
    PROVE  /\ ~Revoke
           /\ \A t \in Tabs : ~(\/ Refuse(t) \/ VerdictLands(t) \/ Dismiss(t) \/ Delete(t) \/ DeleteLands(t)
                                \/ Link(t) \/ LinkLands(t))
<1>1. /\ dead = {} /\ spare.revokes = 0 /\ spare.deletes = 0 /\ spare.bound = {}
      /\ \A t \in Tabs : Clear(tab[t]) /\ Backed(tab[t], device)
  BY DEF Blameless
<1>2. ~Revoke
  BY <1>1 DEF Revoke
<1>3. ASSUME NEW t \in Tabs
      PROVE  /\ ~Refuse(t) /\ ~VerdictLands(t) /\ ~Dismiss(t) /\ ~Delete(t) /\ ~DeleteLands(t)
             /\ ~Link(t) /\ ~LinkLands(t)
  <2>1. ~tab[t].signedOut /\ tab[t].verdict = None /\ tab[t].deleting = None /\ tab[t].link = None
    BY <1>1 DEF Clear
  <2>2. tab[t].id # None => Standing(tab[t].id.token)
    BY <1>1 DEF Backed, Standing
  <2>3. ~Refuse(t)
    BY <2>2 DEF Refuse
  <2>4. ~VerdictLands(t)
    BY <2>1 DEF VerdictLands
  <2>5. ~Dismiss(t)
    BY <2>1 DEF Dismiss
  <2>6. ~Delete(t)
    BY <1>1 DEF Delete
  <2>7. ~DeleteLands(t)
    BY <2>1 DEF DeleteLands
  <2>8. ~Link(t)
    BY <1>1 DEF Link
  <2>9. ~LinkLands(t)
    BY <2>1 DEF LinkLands
  <2> QED
    BY <2>3, <2>4, <2>5, <2>6, <2>7, <2>8, <2>9
<1> QED
  BY <1>2, <1>3

LEMMA InnocentMoves ==
    ASSUME Sound, StoreTypes, Counted, Blameless, spare.innocent, Next
    PROVE  \E t \in Tabs : Goes(t) /\ Comes(t, tab'[t], stored') /\ Quiet(t) /\ Stands
<1>1. PICK t \in Tabs :
        Follow(t) \/ Ensure(t) \/ Enter(t) \/ Register(t) \/ BootFails(t) \/ BootLands(t) \/ Load(t)
  BY NoneOther DEF Next
<1>2. Goes(t) /\ Comes(t, tab'[t], stored')
  BY <1>1, FollowGoes, EnsureGoes, EnterGoes, RegisterGoes, BootFailsGoes, BootLandsGoes, LoadGoes,
     FollowComes, EnsureComes, EnterComes, RegisterComes, BootFailsComes, BootLandsComes, LoadComes
<1>3. Quiet(t) /\ Stands
  BY <1>1, FollowQuiet, EnsureQuiet, EnterQuiet, RegisterQuiet, BootFailsQuiet, BootLandsQuiet, LoadQuiet
<1> QED
  BY <1>2, <1>3

(* What the tab then acts with, or has an answer for, the server knows.    *)
LEMMA BackedGoes ==
    ASSUME Sound, StoreTypes, Counted, Blameless, spare.innocent, NEW t \in Tabs, NEW m, NEW s,
           View(m), Asks(m), Comes(t, m, s), Stands
    PROVE  Backed(m, device') /\ (KeyIdentity(s) # None => device'[s.token] # None)
<1>1. PICK o : o = tab[t]
  OBVIOUS
<1>2. View(o) /\ Asks(o) /\ stored \in Keys /\ Backed(o, device) /\ Clear(o)
  BY <1>1, SoundTab DEF Blameless
<1>3. /\ \A x \in Tokens : device[x] # None => device'[x] # None
      /\ KeyIdentity(stored) # None => device[stored.token] # None
  BY DEF Blameless, Stands
<1>4. /\ stored.token \in Tokens \cup {None}
      /\ KeyIdentity(stored) # None => KeyIdentity(stored).token = stored.token /\ stored.token \in Tokens
  BY <1>2, KeyFacts
<1>5. KeyIdentity(stored) # None => device'[stored.token] # None
  BY <1>3, <1>4
<1>6. o.id # None => o.id.token \in Tokens /\ device'[o.id.token] # None
  <2>1. o.id # None => o.id.token \in Tokens
    BY <1>2, IdsOfHeld
  <2> QED
    BY <1>2, <1>3, <2>1 DEF Backed
<1>7. Asking(o) /\ o.boots[1].at = "answered" => device'[o.boots[1].token] # None
  <2>1. Asking(o) => o.boots[1].token \in Tokens
    BY <1>2 DEF Asks, Asking
  <2> QED
    BY <1>2, <1>3, <2>1 DEF Backed
<1>8. Backed(m, device')
  <2>1. CASE Follows(t, m)
    <3>1. m.id \in {o.id, None, KeyIdentity(stored)} /\ (Asking(m) => Asking(o) /\ m.boots[1] = o.boots[1])
      BY <1>1, <2>1 DEF Follows, SameBoot
    <3>2. m.id # None => device'[m.id.token] # None
      BY <1>4, <1>5, <1>6, <3>1
    <3> QED
      BY <1>7, <3>1, <3>2 DEF Backed
  <2>2. CASE Enters(t, m)
    BY <2>2 DEF Enters, Backed
  <2>3. CASE Registers(t, m)
    <3>1. PICK b : b = o.boots[1]
      OBVIOUS
    <3>2. PICK ids : ids = m.boots[1].ids
      OBVIOUS
    <3>3. /\ Asking(o) /\ Asking(m) /\ m.boots[1].at = "answered" /\ m.boots[1].token = b.token /\ m.id = o.id
          /\ device' = [device EXCEPT ![b.token] = ids]
      BY <1>1, <2>3, <3>1, <3>2 DEF Registers
    <3>4. b.token \in Tokens /\ ids \in Ids
      BY <1>2, <3>1, <3>2, <3>3 DEF Asks, Asking
    <3>5. device'[b.token] # None
      BY <3>3, <3>4, NoneAssumption DEF StoreTypes, NoneAssumption
    <3> QED
      BY <1>6, <3>3, <3>5 DEF Backed
  <2>4. CASE Lands(t, m)
    <3>1. /\ ~Asking(m) /\ Asking(o) /\ o.boots[1].at = "answered"
          /\ m.id = Whole(o.boots[1].token, o.boots[1].ids)
      BY <1>1, <2>4 DEF Lands
    <3>2. m.id.token = o.boots[1].token
      BY <3>1 DEF Whole
    <3> QED
      BY <1>7, <3>1, <3>2 DEF Backed
  <2>5. CASE Relinks(t, m)
    BY <1>1, <1>2, <2>5 DEF Relinks, Clear
  <2> QED
    BY <2>1, <2>2, <2>3, <2>4, <2>5 DEF Comes
<1>9. KeyIdentity(s) # None => device'[s.token] # None
  <2>1. CASE s = stored
    BY <1>5, <2>1
  <2>2. CASE s = EmptyKey
    BY <2>2 DEF EmptyKey, KeyIdentity
  <2>3. CASE m.id # None /\ s = WholeKey(m.id)
    <3>1. m.id \in Identity
      BY <2>3 DEF View
    <3>2. s.token = m.id.token
      BY <2>3, <3>1, WholeKeyFacts
    <3> QED
      BY <1>8, <2>3, <3>2 DEF Backed
  <2>4. CASE m.pending # None /\ s = PendingKey(m.pending)
    BY <2>4 DEF PendingKey, EmptyKey, KeyIdentity
  <2>5. CASE o.id # None /\ s = Tombstone(IdsOf(o.id))
    BY <2>5 DEF Tombstone, KeyIdentity
  <2> QED
    BY <1>1, <2>1, <2>2, <2>3, <2>4, <2>5 DEF Comes, KeyFrom
<1> QED
  BY <1>8, <1>9

LEMMA BlamelessStep ==
    ASSUME Sound, StoreTypes, Counted, Blameless, Next
    PROVE  Blameless'
<1>1. Spends /\ StoreTypes'
  BY StoreStep
<1>2. CASE ~spare.innocent
  BY <1>1, <1>2 DEF Spends, Blameless
<1>3. CASE spare.innocent
  <2>1. PICK t \in Tabs : Goes(t) /\ Comes(t, tab'[t], stored') /\ Quiet(t) /\ Stands
    BY <1>3, InnocentMoves
  <2>2. PICK m, s : Move(t, m, s) /\ Keeps(m, s)
    BY <2>1 DEF Goes
  <2>3. m = tab'[t] /\ s = stored' /\ View(m) /\ Asks(m)
    BY <2>2 DEF Move, Keeps
  <2>4. Comes(t, m, s)
    BY <2>1, <2>3
  <2>5. Backed(m, device') /\ (KeyIdentity(s) # None => device'[s.token] # None)
    BY <1>3, <2>1, <2>3, <2>4, BackedGoes
  <2>6. /\ dead = {} /\ spare.unwritten = 0 /\ spare.revokes = 0 /\ spare.deletes = 0 /\ spare.bound = {}
        /\ used <= 1 /\ (used = 1 => stored.token # None)
    BY <1>3 DEF Blameless
  <2>7. dead' = {} /\ spare'.unwritten = 0 /\ spare'.revokes = 0 /\ spare'.deletes = 0 /\ spare'.bound = {}
    <3>1. spare'.unwritten \in Nat /\ spare'.revokes \in Nat /\ spare'.deletes \in Nat
      BY <1>1 DEF Spends, Budgets
    <3> QED
      BY <1>1, <2>1, <2>6, <3>1 DEF Spends, Quiet
  <2>8. ~stored'.out /\ used' <= 1 /\ (used' = 1 => stored'.token # None)
    BY <2>1, <2>6 DEF Quiet
  <2>9. (KeyIdentity(stored) # None => device[stored.token] # None)'
    BY <2>3, <2>5
  <2>10. /\ made' <= 1 /\ (made' = 1 => device'[1] # None)
         /\ \A x \in Tokens : device'[x] # None => device'[x].device <= made'
    BY <2>1 DEF Stands
  <2>11. ASSUME NEW u \in Tabs
         PROVE  Clear(tab'[u]) /\ Backed(tab'[u], device')
    <3>1. CASE u = t
      BY <2>1, <2>3, <2>5, <3>1 DEF Quiet
    <3>2. CASE u # t
      <4>1. PICK o : o = tab[u]
        OBVIOUS
      <4>2. PICK n : n = tab'[u]
        OBVIOUS
      <4>3. View(o) /\ Asks(o) /\ DOMAIN o = TabFields /\ Clear(o) /\ Backed(o, device)
        BY <1>3, <4>1, SoundTab DEF Blameless
      <4>4. n = o \/ n = [o EXCEPT !.event = TRUE]
        BY <2>2, <3>2, <4>1, <4>2 DEF Move
      <4>5. /\ n.id = o.id /\ n.signedOut = o.signedOut /\ n.departed = o.departed /\ n.boots = o.boots
            /\ n.verdict = o.verdict /\ n.deleting = o.deleting /\ n.link = o.link
        BY <4>3, <4>4 DEF TabFields
      <4>6. \A x \in Tokens : device[x] # None => device'[x] # None
        BY <2>1 DEF Stands
      <4>7. /\ o.id # None => o.id.token \in Tokens
            /\ Asking(o) => o.boots[1].token \in Tokens
        <5>1. o.id # None => o.id.token \in Tokens
          BY <4>3, IdsOfHeld
        <5>2. Asking(o) => o.boots[1].token \in Tokens
          BY <4>3 DEF Asks, Asking
        <5> QED
          BY <5>1, <5>2
      <4>8. Backed(o, device')
        BY <4>3, <4>6, <4>7 DEF Backed
      <4>9. Clear(n) /\ Backed(n, device')
        BY <4>3, <4>5, <4>8 DEF Clear, Backed, Asking
      <4> QED
        BY <4>2, <4>9
    <3> QED
      BY <3>1, <3>2
  <2> QED
    BY <2>7, <2>8, <2>9, <2>10, <2>11 DEF Blameless
<1> QED
  BY <1>2, <1>3

LEMMA BlamelessStarts ==
    ASSUME Init
    PROVE  Blameless
<1> SUFFICES ASSUME spare.innocent
             PROVE  /\ dead = {} /\ spare.unwritten = 0 /\ spare.revokes = 0 /\ spare.deletes = 0
                    /\ spare.bound = {}
                    /\ ~stored.out /\ used <= 1 /\ (used = 1 => stored.token # None)
                    /\ KeyIdentity(stored) # None => device[stored.token] # None
                    /\ made <= 1 /\ (made = 1 => device[1] # None)
                    /\ \A x \in Tokens : device[x] # None => device[x].device <= made
                    /\ \A t \in Tabs : Clear(tab[t]) /\ Backed(tab[t], device)
  BY DEF Blameless
<1>1. PICK s \in Starts :
        /\ stored = s.stored /\ device = s.device /\ made = s.made /\ used = s.used /\ spare = s.spare
        /\ tab = [t \in Tabs |-> Synced(NewTab, s.stored)] /\ dead = {}
  BY DEF Init
<1>2. /\ stored = EmptyKey /\ used = 0 /\ made = 0
      /\ spare.unwritten = 0 /\ spare.revokes = 0 /\ spare.deletes = 0
      /\ spare.bound \subseteq 1..made
      /\ \A x \in Tokens : device[x] # None => x <= used
  BY <1>1, StartsAssumption DEF StartsAssumption
<1>3. spare.bound = {} /\ \A x \in Tokens : device[x] = None
  BY <1>2 DEF Tokens
<1>4. ~stored.out /\ KeyIdentity(stored) = None /\ stored \in Keys
  BY <1>2 DEF EmptyKey, KeyIdentity, Keys
<1>5. PICK o : o = NewTab
  OBVIOUS
<1>6. PICK m : m = Synced(o, stored)
  OBVIOUS
<1>7. View(o) /\ ~Asking(o) /\ o.id = None /\ Asks(o)
  BY <1>5, NewTabFacts
<1>8. Clear(o)
  BY <1>5 DEF NewTab, Clear
<1>9. Clear(m)
  BY <1>4, <1>6, <1>7, <1>8, ClearSync
<1>10. Origin(o, m, stored) /\ Waits(o, m)
  BY <1>4, <1>6, <1>7, SyncedOrigin, SyncedFacts
<1>11. Backed(m, device)
  BY <1>4, <1>7, <1>10, WaitsAsks DEF Origin, Backed
<1>12. tab = [t \in Tabs |-> m]
  BY <1>1, <1>5, <1>6
<1>13. \A t \in Tabs : tab[t] = m
  BY <1>12, Zenon
<1> QED
  BY <1>1, <1>2, <1>3, <1>4, <1>9, <1>11, <1>13

LEMMA BlamelessStutters ==
    ASSUME Blameless, UNCHANGED vars
    PROVE  Blameless'
BY DEF vars, Blameless, Clear, Backed, Asking, KeyIdentity

(* A browser in which nothing was left, and every write took, opens one    *)
(* account, however many tabs ask at once and however many answers are     *)
(* lost (lockedBootstrap, the pending token).                              *)
THEOREM OneBrowserOneAccount == Spec => []OneAccount
<1>1. Init => Blameless
  BY BlamelessStarts
<1>2. Sound /\ StoreTypes /\ Counted /\ Blameless /\ [Next]_vars => Blameless'
  BY BlamelessStep, BlamelessStutters
<1>3. Blameless => OneAccount
  BY DEF Blameless, OneAccount
<1> QED
  BY <1>1, <1>2, <1>3, TokensAreCounted, PTL DEF Spec
=============================================================================
