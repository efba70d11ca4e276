---------------------------- MODULE RoundSyncProofs ----------------------------
(***************************************************************************)
(* What is proved of RoundSync for every value of its constants: a tab     *)
(* shows its own account's round as the server stores it, no typed guess   *)
(* is lost before the round is over, the board takes nothing back, and     *)
(* unless a request outlives its caller or a device changes under its      *)
(* account, none is stored more often than it was typed.                   *)
(***************************************************************************)
EXTENDS RoundSync, SequenceTheorems, FiniteSetTheorems, TLAPS

Logs == Seq(Guesses)

-----------------------------------------------------------------------------
(* Induction over the naturals, for a set of them.                         *)

(* A set of naturals that is not empty has a least element: the intervals  *)
(* from 0 to its members are finite sets, and those are well-founded under *)
(* strict inclusion.                                                       *)
LEMMA Least ==
    ASSUME NEW T, T \subseteq Nat, T # {}
    PROVE  \E k \in T : \A j \in T : k <= j
<1> DEFINE Intervals == {0..k : k \in T}
<1>1. Intervals \subseteq FiniteSubsetsOf(Nat)
  <2> SUFFICES ASSUME NEW k \in T
               PROVE  0..k \in SUBSET Nat /\ IsFiniteSet(0..k)
    BY DEF FiniteSubsetsOf
  <2>1. k \in Int /\ 0 \in Int
    OBVIOUS
  <2> QED
    BY <2>1, FS_Interval
<1>2. Intervals # {}
  OBVIOUS
<1>3. IsWellFoundedOn(StrictSubsetOrdering(Nat), FiniteSubsetsOf(Nat))
  BY FS_StrictSubsetOrderingWellFounded
<1>4. PICK x \in Intervals : \A y \in Intervals : ~(<<y, x>> \in StrictSubsetOrdering(Nat))
  <2> HIDE DEF Intervals
  <2> QED
    BY <1>1, <1>2, <1>3, WFMin
<1>5. PICK k \in T : x = 0..k
  OBVIOUS
<1>6. ASSUME NEW j \in T
      PROVE  k <= j
  <2>1. ~(<<0..j, 0..k>> \in StrictSubsetOrdering(Nat))
    BY <1>4, <1>5
  <2>2. ~(0..j \subseteq 0..k /\ 0..j # 0..k)
    <3>1. 0..j \in SUBSET Nat /\ 0..k \in SUBSET Nat
      OBVIOUS
    <3> QED
      BY <2>1, <3>1 DEF StrictSubsetOrdering
  <2>3. j \in Nat /\ k \in Nat
    OBVIOUS
  <2>4. j < k => 0..j \subseteq 0..k /\ k \in 0..k /\ k \notin 0..j
    BY <2>3
  <2>5. ~(j < k)
    BY <2>2, <2>4
  <2> QED
    BY <2>3, <2>5
<1> QED
  BY <1>6

(* A set with 0 and the successor of each of its naturals has them all.    *)
LEMMA Inductive ==
    ASSUME NEW T, 0 \in T, \A n \in Nat : n \in T => n + 1 \in T
    PROVE  Nat \subseteq T
<1> SUFFICES ASSUME ~(Nat \subseteq T)
             PROVE  FALSE
  OBVIOUS
<1>1. PICK k \in Nat \ T : \A j \in Nat \ T : k <= j
  BY Least
<1>2. k # 0 /\ k - 1 \in Nat /\ (k - 1) + 1 = k
  BY <1>1
<1>3. k - 1 \in T
  BY <1>1, <1>2
<1> QED
  BY <1>1, <1>2, <1>3

-----------------------------------------------------------------------------
(* What is left of an outbox.                                              *)

(* The recursive function that drops what is held is what its equation     *)
(* says, on every prefix of the log.                                       *)
LeftUpTo(f, log, held, n) ==
    f = [i \in 0..n |->
            IF i = 0 THEN <<>>
            ELSE IF Key[log[i]] \in held THEN f[i - 1] ELSE Append(f[i - 1], log[i])]

LEMMA LeftExtends ==
    ASSUME NEW log \in Logs, NEW held, NEW n \in Nat, n + 1 <= Len(log),
           NEW f \in [0..n -> Logs], LeftUpTo(f, log, held, n)
    PROVE  \E g \in [0..n + 1 -> Logs] : LeftUpTo(g, log, held, n + 1)
<1> DEFINE next == IF Key[log[n + 1]] \in held THEN f[n] ELSE Append(f[n], log[n + 1])
           g == [i \in 0..n + 1 |-> IF i <= n THEN f[i] ELSE next]
<1>1. log[n + 1] \in Guesses
  BY DEF Logs
<1>2. next \in Logs
  <2>1. f[n] \in Logs /\ Append(f[n], log[n + 1]) \in Logs
    BY <1>1 DEF Logs
  <2> QED
    BY <2>1
<1>3. g \in [0..n + 1 -> Logs]
  <2>1. \A i \in 0..n + 1 : i <= n => f[i] \in Logs
    OBVIOUS
  <2> HIDE DEF next
  <2> QED
    BY <1>2, <2>1
<1>4. \A i \in 0..n : f[i] = IF i = 0 THEN <<>>
                              ELSE IF Key[log[i]] \in held THEN f[i - 1] ELSE Append(f[i - 1], log[i])
  BY DEF LeftUpTo
<1>5. ASSUME NEW i \in 0..n + 1
      PROVE  g[i] = IF i = 0 THEN <<>>
                    ELSE IF Key[log[i]] \in held THEN g[i - 1] ELSE Append(g[i - 1], log[i])
  <2>1. CASE i = n + 1
    <3>1. g[i] = next /\ g[i - 1] = f[n] /\ i # 0
      BY <2>1
    <3> HIDE DEF g
    <3> QED
      BY <2>1, <3>1
  <2>2. CASE i <= n
    <3>1. i \in 0..n /\ g[i] = f[i] /\ (i # 0 => g[i - 1] = f[i - 1])
      BY <2>2
    <3> HIDE DEF g
    <3> QED
      BY <1>4, <3>1
  <2> QED
    BY <2>1, <2>2
<1>6. LeftUpTo(g, log, held, n + 1)
  <2> HIDE DEF g
  <2> QED
    BY <1>3, <1>5 DEF LeftUpTo
<1> QED
  BY <1>3, <1>6

LEMMA LeftExists ==
    ASSUME NEW log \in Logs, NEW held
    PROVE  \E f \in [0..Len(log) -> Logs] : LeftUpTo(f, log, held, Len(log))
<1> DEFINE T == {n \in Nat : n <= Len(log) =>
                    \E f \in [0..n -> Logs] : LeftUpTo(f, log, held, n)}
<1>1. 0 \in T
  <2>1. <<>> \in Logs
    BY DEF Logs
  <2>2. [i \in 0..0 |-> <<>>] \in [0..0 -> Logs]
    BY <2>1
  <2>3. LeftUpTo([i \in 0..0 |-> <<>>], log, held, 0)
    BY DEF LeftUpTo
  <2> QED
    BY <2>2, <2>3
<1>2. ASSUME NEW n \in Nat, n \in T
      PROVE  n + 1 \in T
  <2> SUFFICES ASSUME n + 1 <= Len(log)
               PROVE  \E f \in [0..n + 1 -> Logs] : LeftUpTo(f, log, held, n + 1)
    OBVIOUS
  <2>1. Len(log) \in Nat
    BY DEF Logs
  <2>2. PICK f \in [0..n -> Logs] : LeftUpTo(f, log, held, n)
    BY <1>2, <2>1
  <2> QED
    BY <2>2, LeftExtends
<1>3. Nat \subseteq T
  <2> HIDE DEF T
  <2> QED
    BY <1>1, <1>2, Inductive
<1>4. Len(log) \in Nat
  BY DEF Logs
<1> QED
  BY <1>3, <1>4

LEMMA LeftIs ==
    ASSUME NEW log \in Logs, NEW held
    PROVE  \E f \in [0..Len(log) -> Logs] :
              LeftUpTo(f, log, held, Len(log)) /\ Unacknowledged(log, held) = f[Len(log)]
<1>1. PICK h : h = CHOOSE f : LeftUpTo(f, log, held, Len(log))
  OBVIOUS
<1>2. PICK g \in [0..Len(log) -> Logs] : LeftUpTo(g, log, held, Len(log))
  BY LeftExists
<1>3. LeftUpTo(h, log, held, Len(log))
  BY <1>1, <1>2
<1>4. Unacknowledged(log, held) = h[Len(log)]
  BY <1>1 DEF Unacknowledged, LeftUpTo
<1>5. Len(log) \in Nat
  BY DEF Logs
<1>6. \A i \in 0..Len(log) : h[i] = IF i = 0 THEN <<>>
                                    ELSE IF Key[log[i]] \in held THEN h[i - 1] ELSE Append(h[i - 1], log[i])
  BY <1>3 DEF LeftUpTo
<1>7. \A i \in 0..Len(log) : h[i] \in Logs
  <2> DEFINE T == {n \in Nat : n <= Len(log) => h[n] \in Logs}
  <2>1. 0 \in T
    <3>1. h[0] = <<>> /\ <<>> \in Logs
      BY <1>5, <1>6 DEF Logs
    <3> QED
      BY <3>1
  <2>2. ASSUME NEW n \in Nat, n \in T
        PROVE  n + 1 \in T
    <3> SUFFICES ASSUME n + 1 <= Len(log)
                 PROVE  h[n + 1] \in Logs
      OBVIOUS
    <3>1. n + 1 \in 0..Len(log) /\ h[n] \in Logs /\ log[n + 1] \in Guesses
      BY <1>5, <2>2 DEF Logs
    <3>2. Append(h[n], log[n + 1]) \in Logs
      BY <3>1 DEF Logs
    <3> QED
      BY <1>6, <3>1, <3>2
  <2>3. Nat \subseteq T
    <3> HIDE DEF T
    <3> QED
      BY <2>1, <2>2, Inductive
  <2> QED
    BY <1>5, <2>3
<1>8. h \in [0..Len(log) -> Logs]
  BY <1>3, <1>7 DEF LeftUpTo
<1> QED
  BY <1>3, <1>4, <1>8

(* What is left is of the outbox and not held, and all of that is left.    *)
LEMMA LeftOfPrefix ==
    ASSUME NEW log \in Logs, NEW held, NEW f \in [0..Len(log) -> Logs],
           LeftUpTo(f, log, held, Len(log)), NEW n \in 0..Len(log)
    PROVE  /\ \A i \in 1..n : Key[log[i]] \notin held =>
                  \E j \in 1..Len(f[n]) : f[n][j] = log[i]
           /\ \A j \in 1..Len(f[n]) : \E i \in 1..n : f[n][j] = log[i] /\ Key[log[i]] \notin held
<1> DEFINE All(m) == \A i \in 1..m : Key[log[i]] \notin held =>
                        \E j \in 1..Len(f[m]) : f[m][j] = log[i]
           Only(m) == \A j \in 1..Len(f[m]) :
                        \E i \in 1..m : f[m][j] = log[i] /\ Key[log[i]] \notin held
           T == {m \in Nat : m <= Len(log) => All(m) /\ Only(m)}
<1>1. Len(log) \in Nat
  BY DEF Logs
<1>2. \A i \in 0..Len(log) :
        f[i] = IF i = 0 THEN <<>>
               ELSE IF Key[log[i]] \in held THEN f[i - 1] ELSE Append(f[i - 1], log[i])
  BY DEF LeftUpTo
<1>3. 0 \in T
  BY <1>1, <1>2
<1>4. ASSUME NEW m \in Nat, m \in T
      PROVE  m + 1 \in T
  <2> SUFFICES ASSUME m + 1 <= Len(log)
               PROVE  All(m + 1) /\ Only(m + 1)
    <3> HIDE DEF All, Only
    <3> QED
      BY <1>4
  <2>1. All(m) /\ Only(m)
    BY <1>1, <1>4
  <2>2. m \in 0..Len(log) /\ m + 1 \in 0..Len(log) /\ log[m + 1] \in Guesses
    BY <1>1 DEF Logs
  <2>3. f[m] \in Logs /\ Len(f[m]) \in Nat
    BY <2>2 DEF Logs
  <2>4. CASE Key[log[m + 1]] \in held
    <3>1. f[m + 1] = f[m]
      BY <1>2, <2>2, <2>4
    <3>2. ASSUME NEW i \in 1..m + 1, Key[log[i]] \notin held
          PROVE  \E j \in 1..Len(f[m + 1]) : f[m + 1][j] = log[i]
      <4>1. i \in 1..m
        BY <2>4, <3>2
      <4> QED
        BY <2>1, <3>1, <3>2, <4>1
    <3>3. ASSUME NEW j \in 1..Len(f[m + 1])
          PROVE  \E i \in 1..m + 1 : f[m + 1][j] = log[i] /\ Key[log[i]] \notin held
      <4>1. PICK i \in 1..m : f[m][j] = log[i] /\ Key[log[i]] \notin held
        BY <2>1, <3>1
      <4> QED
        BY <3>1, <4>1
    <3> QED
      BY <3>2, <3>3
  <2>5. CASE Key[log[m + 1]] \notin held
    <3>1. f[m + 1] = Append(f[m], log[m + 1])
      BY <1>2, <2>2, <2>5
    <3>2. /\ Len(f[m + 1]) = Len(f[m]) + 1
          /\ \A j \in 1..Len(f[m]) : f[m + 1][j] = f[m][j]
          /\ f[m + 1][Len(f[m]) + 1] = log[m + 1]
      BY <2>2, <2>3, <3>1 DEF Logs
    <3>3. All(m + 1)
      <4> SUFFICES ASSUME NEW i \in 1..m + 1, Key[log[i]] \notin held
                   PROVE  \E j \in 1..Len(f[m + 1]) : f[m + 1][j] = log[i]
        OBVIOUS
      <4>1. CASE i = m + 1
        BY <2>3, <3>2, <4>1
      <4>2. CASE i \in 1..m
        <5>1. PICK j \in 1..Len(f[m]) : f[m][j] = log[i]
          BY <2>1, <4>2
        <5> QED
          BY <2>3, <3>2, <5>1
      <4> QED
        BY <4>1, <4>2
    <3>4. Only(m + 1)
      <4> SUFFICES ASSUME NEW j \in 1..Len(f[m + 1])
                   PROVE  \E i \in 1..m + 1 : f[m + 1][j] = log[i] /\ Key[log[i]] \notin held
        OBVIOUS
      <4>1. CASE j = Len(f[m]) + 1
        BY <2>5, <3>2, <4>1
      <4>2. CASE j \in 1..Len(f[m])
        <5>1. PICK i \in 1..m : f[m][j] = log[i] /\ Key[log[i]] \notin held
          BY <2>1, <4>2
        <5> QED
          BY <3>2, <4>2, <5>1
      <4> QED
        BY <2>3, <3>2, <4>1, <4>2
    <3> QED
      BY <3>3, <3>4
  <2> QED
    BY <2>4, <2>5
<1>5. Nat \subseteq T
  <2> HIDE DEF T
  <2> QED
    BY <1>3, <1>4, Inductive
<1> QED
  BY <1>1, <1>5

LEMMA UnacknowledgedFacts ==
    ASSUME NEW log \in Logs, NEW held
    PROVE  /\ Unacknowledged(log, held) \in Logs
           /\ Identities(Unacknowledged(log, held)) = Identities(log) \ held
<1>1. PICK f \in [0..Len(log) -> Logs] :
        LeftUpTo(f, log, held, Len(log)) /\ Unacknowledged(log, held) = f[Len(log)]
  BY LeftIs
<1>2. Len(log) \in 0..Len(log)
  BY DEF Logs
<1>3. PICK left \in Logs : left = f[Len(log)]
  BY <1>2
<1>4. /\ \A i \in 1..Len(log) : Key[log[i]] \notin held => \E j \in 1..Len(left) : left[j] = log[i]
      /\ \A j \in 1..Len(left) : \E i \in 1..Len(log) : left[j] = log[i] /\ Key[log[i]] \notin held
  <2>1. /\ \A i \in 1..Len(log) : Key[log[i]] \notin held =>
              \E j \in 1..Len(f[Len(log)]) : f[Len(log)][j] = log[i]
        /\ \A j \in 1..Len(f[Len(log)]) :
              \E i \in 1..Len(log) : f[Len(log)][j] = log[i] /\ Key[log[i]] \notin held
    <3> HIDE DEF LeftUpTo
    <3>1. PICK n \in 0..Len(log) : n = Len(log)
      BY <1>2
    <3>2. LeftUpTo(f, log, held, Len(log))
      BY <1>1
    <3>3. /\ \A i \in 1..n : Key[log[i]] \notin held =>
                  \E j \in 1..Len(f[n]) : f[n][j] = log[i]
          /\ \A j \in 1..Len(f[n]) : \E i \in 1..n : f[n][j] = log[i] /\ Key[log[i]] \notin held
      BY <3>2, LeftOfPrefix
    <3> QED
      BY <3>1, <3>3
  <2> QED
    BY <1>3, <2>1
<1>5. DOMAIN log = 1..Len(log) /\ DOMAIN left = 1..Len(left)
  BY DEF Logs
<1>6. Identities(left) = Identities(log) \ held
  <2>1. ASSUME NEW k \in Identities(left)
        PROVE  k \in Identities(log) \ held
    <3>1. PICK j \in 1..Len(left) : k = Key[left[j]]
      BY <1>5, <2>1 DEF Identities
    <3>2. PICK i \in 1..Len(log) : left[j] = log[i] /\ Key[log[i]] \notin held
      BY <1>4
    <3> QED
      BY <1>5, <3>1, <3>2 DEF Identities
  <2>2. ASSUME NEW k \in Identities(log) \ held
        PROVE  k \in Identities(left)
    <3>1. PICK i \in 1..Len(log) : k = Key[log[i]]
      BY <1>5, <2>2 DEF Identities
    <3>2. PICK j \in 1..Len(left) : left[j] = log[i]
      BY <1>4, <2>2, <3>1
    <3> QED
      BY <1>5, <3>1, <3>2 DEF Identities
  <2> QED
    BY <2>1, <2>2
<1> QED
  BY <1>1, <1>3, <1>6

-----------------------------------------------------------------------------
(* Prefixes of logs.                                                       *)

LEMMA PrefixPointwise ==
    ASSUME NEW s \in Logs, NEW t \in Logs
    PROVE  IsPrefix(s, t) <=> /\ Len(s) <= Len(t)
                              /\ \A i \in 1..Len(s) : s[i] = t[i]
<1>1. ASSUME Len(s) <= Len(t)
      PROVE  /\ SubSeq(s, 1, Len(s)) \in Logs
             /\ SubSeq(t, 1, Len(s)) \in Logs
             /\ Len(SubSeq(s, 1, Len(s))) = Len(s)
             /\ Len(SubSeq(t, 1, Len(s))) = Len(s)
             /\ \A i \in 1..Len(s) : /\ SubSeq(s, 1, Len(s))[i] = s[i]
                                     /\ SubSeq(t, 1, Len(s))[i] = t[i]
  BY <1>1 DEF Logs
<1>2. ASSUME IsPrefix(s, t), NEW i \in 1..Len(s)
      PROVE  s[i] = t[i]
  BY <1>1, <1>2 DEF IsPrefix, Logs
<1>3. ASSUME Len(s) <= Len(t), \A i \in 1..Len(s) : s[i] = t[i]
      PROVE  SubSeq(s, 1, Len(s)) = SubSeq(t, 1, Len(s))
  BY <1>1, <1>3 DEF Logs
<1> QED
  BY <1>2, <1>3 DEF IsPrefix

(* A prefix of a log is one of every longer log, holds no other identity,  *)
(* and fills the round only if the log does.                               *)
LEMMA PrefixFacts ==
    ASSUME NEW s \in Logs, NEW t \in Logs
    PROVE  /\ IsPrefix(s, s) /\ IsPrefix(<<>>, s)
           /\ IsPrefix(s, t) =>
                /\ Identities(s) \subseteq Identities(t)
                /\ Full(s) => Full(t)
                /\ \A b \in Logs : IsPrefix(s, t \o b)
<1>1. <<>> \in Logs /\ Len(<<>>) = 0 /\ Len(s) \in Nat /\ Len(t) \in Nat
  BY DEF Logs
<1>2. DOMAIN s = 1..Len(s) /\ DOMAIN t = 1..Len(t)
  BY DEF Logs
<1>3. IsPrefix(s, s)
  BY <1>1, PrefixPointwise
<1>4. IsPrefix(<<>>, s)
  <2>1. \A i \in 1..Len(<<>>) : <<>>[i] = s[i]
    BY <1>1
  <2> QED
    BY <1>1, <2>1, PrefixPointwise
<1>5. ASSUME IsPrefix(s, t)
      PROVE  Len(s) <= Len(t) /\ \A i \in 1..Len(s) : s[i] = t[i]
  BY <1>5, PrefixPointwise
<1>6. ASSUME IsPrefix(s, t)
      PROVE  Identities(s) \subseteq Identities(t)
  BY <1>1, <1>2, <1>5, <1>6 DEF Identities
<1>7. ASSUME IsPrefix(s, t), Full(s)
      PROVE  Full(t)
  BY <1>1, <1>5, <1>7, BoundsAssumption DEF Full
<1>8. ASSUME IsPrefix(s, t), NEW b \in Logs
      PROVE  IsPrefix(s, t \o b)
  <2>1. t \o b \in Logs /\ Len(t \o b) = Len(t) + Len(b) /\ Len(b) \in Nat
    BY DEF Logs
  <2>2. \A i \in 1..Len(t) : (t \o b)[i] = t[i]
    BY DEF Logs
  <2>3. Len(s) <= Len(t \o b) /\ \A i \in 1..Len(s) : s[i] = (t \o b)[i]
    BY <1>1, <1>5, <1>8, <2>1, <2>2
  <2> QED
    BY <2>1, <2>3, PrefixPointwise
<1> QED
  BY <1>3, <1>4, <1>6, <1>7, <1>8

LEMMA PrefixTransitive ==
    ASSUME NEW s \in Logs, NEW t \in Logs, NEW u \in Logs, IsPrefix(s, t), IsPrefix(t, u)
    PROVE  IsPrefix(s, u)
<1>1. Len(s) \in Nat /\ Len(t) \in Nat /\ Len(u) \in Nat
  BY DEF Logs
<1> QED
  BY <1>1, PrefixPointwise

-----------------------------------------------------------------------------
(* The shapes of what is stored, held and said.                            *)

Snapshots == [log : Logs, solved : BOOLEAN, gaveUp : BOOLEAN]

Bare(s) == s.log = <<>> /\ ~s.solved /\ ~s.gaveUp

RowShape(r) ==
    /\ DOMAIN r = {"edition", "log", "solved", "gaveUp"}
    /\ r.edition \in 0..published
    /\ r.log \in Logs /\ Len(r.log) <= Cap
    /\ r.solved \in BOOLEAN /\ r.gaveUp \in BOOLEAN

Shown3 == {"ok", "refused", "too_fast"}

(* What each kind of request may be answered with.                         *)
Fits(kind, said) ==
    /\ said.status \in Shown3 => said.state \in Snapshots
    /\ \/ said.status = "unknown_device"
       \/ kind = "read" /\ said.status \in {"ok", "not_found"}
       \/ kind = "giveUp" /\ said.status \in {"puzzle_changed", "not_found"}
       \/ kind = "giveUp" /\ said.status \in {"ok", "refused"} /\ Ended(said.state)
       \/ kind = "append" /\ said.status \in {"puzzle_changed", "forbidden"} \cup Shown3

RequestShape(c) ==
    /\ DOMAIN c = {"kind", "batch", "at", "puzzle", "edition", "epoch", "token", "answer"}
    /\ c.kind \in {"read", "giveUp", "append"}
    /\ c.batch \in Logs
    /\ c.at \in {"token", "sent", "answered", "failed"}
    /\ c.puzzle \in Editions /\ c.edition \in Editions /\ c.puzzle <= c.edition
    /\ c.epoch \in Accounts \X Nat
    /\ c.at = "answered" => Fits(c.kind, c.answer)

CallShape(c) == c.at = "none" \/ RequestShape(c)

FlightShape(f) ==
    \/ ~f.open /\ f.giveUp = "none"
    \/ /\ DOMAIN f = {"open", "edition", "server", "readDone", "settled", "failed",
                      "created", "closed", "giveUp", "due"}
       /\ f.open
       /\ f.edition \in Editions
       /\ f.server \in Snapshots
       /\ f.giveUp \in {"none", "asked", "sent"}

BoxShape(b) ==
    DOMAIN b = {"edition", "log"} /\ b.edition \in Nat /\ b.log \in Logs

TabShape(x) ==
    /\ DOMAIN x = {"page", "who", "device", "box", "flight", "call", "stray", "on"}
    /\ x.page \in Editions
    /\ x.who \in Accounts \cup {None}
    /\ x.device \in Nat
    /\ BoxShape(x.box)
    /\ FlightShape(x.flight)
    /\ CallShape(x.call)
    /\ CallShape(x.stray)

-----------------------------------------------------------------------------
(* The invariant.                                                          *)

(* A state the server gave of an account's round of an edition is the      *)
(* beginning of what it stores, as long as the edition stands.             *)
Told(s, a, e) ==
    \/ Bare(s)
    \/ /\ Stored(a, e)
       /\ IsPrefix(s.log, row[a].log)
       /\ s.solved => row[a].solved
       /\ s.gaveUp => row[a].gaveUp
    \/ e < published

SaidTrue(c) ==
    c.at = "answered" /\ c.answer.status \in Shown3 => Told(c.answer.state, c.epoch[1], c.edition)

(* What a tab is by itself: its conversation is of the page's edition, a   *)
(* give-up is somebody's, and nobody's tab has heard nothing.              *)
Settings(x) ==
    /\ x.page <= published
    /\ x.box.edition <= x.page
    /\ x.flight.open => x.flight.edition = x.page
    /\ x.flight.giveUp # "none" => x.flight.open /\ x.who # None
    /\ x.who = None => x.call.at = "none" /\ (x.flight.open => Bare(x.flight.server))

(* The request a tab waits for is of its own identity or of an older one,  *)
(* and so is its answer.                                                   *)
Awaits(x) ==
    x.call.at # "none" =>
        /\ x.flight.open
        /\ x.call.edition <= x.page
        /\ x.call.epoch[2] <= x.device
        /\ x.call.epoch[2] = x.device => x.call.epoch[1] = x.who
        /\ SaidTrue(x.call)

(* A request that was left behind is of an identity that does not return.  *)
Strays(x) ==
    x.stray.at # "none" =>
        /\ x.stray.at \in {"sent", "answered"}
        /\ x.stray.edition <= x.page
        /\ x.stray.epoch[2] < x.device

Shows(x) == x.flight.open /\ x.who # None => Told(x.flight.server, x.who, x.page)

(* An answer under way is no older than what the tab shows.                *)
Newer(x) ==
    x.call.at = "answered" /\ x.flight.open /\ x.call.edition = x.page
        /\ x.page = published /\ x.call.epoch[2] = x.device =>
        /\ x.call.answer.status \in Shown3 => IsPrefix(x.flight.server.log, x.call.answer.state.log)
        /\ x.call.answer.status = "not_found" => x.flight.server.log = <<>>

Sane(x) ==
    TabShape(x) /\ Settings(x) /\ Awaits(x) /\ Strays(x) /\ Shows(x) /\ Newer(x)

LateShape == \A c \in late : RequestShape(c) /\ c.at = "sent" /\ c.edition <= published

Rows ==
    /\ published \in Editions
    /\ DOMAIN row = Accounts
    /\ \A a \in Accounts : RowShape(row[a])

Inv ==
    /\ Rows
    /\ LateShape
    /\ DOMAIN tab = Tabs
    /\ \A t \in Tabs : Sane(tab[t])

(* What was typed was typed on a page and by a device the tab has left     *)
(* behind or still has.                                                    *)
TypedBefore ==
    \A w \in typed :
        /\ w.tab \in Tabs /\ w.who \in Accounts /\ w.device \in Nat /\ w.edition \in Editions
        /\ w.device <= tab[w.tab].device
        /\ w.edition <= tab[w.tab].page

-----------------------------------------------------------------------------
(* What the tab's own values become.                                       *)

(* m is the open tab x with server s, outbox b and request c.              *)
As(m, x, s, b, c) ==
    /\ TabShape(m)
    /\ m.page = x.page /\ m.who = x.who /\ m.device = x.device /\ m.stray = x.stray
    /\ m.box = b /\ m.call = c
    /\ m.flight.open /\ m.flight.edition = x.flight.edition /\ m.flight.server = s
    /\ m.flight.giveUp \in {"none", x.flight.giveUp}

LEMMA Itself ==
    ASSUME NEW x, TabShape(x), x.flight.open
    PROVE  As(x, x, x.flight.server, x.box, x.call)
BY DEF As

LEMMA RepliedAs ==
    ASSUME NEW x, NEW y, NEW s, NEW b, NEW c, As(y, x, s, b, c)
    PROVE  As(Replied(y), x, s, b, c) /\ Replied(y).flight.giveUp = "none"
BY DEF As, Replied, TabShape, FlightShape

LEMMA ClosedAs ==
    ASSUME NEW x, NEW y, NEW s, NEW b, NEW c, As(y, x, s, b, c)
    PROVE  As(Closed(y), x, s, b, c)
BY DEF As, Closed, Replied, TabShape, FlightShape

LEMMA AdoptedAs ==
    ASSUME NEW x, NEW y, NEW s, NEW b, NEW c, As(y, x, s, b, c), NEW st \in Snapshots
    PROVE  As(Adopted(y, st), x, st, b, c)
<1>1. st = [log |-> st.log, solved |-> st.solved, gaveUp |-> st.gaveUp]
  BY DEF Snapshots
<1> QED
  BY <1>1 DEF As, Adopted, TabShape, FlightShape

LEMMA ShownAs ==
    ASSUME NEW x, NEW y, NEW s, NEW b, NEW c, As(y, x, s, b, c),
           NEW answer, answer.state \in Snapshots
    PROVE  As(Shown(y, answer), x, answer.state, b, c)
<1>1. PICK st \in Snapshots : st = answer.state
  OBVIOUS
<1>2. PICK z : z = Adopted(y, st)
  OBVIOUS
<1>3. As(z, x, st, b, c)
  BY <1>2, AdoptedAs
<1>4. Shown(y, answer) = [z EXCEPT !.flight.created = @ \/ answer.stored]
  BY <1>1, <1>2 DEF Shown
<1> QED
  BY <1>1, <1>3, <1>4 DEF As, TabShape, FlightShape

LEMMA ResyncedAs ==
    ASSUME NEW x, NEW y, NEW s, NEW b, NEW c, As(y, x, s, b, c)
    PROVE  As(FailedLoad(y), x, s, b, c) /\ As(Resynced(y), x, s, b, c)
<1>1. As(FailedLoad(y), x, s, b, c)
  BY DEF As, FailedLoad, TabShape, FlightShape
<1>2. As(Resynced(y), x, s, b, c)
  <2>1. PICK z : z = [y EXCEPT !.flight.readDone = FALSE]
    OBVIOUS
  <2>2. As(z, x, s, b, c) /\ z.flight.giveUp = y.flight.giveUp
    BY <2>1 DEF As, TabShape, FlightShape
  <2>3. Resynced(y) \in {z, Replied(z)}
    BY <2>1 DEF Resynced
  <2> QED
    BY <2>2, <2>3, RepliedAs
<1> QED
  BY <1>1, <1>2

LEMMA DiscardedAs ==
    ASSUME NEW x, NEW y, NEW s, NEW b, NEW c, As(y, x, s, b, c)
    PROVE  \E d : BoxShape(d) /\ d.edition \in {0, b.edition} /\ As(Discarded(y), x, s, d, c)
<1>1. BoxShape(NoBox) /\ NoBox.edition = 0
  BY DEF BoxShape, NoBox, Logs
<1>2. As([y EXCEPT !.box = NoBox], x, s, NoBox, c)
  BY <1>1 DEF As, TabShape
<1>3. BoxShape(b)
  BY DEF As, TabShape
<1>4. Discarded(y) \in {y, [y EXCEPT !.box = NoBox]}
  BY DEF Discarded
<1> QED
  BY <1>1, <1>2, <1>3, <1>4

(* What an outbox owes for a page of edition e.                            *)
Owed(b, e) == IF b.edition = e THEN Identities(b.log) ELSE {}

LEMMA SettledAs ==
    ASSUME NEW x, NEW y, NEW s, NEW b, NEW c, As(y, x, s, b, c)
    PROVE  \E d : /\ BoxShape(d) /\ d.edition \in {0, b.edition}
                  /\ As(SettledBox(y), x, s, d, c)
                  /\ Owed(b, x.flight.edition) \subseteq
                        Owed(d, x.flight.edition) \cup Identities(s.log)
<1>1. BoxShape(NoBox) /\ NoBox.edition = 0 /\ BoxShape(b) /\ Identities(<<>>) = {}
  BY DEF BoxShape, NoBox, Logs, As, TabShape, Identities
<1>2. y.box = b /\ y.flight.edition = x.flight.edition /\ y.flight.server = s
  BY DEF As
<1>3. CASE b.edition # x.flight.edition
  BY <1>1, <1>2, <1>3 DEF SettledBox, Owed
<1>4. CASE b.edition = x.flight.edition
  <2>1. PICK held : held = Identities(s.log)
    OBVIOUS
  <2>2. PICK left : left = Unacknowledged(b.log, held)
    OBVIOUS
  <2>3. left \in Logs /\ Identities(left) = Identities(b.log) \ held
    BY <1>1, <2>2, UnacknowledgedFacts DEF BoxShape
  <2>4. SettledBox(y) = [y EXCEPT !.box = IF left = <<>> THEN NoBox ELSE [@ EXCEPT !.log = left]]
    BY <1>2, <1>4, <2>1, <2>2 DEF SettledBox
  <2>5. CASE left = <<>>
    <3>1. SettledBox(y) = [y EXCEPT !.box = NoBox]
      BY <2>4, <2>5
    <3>2. As(SettledBox(y), x, s, NoBox, c)
      BY <1>1, <3>1 DEF As, TabShape
    <3>3. Owed(b, x.flight.edition) \subseteq held
      BY <1>1, <2>3, <2>5 DEF Owed
    <3> QED
      BY <1>1, <2>1, <3>2, <3>3
  <2>6. CASE left # <<>>
    <3>1. PICK d : d = [b EXCEPT !.log = left]
      OBVIOUS
    <3>2. BoxShape(d) /\ d.edition = b.edition /\ d.log = left
      BY <1>1, <2>3, <3>1 DEF BoxShape
    <3>3. SettledBox(y) = [y EXCEPT !.box = d]
      BY <1>2, <2>4, <2>6, <3>1 DEF As, TabShape
    <3>4. As(SettledBox(y), x, s, d, c)
      BY <3>2, <3>3 DEF As, TabShape
    <3>5. Owed(b, x.flight.edition) \subseteq Owed(d, x.flight.edition) \cup held
      BY <1>4, <2>3, <3>2 DEF Owed
    <3> QED
      BY <2>1, <3>2, <3>4, <3>5
  <2> QED
    BY <2>5, <2>6
<1> QED
  BY <1>3, <1>4

-----------------------------------------------------------------------------
(* One step of one tab.                                                    *)

(* The tab goes from x to m: its page and its device do not go back, what  *)
(* it shows is blank, or longer while the sentence stands, and what it     *)
(* owed it still owes, or shows, or the round it shows is over.            *)
Goes(x, m) ==
    /\ TabShape(m) /\ Settings(m) /\ Awaits(m) /\ Strays(m) /\ Shows(m)
    /\ m.call.at = "answered" => m.call = x.call
    /\ x.page <= m.page
    /\ x.device <= m.device
    /\ m.device = x.device => m.who \in {x.who, None}
    /\ m.flight.open =>
        \/ Bare(m.flight.server) /\ ~m.flight.settled
        \/ /\ x.flight.open /\ m.page = x.page
           /\ m.call.at = "answered" => m.flight.server = x.flight.server
           /\ m.page = published => IsPrefix(x.flight.server.log, m.flight.server.log)
    /\ m.page = x.page /\ m.device = x.device /\ m.who = x.who =>
        \/ Owed(x.box, x.page) \subseteq
             Owed(m.box, m.page) \cup (IF m.flight.open THEN Identities(m.flight.server.log) ELSE {})
        \/ m.flight.open /\ Over(m.flight.server)

LEMMA ServerShape ==
    ASSUME NEW x, TabShape(x), x.flight.open
    PROVE  /\ x.flight.server \in Snapshots /\ x.flight.server.log \in Logs
           /\ x.flight.edition \in Editions
BY DEF TabShape, FlightShape, Snapshots

LEMMA BareIs ==
    ASSUME NEW s \in Snapshots, Bare(s)
    PROVE  s = EmptyServer
<1>1. s = [log |-> s.log, solved |-> s.solved, gaveUp |-> s.gaveUp]
  BY DEF Snapshots
<1>2. s.solved = FALSE /\ s.gaveUp = FALSE /\ s.log = <<>>
  BY DEF Bare, Snapshots
<1> QED
  BY <1>1, <1>2 DEF EmptyServer

(* A tab that goes stays sane.                                             *)
LEMMA GoesSane ==
    ASSUME NEW x, NEW m, Sane(x), Goes(x, m)
    PROVE  Sane(m)
<1>1. Newer(m)
  <2> SUFFICES ASSUME m.call.at = "answered", m.flight.open, m.call.edition = m.page,
                      m.page = published, m.call.epoch[2] = m.device
               PROVE  /\ m.call.answer.status \in Shown3 =>
                            IsPrefix(m.flight.server.log, m.call.answer.state.log)
                      /\ m.call.answer.status = "not_found" => m.flight.server.log = <<>>
    BY DEF Newer
  <2>1. m.call = x.call /\ CallShape(m.call) /\ x.call.at # "none"
    BY DEF Goes, TabShape
  <2>2. RequestShape(m.call)
    BY <2>1 DEF CallShape
  <2>3. CASE Bare(m.flight.server)
    <3>1. m.flight.server.log = <<>>
      BY <2>3 DEF Bare
    <3>2. m.call.answer.status \in Shown3 => m.call.answer.state.log \in Logs
      BY <2>2 DEF RequestShape, Fits, Snapshots
    <3> QED
      BY <3>1, <3>2, PrefixFacts
  <2>4. CASE ~Bare(m.flight.server)
    <3>1. x.flight.open /\ m.page = x.page /\ m.flight.server = x.flight.server
      BY <2>4 DEF Goes
    <3>2. x.call.epoch[2] <= x.device /\ x.device <= m.device /\ x.call.epoch[2] = m.device
      BY <2>1 DEF Sane, Awaits, Goes
    <3>3. x.device \in Nat /\ m.device \in Nat
      BY DEF Sane, Goes, TabShape
    <3>4. x.call.epoch[2] = x.device
      BY <3>2, <3>3
    <3> QED
      BY <2>1, <3>1, <3>4 DEF Sane, Newer
  <2> QED
    BY <2>3, <2>4
<1> QED
  BY <1>1 DEF Goes, Sane

(* What is sane stays so while the store stands still.                     *)
LEMMA SaneKept ==
    ASSUME NEW x, Sane(x), UNCHANGED <<published, row>>
    PROVE  Sane(x)'
<1>1. Told(x.call.answer.state, x.call.epoch[1], x.call.edition)' <=>
        Told(x.call.answer.state, x.call.epoch[1], x.call.edition)
  BY DEF Told, Stored
<1>2. Told(x.flight.server, x.who, x.page)' <=> Told(x.flight.server, x.who, x.page)
  BY DEF Told, Stored
<1>3. TabShape(x)' /\ Settings(x)' /\ Strays(x)' /\ Newer(x)'
  BY DEF Sane, TabShape, Settings, Strays, Newer
<1>4. Awaits(x)'
  BY <1>1 DEF Sane, Awaits, SaidTrue
<1>5. Shows(x)'
  BY <1>2 DEF Sane, Shows
<1> QED
  BY <1>3, <1>4, <1>5 DEF Sane

LEMMA InvKept ==
    ASSUME Inv, UNCHANGED <<published, row, tab, late>>
    PROVE  Inv'
<1>1. Rows' /\ LateShape' /\ DOMAIN tab' = Tabs
  BY DEF Inv, Rows, RowShape, LateShape, RequestShape
<1>2. ASSUME NEW t \in Tabs
      PROVE  Sane(tab[t])'
  <2>1. PICK x : x = tab[t]
    OBVIOUS
  <2>2. Sane(x)'
    BY <2>1, SaneKept DEF Inv
  <2> QED
    BY <2>1, <2>2
<1> QED
  BY <1>1, <1>2 DEF Inv

LEMMA GoesKeeps ==
    ASSUME Inv, NEW t \in Tabs, NEW m, Goes(tab[t], m), tab' = [tab EXCEPT ![t] = m],
           UNCHANGED <<published, row>>, LateShape'
    PROVE  Inv'
<1>1. DOMAIN tab' = Tabs /\ \A u \in Tabs : tab'[u] = IF u = t THEN m ELSE tab[u]
  BY DEF Inv
<1>2. Sane(m)
  BY GoesSane DEF Inv
<1>3. Rows'
  BY DEF Inv, Rows, RowShape, Editions, Logs
<1>4. ASSUME NEW u \in Tabs
      PROVE  Sane(tab[u])'
  <2>1. PICK n : n = IF u = t THEN m ELSE tab[u]
    OBVIOUS
  <2>2. Sane(n)
    BY <1>2, <2>1 DEF Inv
  <2>3. tab'[u] = n
    BY <1>1, <2>1
  <2>4. Sane(n)'
    BY <2>2, SaneKept
  <2> QED
    BY <2>3, <2>4
<1> QED
  BY <1>1, <1>3, <1>4 DEF Inv

(* Nothing that is shown changes, and what is owed stays.                  *)
LEMMA QuietGoes ==
    ASSUME NEW x, NEW m, Sane(x), TabShape(m), m.page = x.page, m.who = x.who, m.device = x.device,
           \/ m.box = x.box
           \/ /\ m.box.edition <= x.page
              /\ Owed(x.box, x.page) \subseteq Owed(m.box, x.page),
           m.stray \in {x.stray, NoCall},
           m.flight.open => /\ x.flight.open /\ m.flight.server = x.flight.server
                            /\ m.flight.edition = x.flight.edition,
           m.flight.giveUp # "none" => m.flight.open /\ m.who # None,
           Awaits(m), m.who = None => m.call.at = "none",
           m.call.at = "answered" => m.call = x.call
    PROVE  Goes(x, m)
<1>1. Settings(m)
  BY DEF Sane, Settings
<1>2. Strays(m)
  BY DEF Sane, Strays, NoCall
<1>3. Shows(m)
  BY DEF Sane, Shows
<1>4. m.flight.open => IsPrefix(x.flight.server.log, m.flight.server.log)
  BY ServerShape, PrefixFacts DEF Sane
<1>5. Owed(x.box, x.page) \subseteq Owed(m.box, m.page)
  OBVIOUS
<1>6. x.page <= m.page /\ x.device <= m.device
  BY DEF TabShape, Editions
<1> QED
  BY <1>1, <1>2, <1>3, <1>4, <1>5, <1>6 DEF Goes

(* A conversation that begins anew, or none.                               *)
Blank(m) ==
    /\ m.flight.giveUp = "none"
    /\ m.flight.open => Bare(m.flight.server) /\ ~m.flight.settled /\ m.flight.edition = m.page

LEMMA AnewGoes ==
    ASSUME NEW x, NEW m, Sane(x), TabShape(m), Blank(m), Awaits(m), Strays(m),
           x.page <= m.page, m.page <= published, m.box.edition <= m.page,
           x.device <= m.device, m.device = x.device => m.who \in {x.who, None},
           m.who = None => m.call.at = "none",
           m.call.at = "answered" => m.call = x.call,
           m.page = x.page /\ m.device = x.device /\ m.who = x.who =>
                Owed(x.box, x.page) \subseteq Owed(m.box, m.page)
    PROVE  Goes(x, m)
<1>1. Settings(m)
  BY DEF Settings, Blank
<1>2. Shows(m)
  BY DEF Shows, Told, Blank
<1> QED
  BY <1>1, <1>2 DEF Goes, Blank

-----------------------------------------------------------------------------
(* The steps of the conversation.                                          *)

(* A tab that landed with the values of y has no request any more.         *)
LandedTab(y) == [y EXCEPT !.call = NoCall, !.flight.due = TRUE]

LEMMA LandedAs ==
    ASSUME NEW x, NEW y, NEW s, NEW b, NEW c, As(y, x, s, b, c)
    PROVE  As(LandedTab(y), x, s, b, NoCall)
BY DEF As, LandedTab, TabShape, FlightShape, CallShape, NoCall

(* What the tab shows next is true and no older than what it shows, and    *)
(* what it owed it owes still, or shows, or the round is over.             *)
Keeps(x, s, b) ==
    /\ BoxShape(b) /\ b.edition \in {0, x.box.edition}
    /\ s.log \in Logs /\ Told(s, x.who, x.page)
    /\ x.page = published => IsPrefix(x.flight.server.log, s.log)
    /\ \/ Owed(x.box, x.page) \subseteq Owed(b, x.page) \cup Identities(s.log)
       \/ Over(s)

LEMMA AsGoes ==
    ASSUME NEW x, Sane(x), x.flight.open, x.who # None,
           NEW m, NEW s, NEW b, NEW c, As(m, x, s, b, c), c.at = "none", Keeps(x, s, b)
    PROVE  Goes(x, m)
<1>1. TabShape(m) /\ TabShape(x)
  BY DEF As, Sane
<1>2. Settings(m)
  <2>1. x.page \in Nat /\ x.page <= published /\ x.box.edition <= x.page /\ x.flight.edition = x.page
    BY <1>1 DEF Sane, Settings, TabShape, Editions
  <2>2. b.edition <= x.page
    BY <2>1 DEF Keeps
  <2> QED
    BY <2>1, <2>2 DEF As, Settings
<1>3. Awaits(m) /\ m.call.at # "answered"
  BY DEF As, Awaits
<1>4. Strays(m)
  BY DEF As, Sane, Strays
<1>5. Shows(m)
  BY DEF As, Shows, Keeps
<1>6. x.page <= m.page /\ x.device <= m.device
  BY <1>1 DEF As, TabShape, Editions
<1> QED
  BY <1>1, <1>2, <1>3, <1>4, <1>5, <1>6 DEF As, Goes, Keeps

LEMMA KeepsSame ==
    ASSUME NEW x, Sane(x), x.flight.open, x.who # None
    PROVE  Keeps(x, x.flight.server, x.box)
BY ServerShape, PrefixFacts DEF Keeps, Sane, TabShape, Shows

LEMMA TabSane == ASSUME Inv, NEW t \in Tabs PROVE Sane(tab[t]) /\ TabShape(tab[t])
BY DEF Inv, Sane

(* Only what pump is to do changes.                                        *)
LEMMA SameGoes ==
    ASSUME NEW x, Sane(x), x.flight.open, NEW m, As(m, x, x.flight.server, x.box, x.call)
    PROVE  Goes(x, m)
<1>1. /\ TabShape(m) /\ m.page = x.page /\ m.who = x.who /\ m.device = x.device
      /\ m.box = x.box /\ m.stray = x.stray /\ m.call = x.call
      /\ m.flight.open /\ m.flight.server = x.flight.server /\ m.flight.edition = x.flight.edition
      /\ m.flight.giveUp \in {"none", x.flight.giveUp}
  BY DEF As
<1>2. x.flight.giveUp # "none" => x.who # None
  BY DEF Sane, Settings
<1>3. x.who = None => x.call.at = "none"
  BY DEF Sane, Settings
<1>4. Awaits(m)
  BY <1>1 DEF Sane, Awaits
<1> QED
  BY <1>1, <1>2, <1>3, <1>4, QuietGoes

LEMMA IdleGoes ==
    ASSUME Inv, NEW t \in Tabs, tab[t].flight.open, Idle(t)
    PROVE  \E m : Goes(tab[t], m) /\ tab' = [tab EXCEPT ![t] = m]
<1>1. PICK x : x = tab[t]
  OBVIOUS
<1>2. Sane(x) /\ TabShape(x)
  BY <1>1, TabSane
<1>3. PICK m : m = [x EXCEPT !.flight.due = FALSE]
  OBVIOUS
<1>4. As(x, x, x.flight.server, x.box, x.call)
  BY <1>1, <1>2, Itself
<1>5. As([x EXCEPT !.flight.due = FALSE], x, x.flight.server, x.box, x.call)
  BY <1>4 DEF As, TabShape, FlightShape
<1>6. Goes(x, m)
  BY <1>1, <1>2, <1>3, <1>5, SameGoes
<1> QED
  BY <1>1, <1>3, <1>6 DEF Idle, Put

(* A request started for the page's sentence names it.                     *)
LEMMA NamesNothingOlder ==
    ASSUME NEW x, Sane(x), x.call.at # "none"
    PROVE  /\ x.call.puzzle \in Nat /\ x.call.edition \in Nat /\ x.page \in Nat
           /\ x.call.puzzle <= x.call.edition /\ x.call.edition <= x.page
           /\ x.call.puzzle = x.page => x.call.edition = x.page
BY DEF Sane, Awaits, TabShape, CallShape, RequestShape, Editions

(* A request as the tab makes it.                                          *)
LEMMA CallFacts ==
    ASSUME NEW t \in Tabs, NEW x, x = tab[t], Sane(x), x.flight.open, x.who # None,
           NEW kind \in {"read", "giveUp", "append"}, NEW batch \in Logs, NEW at \in {"token", "sent"},
           NEW c, c = Call(t, kind, batch, at)
    PROVE  /\ RequestShape(c) /\ CallShape(c)
           /\ c.at = at /\ c.puzzle = x.page /\ c.edition = x.page /\ c.epoch = <<x.who, x.device>>
<1>1. /\ DOMAIN c = {"kind", "batch", "at", "puzzle", "edition", "epoch", "token", "answer"}
      /\ c.kind = kind /\ c.batch = batch /\ c.at = at
      /\ c.puzzle = x.flight.edition /\ c.edition = x.flight.edition
      /\ c.epoch = <<x.who, x.device>>
  BY DEF Call, Epoch
<1>2. x.who \in Accounts /\ x.device \in Nat /\ x.flight.edition = x.page /\ x.page \in Editions
  BY DEF Sane, TabShape, Settings
<1>3. c.epoch \in Accounts \X Nat
  BY <1>1, <1>2
<1>4. RequestShape(c)
  BY <1>1, <1>2, <1>3 DEF RequestShape, Editions
<1> QED
  BY <1>1, <1>2, <1>4 DEF CallShape

(* A request is sent, or its challenge is asked for.                       *)
AskedTab(x, c, g) == [x EXCEPT !.call = c, !.flight.giveUp = g, !.flight.due = FALSE]

LEMMA AskedGoes ==
    ASSUME NEW x, Sane(x), x.flight.open, x.who # None, NEW c, CallShape(c), c.at \in {"token", "sent"},
           c.edition = x.page, c.epoch = <<x.who, x.device>>, NEW g, g \in {x.flight.giveUp, "sent"}
    PROVE  Goes(x, AskedTab(x, c, g))
<1>1. PICK d : d = FALSE
  OBVIOUS
<1>2. PICK m : m = AskedTab(x, c, g)
  OBVIOUS
<1>3. TabShape(x) /\ x.page \in Nat /\ x.device \in Nat
  BY DEF Sane, TabShape, Editions
<1>4. PICK f : f = [x.flight EXCEPT !.giveUp = g, !.due = d]
  OBVIOUS
<1>5. /\ FlightShape(f) /\ f.open /\ f.edition = x.flight.edition
      /\ f.server = x.flight.server
  BY <1>3, <1>4 DEF TabShape, FlightShape
<1>6. m = [x EXCEPT !.call = c, !.flight = f]
  BY <1>1, <1>3, <1>4, <1>2 DEF TabShape, AskedTab
<1>7. /\ TabShape(m) /\ m.call = c /\ m.flight = f
      /\ m.page = x.page /\ m.who = x.who /\ m.device = x.device /\ m.box = x.box
      /\ m.stray = x.stray
  BY <1>3, <1>5, <1>6 DEF TabShape
<1>8. Awaits(m)
  <2>1. SaidTrue(c)
    BY DEF SaidTrue
  <2>2. c.epoch[1] = x.who /\ c.epoch[2] = x.device
    OBVIOUS
  <2> QED
    BY <1>3, <1>5, <1>7, <2>1, <2>2 DEF Awaits
<1> QED
  BY <1>5, <1>7, <1>8, <1>2, QuietGoes

LEMMA StartReadGoes ==
    ASSUME Inv, NEW t \in Tabs, tab[t].flight.open, tab[t].call.at = "none", StartRead(t)
    PROVE  \E m : Goes(tab[t], m) /\ tab' = [tab EXCEPT ![t] = m]
<1>1. PICK x : x = tab[t]
  OBVIOUS
<1>2. Sane(x) /\ TabShape(x) /\ x.flight.open
  BY <1>1, TabSane
<1>3. CASE x.who = None
  <2>1. EmptyServer \in Snapshots /\ x.flight.server = EmptyServer
    <3>1. Bare(x.flight.server) /\ x.flight.server \in Snapshots
      BY <1>2, <1>3, ServerShape DEF Sane, Settings
    <3> QED
      BY <3>1, BareIs
  <2>2. PICK y : y = Adopted(x, EmptyServer)
    OBVIOUS
  <2>3. As(y, x, x.flight.server, x.box, x.call)
    <3>1. As(x, x, x.flight.server, x.box, x.call)
      BY <1>2, Itself
    <3>2. As(Adopted(x, EmptyServer), x, EmptyServer, x.box, x.call)
      BY <2>1, <3>1, AdoptedAs
    <3> QED
      BY <2>1, <2>2, <3>2
  <2>4. PICK m : m = [y EXCEPT !.flight.created = FALSE, !.flight.readDone = TRUE]
    OBVIOUS
  <2>5. As([y EXCEPT !.flight.created = FALSE, !.flight.readDone = TRUE], x, x.flight.server, x.box, x.call)
    BY <2>3 DEF As, TabShape, FlightShape
  <2>6. Goes(x, m)
    BY <1>2, <2>4, <2>5, SameGoes
  <2> QED
    BY <1>1, <1>3, <2>2, <2>4, <2>6 DEF StartRead, Put
<1>4. CASE x.who # None
  <2>1. PICK c : c = Call(t, "read", <<>>, "sent")
    OBVIOUS
  <2>2. CallShape(c) /\ c.at = "sent" /\ c.edition = x.page /\ c.epoch = <<x.who, x.device>>
    <3>1. <<>> \in Logs
      BY DEF Logs
    <3> QED
      BY <1>1, <1>2, <1>4, <2>1, <3>1, CallFacts
  <2>3. PICK g : g = x.flight.giveUp
    OBVIOUS
  <2>4. PICK m : m = AskedTab(x, c, g)
    OBVIOUS
  <2>5. Goes(x, m)
    BY <1>2, <1>4, <2>2, <2>3, <2>4, AskedGoes
  <2>6. m = [x EXCEPT !.call = c, !.flight.due = FALSE]
    BY <1>2, <2>3, <2>4 DEF TabShape, FlightShape, AskedTab
  <2> QED
    BY <1>1, <1>4, <2>1, <2>5, <2>6 DEF StartRead, Put
<1> QED
  BY <1>3, <1>4

LEMMA StartGiveUpGoes ==
    ASSUME Inv, NEW t \in Tabs, tab[t].flight.open, tab[t].call.at = "none", StartGiveUp(t)
    PROVE  \E m : Goes(tab[t], m) /\ tab' = [tab EXCEPT ![t] = m]
<1>1. PICK x : x = tab[t]
  OBVIOUS
<1>2. Sane(x) /\ TabShape(x) /\ x.flight.open
  BY <1>1, TabSane
<1>3. x.who # None
  BY <1>1, <1>2 DEF StartGiveUp, MayGiveUp, Sane, Settings
<1>4. PICK c : c = Call(t, "giveUp", <<>>, "sent")
  OBVIOUS
<1>5. CallShape(c) /\ c.at = "sent" /\ c.edition = x.page /\ c.epoch = <<x.who, x.device>>
  <2>1. <<>> \in Logs
    BY DEF Logs
  <2> QED
    BY <1>1, <1>2, <1>3, <1>4, <2>1, CallFacts
<1>6. PICK m : m = AskedTab(x, c, "sent")
  OBVIOUS
<1>7. Goes(x, m)
  BY <1>2, <1>3, <1>5, <1>6, AskedGoes
<1> QED
  BY <1>1, <1>4, <1>6, <1>7 DEF StartGiveUp, Put, AskedTab

(* Nothing is sent for nobody, nor for a round that is full: its board is  *)
(* over, and what it owed is dropped.                                      *)
LEMMA StartAppendGoes ==
    ASSUME Inv, NEW t \in Tabs, tab[t].flight.open, tab[t].call.at = "none", StartAppend(t)
    PROVE  \E m : Goes(tab[t], m) /\ tab' = [tab EXCEPT ![t] = m]
<1>1. PICK x : x = tab[t]
  OBVIOUS
<1>2. Sane(x) /\ TabShape(x) /\ x.flight.open /\ x.call.at = "none"
  BY <1>1, TabSane
<1>3. PICK owed : owed = Pending(x)
  OBVIOUS
<1>4. PICK s : s = x.flight.server
  OBVIOUS
<1>5. s \in Snapshots /\ s.log \in Logs /\ x.page = x.flight.edition
  BY <1>2, <1>4, ServerShape DEF Sane, Settings
<1>6. owed \in Logs
  BY <1>2, <1>3 DEF Pending, TabShape, BoxShape, Logs
<1>7. PICK room : room = Cap - Len(s.log)
  OBVIOUS
<1>8. CASE owed = <<>> \/ x.who = None
  BY <1>1, <1>2, <1>3, <1>8, IdleGoes DEF StartAppend
<1>9. CASE owed # <<>> /\ x.who # None /\ room = 0
  <2>1. Over(s)
    BY <1>5, <1>7, <1>9, BoundsAssumption DEF Over, Full, Logs
  <2>2. As(x, x, s, x.box, x.call)
    BY <1>2, <1>4, Itself
  <2>3. PICK b : BoxShape(b) /\ b.edition \in {0, x.box.edition} /\ As(Discarded(x), x, s, b, x.call)
    BY <2>2, DiscardedAs
  <2>4. As(Closed(Discarded(x)), x, s, b, x.call)
    BY <2>3, ClosedAs
  <2>5. PICK m : m = Closed(Discarded(x))
    OBVIOUS
  <2>6. Keeps(x, s, b)
    BY <1>2, <1>4, <1>9, <2>1, <2>3, KeepsSame DEF Keeps
  <2>7. Goes(x, m)
    BY <1>2, <1>9, <2>4, <2>5, <2>6, AsGoes
  <2>8. tab' = [tab EXCEPT ![t] = m]
    BY <1>1, <1>3, <1>4, <1>7, <1>9, <2>5 DEF StartAppend, Put
  <2> QED
    BY <1>1, <2>7, <2>8
<1>10. CASE owed # <<>> /\ x.who # None /\ room # 0
  <2>1. PICK fits : fits = SubSeq(owed, 1, IF Len(owed) < room THEN Len(owed) ELSE room)
    OBVIOUS
  <2>2. PICK at : at = IF x.flight.created THEN "sent" ELSE "token"
    OBVIOUS
  <2>3. PICK c : c = Call(t, "append", fits, at)
    OBVIOUS
  <2>4. CallShape(c) /\ c.at = at /\ c.edition = x.page /\ c.epoch = <<x.who, x.device>>
    <3>1. fits \in Logs
      BY <1>5, <1>6, <1>7, <2>1, BoundsAssumption DEF Logs
    <3> QED
      BY <1>1, <1>2, <1>10, <2>2, <2>3, <3>1, CallFacts
  <2>5. PICK g : g = x.flight.giveUp
    OBVIOUS
  <2>6. PICK m : m = AskedTab(x, c, g)
    OBVIOUS
  <2>7. Goes(x, m)
    BY <1>2, <1>10, <2>2, <2>4, <2>5, <2>6, AskedGoes
  <2>8. m = [x EXCEPT !.call = c, !.flight.due = FALSE]
    BY <1>2, <2>5, <2>6 DEF TabShape, FlightShape, AskedTab
  <2>9. tab' = [tab EXCEPT ![t] = [x EXCEPT !.call = c, !.flight.due = FALSE]]
    BY <1>1, <1>3, <1>4, <1>7, <1>10, <2>1, <2>2, <2>3 DEF StartAppend, Put
  <2> QED
    BY <1>1, <2>7, <2>8, <2>9
<1> QED
  BY <1>8, <1>9, <1>10

LEMMA PumpGoes ==
    ASSUME Inv, NEW t \in Tabs, Pump(t)
    PROVE  \E m : Goes(tab[t], m) /\ tab' = [tab EXCEPT ![t] = m]
<1>1. tab[t].flight.open
  BY DEF Pump
<1>2. CASE tab[t].flight.closed \/ tab[t].call.at # "none"
  BY <1>1, <1>2, IdleGoes DEF Pump
<1>3. CASE ~(tab[t].flight.closed \/ tab[t].call.at # "none")
  BY <1>1, <1>3, StartReadGoes, StartGiveUpGoes, StartAppendGoes DEF Pump
<1> QED
  BY <1>2, <1>3

-----------------------------------------------------------------------------
(* The landing of an answer.                                               *)

LEMMA LandsGoes ==
    ASSUME NEW t \in Tabs, NEW x, x = tab[t], Sane(x), x.flight.open, x.who # None,
           NEW y, NEW s, NEW b, NEW c, As(y, x, s, b, c), Keeps(x, s, b), Landed(t, y)
    PROVE  \E m : Goes(tab[t], m) /\ tab' = [tab EXCEPT ![t] = m]
<1>1. PICK m : m = LandedTab(y)
  OBVIOUS
<1>2. As(m, x, s, b, NoCall)
  BY <1>1, LandedAs
<1>3. NoCall.at = "none"
  BY DEF NoCall
<1>4. Goes(x, m)
  BY <1>2, <1>3, AsGoes
<1> QED
  BY <1>1, <1>4 DEF Landed, Put, LandedTab

(* The answer to a request of this page and identity.                      *)
Answered(x) ==
    /\ Sane(x) /\ x.flight.open /\ x.who # None
    /\ x.call.at = "answered"
    /\ x.call.puzzle = x.page /\ x.call.edition = x.page
    /\ x.call.epoch[1] = x.who /\ x.call.epoch[2] = x.device

LEMMA AnswerKeeps ==
    ASSUME NEW x, Answered(x), x.call.answer.status \in Shown3,
           NEW b, BoxShape(b), b.edition \in {0, x.box.edition},
           \/ Owed(x.box, x.page) \subseteq Owed(b, x.page) \cup Identities(x.call.answer.state.log)
           \/ Over(x.call.answer.state)
    PROVE  Keeps(x, x.call.answer.state, b)
<1>1. x.call.answer.state \in Snapshots
  BY DEF Answered, Sane, TabShape, CallShape, RequestShape, Fits
<1>2. Told(x.call.answer.state, x.who, x.page)
  BY DEF Answered, Sane, Awaits, SaidTrue
<1>3. x.page = published => IsPrefix(x.flight.server.log, x.call.answer.state.log)
  BY DEF Answered, Sane, Newer
<1> QED
  BY <1>1, <1>2, <1>3 DEF Keeps, Snapshots

LEMMA NotFoundKeeps ==
    ASSUME NEW x, Answered(x), x.call.answer.status = "not_found"
    PROVE  Keeps(x, EmptyServer, x.box)
<1>1. EmptyServer.log = <<>> /\ <<>> \in Logs /\ Bare(EmptyServer)
  BY DEF EmptyServer, Logs, Bare
<1>2. x.page = published => x.flight.server.log = <<>>
  BY DEF Answered, Sane, Newer
<1>3. IsPrefix(<<>>, <<>>)
  BY <1>1, PrefixFacts
<1> QED
  BY <1>1, <1>2, <1>3 DEF Keeps, Told, Answered, Sane, TabShape

(* What is true of any landing that found no new state.                    *)
LEMMA FailedLands ==
    ASSUME NEW t \in Tabs, NEW x, x = tab[t], Sane(x), x.flight.open, x.who # None,
           \/ Landed(t, x)
           \/ Landed(t, Replied(x))
           \/ Landed(t, Closed(x))
           \/ Landed(t, Closed(Replied(x)))
           \/ Landed(t, Resynced(x))
           \/ Landed(t, FailedLoad(Replied(x)))
    PROVE  \E m : Goes(tab[t], m) /\ tab' = [tab EXCEPT ![t] = m]
<1>1. PICK s, b, c : s = x.flight.server /\ b = x.box /\ c = x.call
  OBVIOUS
<1>2. Keeps(x, s, b)
  BY <1>1, KeepsSame
<1>3. As(x, x, s, b, c)
  BY <1>1, Itself DEF Sane
<1>4. As(Replied(x), x, s, b, c)
  BY <1>3, RepliedAs
<1>5. As(Closed(x), x, s, b, c) /\ As(Closed(Replied(x)), x, s, b, c)
  BY <1>3, <1>4, ClosedAs
<1>6. As(Resynced(x), x, s, b, c) /\ As(FailedLoad(Replied(x)), x, s, b, c)
  BY <1>3, <1>4, ResyncedAs
<1> QED
  BY <1>2, <1>3, <1>4, <1>5, <1>6, LandsGoes

(* An answer that ends the round: what is owed is dropped.                 *)
LEMMA EndLands ==
    ASSUME NEW t \in Tabs, NEW x, x = tab[t], Answered(x), x.call.answer.status \in Shown3,
           Over(x.call.answer.state),
           NEW y, As(y, x, x.call.answer.state, x.box, x.call), Landed(t, Closed(Discarded(y)))
    PROVE  \E m : Goes(tab[t], m) /\ tab' = [tab EXCEPT ![t] = m]
<1>1. PICK s, c : s = x.call.answer.state /\ c = x.call
  OBVIOUS
<1>2. PICK b : BoxShape(b) /\ b.edition \in {0, x.box.edition} /\ As(Discarded(y), x, s, b, c)
  BY <1>1, DiscardedAs
<1>3. As(Closed(Discarded(y)), x, s, b, c)
  BY <1>2, ClosedAs
<1>4. Keeps(x, s, b)
  BY <1>1, <1>2, AnswerKeeps
<1> QED
  BY <1>3, <1>4, LandsGoes DEF Answered

(* An answer of a round that goes on: what it holds is owed no more.       *)
LEMMA SettleLands ==
    ASSUME NEW t \in Tabs, NEW x, x = tab[t], Answered(x), x.call.answer.status \in Shown3,
           NEW y, As(y, x, x.call.answer.state, x.box, x.call),
           \/ Landed(t, y)
           \/ Landed(t, SettledBox(y))
           \/ Landed(t, Replied(SettledBox(y)))
    PROVE  \E m : Goes(tab[t], m) /\ tab' = [tab EXCEPT ![t] = m]
<1>1. PICK s, c : s = x.call.answer.state /\ c = x.call
  OBVIOUS
<1>2. x.flight.edition = x.page /\ BoxShape(x.box)
  BY DEF Answered, Sane, Settings, TabShape
<1>3. PICK b : /\ BoxShape(b) /\ b.edition \in {0, x.box.edition}
               /\ As(SettledBox(y), x, s, b, c)
               /\ Owed(x.box, x.page) \subseteq Owed(b, x.page) \cup Identities(s.log)
  BY <1>1, <1>2, SettledAs
<1>4. As(Replied(SettledBox(y)), x, s, b, c)
  BY <1>3, RepliedAs
<1>5. Keeps(x, s, b) /\ Keeps(x, s, x.box)
  BY <1>1, <1>2, <1>3, AnswerKeeps
<1> QED
  BY <1>1, <1>3, <1>4, <1>5, LandsGoes DEF Answered

(* The read answers with the round, or with none stored.                   *)
LEMMA ReadLandsGoes ==
    ASSUME NEW t \in Tabs, NEW x, x = tab[t], Answered(x),
           x.call.answer.status \in {"ok", "not_found"}, ReadLands(t, x.call.answer)
    PROVE  \E m : Goes(tab[t], m) /\ tab' = [tab EXCEPT ![t] = m]
<1>1. PICK answer, c, b : answer = x.call.answer /\ c = x.call /\ b = x.box
  OBVIOUS
<1>2. As(x, x, x.flight.server, b, c)
  BY <1>1, Itself DEF Answered, Sane
<1>3. CASE answer.status = "ok"
  <2>1. answer.state \in Snapshots
    BY <1>1, <1>3 DEF Answered, Sane, TabShape, CallShape, RequestShape, Fits, Shown3
  <2>2. PICK y : y = [Shown(x, answer) EXCEPT !.flight.readDone = TRUE]
    OBVIOUS
  <2>3. As(y, x, answer.state, b, c)
    <3>1. PICK z : z = Shown(x, answer)
      OBVIOUS
    <3>2. As(z, x, answer.state, b, c)
      BY <1>2, <2>1, <3>1, ShownAs
    <3> QED
      BY <2>2, <3>1, <3>2 DEF As, TabShape, FlightShape
  <2>4. CASE Ended(answer.state)
    <3>1. Landed(t, Closed(Discarded(y)))
      BY <1>1, <1>3, <2>2, <2>4 DEF ReadLands
    <3>2. Over(answer.state)
      BY <2>4 DEF Over, Ended
    <3> QED
      BY <1>1, <1>3, <2>3, <3>1, <3>2, EndLands DEF Shown3
  <2>5. CASE ~Ended(answer.state)
    <3>1. Landed(t, SettledBox(y)) \/ Landed(t, Replied(SettledBox(y)))
      BY <1>1, <1>3, <2>2, <2>5 DEF ReadLands
    <3> QED
      BY <1>1, <1>3, <2>3, <3>1, SettleLands DEF Shown3
  <2> QED
    BY <2>4, <2>5
<1>4. CASE answer.status = "not_found"
  <2>1. PICK y : y = [Adopted(x, EmptyServer) EXCEPT !.flight.created = FALSE, !.flight.readDone = TRUE]
    OBVIOUS
  <2>2. As(y, x, EmptyServer, b, c)
    <3>1. PICK z : z = Adopted(x, EmptyServer)
      OBVIOUS
    <3>2. EmptyServer \in Snapshots
      BY DEF EmptyServer, Snapshots, Logs
    <3>3. As(z, x, EmptyServer, b, c)
      BY <1>2, <3>1, <3>2, AdoptedAs
    <3> QED
      BY <2>1, <3>1, <3>3 DEF As, TabShape, FlightShape
  <2>3. As(Replied(y), x, EmptyServer, b, c)
    BY <2>2, RepliedAs
  <2>4. Landed(t, y) \/ Landed(t, Replied(y))
    BY <1>1, <1>4, <2>1 DEF ReadLands
  <2>5. Keeps(x, EmptyServer, b)
    BY <1>1, <1>4, NotFoundKeeps
  <2> QED
    BY <2>2, <2>3, <2>4, <2>5, LandsGoes DEF Answered
<1> QED
  BY <1>1, <1>3, <1>4

(* The give-up answers with a round that is over, or changes nothing.      *)
LEMMA GiveUpLandsGoes ==
    ASSUME NEW t \in Tabs, NEW x, x = tab[t], Answered(x), x.call.kind = "giveUp",
           x.call.answer.status # "unknown_device", GiveUpLands(t, x.call.answer)
    PROVE  \E m : Goes(tab[t], m) /\ tab' = [tab EXCEPT ![t] = m]
<1>1. PICK answer, c, b : answer = x.call.answer /\ c = x.call /\ b = x.box
  OBVIOUS
<1>2. Fits("giveUp", answer)
  BY <1>1 DEF Answered, Sane, TabShape, CallShape, RequestShape
<1>3. CASE answer.status \in {"ok", "refused"}
  <2>1. answer.state \in Snapshots /\ Ended(answer.state)
    BY <1>1, <1>2, <1>3 DEF Fits, Shown3
  <2>2. PICK y : y = Adopted(x, answer.state)
    OBVIOUS
  <2>3. As(y, x, answer.state, b, c)
    <3>1. As(x, x, x.flight.server, b, c)
      BY <1>1, Itself DEF Answered, Sane
    <3> QED
      BY <2>1, <2>2, <3>1, AdoptedAs
  <2>4. Landed(t, Closed(Discarded(y)))
    BY <1>1, <1>3, <2>1, <2>2 DEF GiveUpLands
  <2>5. Over(answer.state)
    BY <2>1 DEF Over, Ended
  <2> QED
    BY <1>1, <1>3, <2>3, <2>4, <2>5, EndLands DEF Shown3
<1>4. CASE answer.status \in {"puzzle_changed", "not_found"}
  <2>1. Landed(t, Closed(Replied(x))) \/ Landed(t, Replied(x))
    BY <1>1, <1>4 DEF GiveUpLands
  <2> QED
    BY <2>1, FailedLands DEF Answered
<1> QED
  BY <1>1, <1>2, <1>3, <1>4 DEF Fits

(* The append answers with the round it made, or with the round that       *)
(* refused it; one that was not heard changes nothing on screen.           *)
LEMMA AppendLandsGoes ==
    ASSUME NEW t \in Tabs, NEW x, x = tab[t], Answered(x), x.call.kind = "append",
           x.call.answer.status # "unknown_device", AppendLands(t, x.call.answer)
    PROVE  \E m : Goes(tab[t], m) /\ tab' = [tab EXCEPT ![t] = m]
<1>1. PICK answer, c, b : answer = x.call.answer /\ c = x.call /\ b = x.box
  OBVIOUS
<1>2. Fits("append", answer)
  BY <1>1 DEF Answered, Sane, TabShape, CallShape, RequestShape
<1>3. CASE answer.status \in Shown3
  <2>1. answer.state \in Snapshots
    BY <1>2, <1>3 DEF Fits
  <2>2. PICK y : y = Shown(x, answer)
    OBVIOUS
  <2>3. As(y, x, answer.state, b, c)
    <3>1. As(x, x, x.flight.server, b, c)
      BY <1>1, Itself DEF Answered, Sane
    <3> QED
      BY <2>1, <2>2, <3>1, ShownAs
  <2>4. PICK over : over = (Ended(answer.state) \/ (answer.status = "refused" /\ Full(answer.state.log)))
    OBVIOUS
  <2>5. CASE over
    <3>1. Landed(t, Closed(Discarded(y)))
      BY <1>1, <1>3, <2>2, <2>4, <2>5 DEF AppendLands, Shown3
    <3>2. Over(answer.state)
      BY <2>4, <2>5 DEF Over, Ended
    <3> QED
      BY <1>1, <1>3, <2>3, <3>1, <3>2, EndLands
  <2>6. CASE ~over
    <3>1. Landed(t, SettledBox(y)) \/ Landed(t, y)
      BY <1>1, <1>3, <2>2, <2>4, <2>6 DEF AppendLands, Shown3
    <3> QED
      BY <1>1, <1>3, <2>3, <3>1, SettleLands
  <2> QED
    BY <2>5, <2>6
<1>4. CASE answer.status \in {"puzzle_changed", "forbidden"}
  <2>1. Landed(t, Closed(x))
    BY <1>1, <1>4 DEF AppendLands
  <2> QED
    BY <2>1, FailedLands DEF Answered
<1> QED
  BY <1>1, <1>2, <1>3, <1>4 DEF Fits

LEMMA FreshFacts ==
    ASSUME NEW e \in Editions
    PROVE  /\ FlightShape(Fresh(e)) /\ Fresh(e).open /\ Fresh(e).edition = e
           /\ Fresh(e).giveUp = "none" /\ ~Fresh(e).settled /\ Bare(Fresh(e).server)
<1>1. EmptyServer \in Snapshots /\ Bare(EmptyServer)
  BY DEF EmptyServer, Snapshots, Logs, Bare
<1>2. PICK f : f = Fresh(e)
  OBVIOUS
<1>3. f.server = EmptyServer
  BY <1>2 DEF Fresh
<1> QED
  BY <1>1, <1>2, <1>3 DEF Fresh, FlightShape

LEMMA NoFacts ==
    /\ FlightShape(NoFlight) /\ ~NoFlight.open /\ NoFlight.giveUp = "none"
    /\ BoxShape(NoBox) /\ NoBox.edition = 0
    /\ CallShape(NoCall) /\ NoCall.at = "none"
BY DEF FlightShape, NoFlight, BoxShape, NoBox, Logs, CallShape, NoCall

(* An account that is left takes everything with it but a request that is  *)
(* under way.                                                              *)
LEMMA LeftFacts ==
    ASSUME NEW x, Sane(x), NEW who \in Accounts \cup {None}, NEW device \in Nat,
           NEW m, m = Left(x, who, device)
    PROVE  /\ TabShape(m) /\ Blank(m)
           /\ m.page = x.page /\ m.who = who /\ m.device = device
           /\ m.box = NoBox /\ m.call = NoCall
           /\ m.stray = x.stray \/ (m.stray = x.call /\ x.call.at \in {"sent", "answered"})
<1>1. TabShape(x) /\ x.page \in Editions
  BY DEF Sane, TabShape
<1>2. PICK y : y = Replied(x)
  OBVIOUS
<1>3. /\ DOMAIN y = DOMAIN x /\ y.page = x.page /\ y.stray = x.stray
  BY <1>1, <1>2 DEF Replied, TabShape
<1>4. PICK f : f = IF x.on THEN Fresh(x.page) ELSE NoFlight
  OBVIOUS
<1>5. /\ FlightShape(f) /\ f.giveUp = "none"
      /\ f.open => Bare(f.server) /\ ~f.settled /\ f.edition = x.page
  BY <1>1, <1>4, FreshFacts, NoFacts
<1>6. PICK z : z = IF x.call.at \in {"sent", "answered"} THEN x.call ELSE y.stray
  OBVIOUS
<1>7. CallShape(z) /\ (z = x.stray \/ (z = x.call /\ x.call.at \in {"sent", "answered"}))
  BY <1>1, <1>3, <1>6 DEF TabShape
<1>8. m = [y EXCEPT !.who = who, !.device = device, !.box = NoBox, !.call = NoCall,
                    !.stray = z, !.flight = f]
  BY <1>2, <1>4, <1>6 DEF Left
<1>9. /\ DOMAIN m = DOMAIN x
      /\ m.page = x.page /\ m.who = who /\ m.device = device
      /\ m.box = NoBox /\ m.call = NoCall /\ m.stray = z /\ m.flight = f
  BY <1>1, <1>3, <1>8 DEF TabShape
<1>10. TabShape(m)
  BY <1>1, <1>5, <1>7, <1>9, NoFacts DEF TabShape
<1> QED
  BY <1>5, <1>7, <1>9, <1>10 DEF Blank

LEMMA SignedOutGoes ==
    ASSUME NEW t \in Tabs, NEW x, x = tab[t], Sane(x), x.who # None, SignedOut(t)
    PROVE  \E m : Goes(tab[t], m) /\ tab' = [tab EXCEPT ![t] = m]
<1>1. PICK y : y = Left(x, None, x.device)
  OBVIOUS
<1>2. /\ TabShape(y) /\ Blank(y)
      /\ y.page = x.page /\ y.who = None /\ y.device = x.device
      /\ y.box = NoBox /\ y.call = NoCall
  BY <1>1, LeftFacts DEF Sane, TabShape
<1>3. PICK m : m = [y EXCEPT !.stray = NoCall]
  OBVIOUS
<1>4. /\ TabShape(m) /\ Blank(m)
      /\ m.page = x.page /\ m.who = None /\ m.device = x.device
      /\ m.box = NoBox /\ m.call = NoCall /\ m.stray = NoCall
  BY <1>2, <1>3, NoFacts DEF TabShape, Blank
<1>5. Awaits(m) /\ Strays(m)
  BY <1>4, NoFacts DEF Awaits, Strays
<1>6. x.page \in Nat /\ x.page <= published /\ x.device \in Nat
  BY DEF Sane, Settings, TabShape, Editions
<1>7. Goes(x, m)
  BY <1>4, <1>5, <1>6, NoFacts, AnewGoes
<1> QED
  BY <1>1, <1>3, <1>7 DEF SignedOut, Put

LEMMA LandGoes ==
    ASSUME Inv, NEW t \in Tabs, Land(t)
    PROVE  \E m : Goes(tab[t], m) /\ tab' = [tab EXCEPT ![t] = m]
<1>1. PICK x, c : x = tab[t] /\ c = x.call
  OBVIOUS
<1>2. Sane(x) /\ c.at \in {"answered", "failed"}
  BY <1>1, TabSane DEF Land
<1>3. x.flight.open /\ x.who # None /\ x.flight.edition = x.page
  BY <1>1, <1>2 DEF Sane, Awaits, Settings
<1>4. CASE Superseded(t, c)
  <2>1. Landed(t, x)
    BY <1>1, <1>4 DEF Land
  <2> QED
    BY <1>1, <1>2, <1>3, <2>1, FailedLands
<1>5. CASE ~Superseded(t, c)
  <2>1. c.puzzle = x.page /\ c.edition = x.page /\ c.epoch[1] = x.who /\ c.epoch[2] = x.device
    <3>1. c.puzzle = x.page /\ c.epoch[1] = x.who /\ c.epoch[2] = x.device
      BY <1>1, <1>3, <1>5 DEF Superseded, Epoch
    <3> QED
      BY <1>1, <1>2, <3>1, NamesNothingOlder
  <2>2. RequestShape(c)
    BY <1>1, <1>2 DEF Sane, TabShape, CallShape
  <2>3. CASE c.at = "failed"
    <3>1. PICK answer : answer = Verdict("failed")
      OBVIOUS
    <3>2. answer.status = "failed"
      BY <3>1 DEF Verdict
    <3>3. \/ c.kind = "read" /\ ReadLands(t, answer)
          \/ c.kind = "giveUp" /\ GiveUpLands(t, answer)
          \/ c.kind = "append" /\ AppendLands(t, answer)
      BY <1>1, <1>5, <2>2, <2>3, <3>1, <3>2 DEF Land, RequestShape
    <3>4. Landed(t, FailedLoad(Replied(x))) \/ Landed(t, Resynced(x))
      BY <1>1, <3>2, <3>3 DEF ReadLands, GiveUpLands, AppendLands
    <3> QED
      BY <1>1, <1>2, <1>3, <3>4, FailedLands
  <2>4. CASE c.at = "answered"
    <3>1. Answered(x)
      BY <1>1, <1>2, <1>3, <2>1, <2>4 DEF Answered
    <3>2. CASE c.answer.status = "unknown_device"
      <4>1. SignedOut(t)
        BY <1>1, <1>5, <2>4, <3>2 DEF Land
      <4> QED
        BY <1>1, <1>2, <1>3, <4>1, SignedOutGoes
    <3>3. CASE c.answer.status # "unknown_device"
      <4>1. \/ c.kind = "read" /\ ReadLands(t, c.answer)
            \/ c.kind = "giveUp" /\ GiveUpLands(t, c.answer)
            \/ c.kind = "append" /\ AppendLands(t, c.answer)
        BY <1>1, <1>5, <2>2, <2>4, <3>3 DEF Land, RequestShape
      <4>2. c.kind = "read" => c.answer.status \in {"ok", "not_found"}
        BY <2>2, <2>4, <3>3 DEF RequestShape, Fits
      <4> QED
        BY <1>1, <3>1, <3>3, <4>1, <4>2, ReadLandsGoes, GiveUpLandsGoes, AppendLandsGoes
    <3> QED
      BY <3>2, <3>3
  <2> QED
    BY <1>2, <2>3, <2>4
<1> QED
  BY <1>4, <1>5

(* A request that moves on, or that failed.                                *)
LEMMA AtGoes ==
    ASSUME NEW t \in Tabs, NEW x, x = tab[t], Sane(x), x.call.at # "none", NEW at \in {"sent", "failed"},
           NEW m, m = [x EXCEPT !.call.at = at]
    PROVE  Goes(x, m)
<1>1. TabShape(x) /\ RequestShape(x.call)
  BY DEF Sane, TabShape, CallShape
<1>2. PICK c : c = [x.call EXCEPT !.at = at]
  OBVIOUS
<1>3. RequestShape(c) /\ c.at = at /\ c.edition = x.call.edition /\ c.epoch = x.call.epoch
  BY <1>1, <1>2 DEF RequestShape
<1>4. m = [x EXCEPT !.call = c]
  BY <1>1, <1>2 DEF TabShape
<1>5. /\ TabShape(m) /\ m.call = c
      /\ m.page = x.page /\ m.who = x.who /\ m.device = x.device /\ m.box = x.box
      /\ m.stray = x.stray /\ m.flight = x.flight
  BY <1>1, <1>3, <1>4 DEF TabShape, CallShape
<1>6. Awaits(m)
  BY <1>3, <1>5 DEF Sane, Awaits, SaidTrue
<1>7. x.who # None /\ x.flight.open /\ (x.flight.giveUp # "none" => x.flight.open)
  BY DEF Sane, Settings, Awaits
<1> QED
  BY <1>3, <1>5, <1>6, <1>7, QuietGoes

(* A batch is sent for the sentence the conversation is about by then.     *)
NamedTab(x) == [x EXCEPT !.call.at = "sent", !.call.edition = x.flight.edition]

LEMMA NamedFacts ==
    ASSUME NEW x, Sane(x), x.call.at = "token", NEW m, m = NamedTab(x)
    PROVE  /\ TabShape(m) /\ RequestShape(m.call)
           /\ m.call.at = "sent" /\ m.call.edition = x.page
           /\ m.call.puzzle = x.call.puzzle /\ m.call.epoch = x.call.epoch
           /\ m.call.kind = x.call.kind /\ m.call.batch = x.call.batch
           /\ m.page = x.page /\ m.who = x.who /\ m.device = x.device /\ m.box = x.box
           /\ m.stray = x.stray /\ m.flight = x.flight
<1>1. /\ TabShape(x) /\ RequestShape(x.call)
      /\ x.flight.edition = x.page /\ x.page \in Editions
  BY DEF Sane, TabShape, CallShape, Awaits, Settings
<1>2. PICK c : c = [x.call EXCEPT !.at = "sent", !.edition = x.page]
  OBVIOUS
<1>3. /\ DOMAIN c = DOMAIN x.call /\ c.at = "sent" /\ c.edition = x.page
      /\ c.puzzle = x.call.puzzle /\ c.epoch = x.call.epoch
      /\ c.kind = x.call.kind /\ c.batch = x.call.batch
  BY <1>1, <1>2 DEF RequestShape
<1>4. RequestShape(c)
  <2>1. c.puzzle <= c.edition
    BY <1>3, NamesNothingOlder
  <2> QED
    BY <1>1, <1>3, <2>1 DEF RequestShape
<1>5. m = [x EXCEPT !.call = c]
  BY <1>1, <1>2 DEF TabShape, NamedTab
<1> QED
  BY <1>1, <1>3, <1>4, <1>5 DEF TabShape, CallShape

LEMMA ChallengedGoes ==
    ASSUME Inv, NEW t \in Tabs, Challenged(t)
    PROVE  \E m : Goes(tab[t], m) /\ tab' = [tab EXCEPT ![t] = m]
<1>1. PICK x : x = tab[t]
  OBVIOUS
<1>2. Sane(x) /\ x.call.at = "token" /\ x.flight.open /\ x.who # None
  BY <1>1, TabSane DEF Challenged, Sane, Awaits, Settings
<1>3. CASE Epoch(t) # tab[t].call.epoch
  BY <1>1, <1>2, <1>3, FailedLands DEF Challenged
<1>4. CASE Epoch(t) = tab[t].call.epoch
  <2>1. PICK m : m = NamedTab(x)
    OBVIOUS
  <2>2. /\ TabShape(m) /\ RequestShape(m.call)
        /\ m.call.at = "sent" /\ m.call.edition = x.page /\ m.call.epoch = x.call.epoch
        /\ m.page = x.page /\ m.who = x.who /\ m.device = x.device /\ m.box = x.box
        /\ m.stray = x.stray /\ m.flight = x.flight
    BY <1>2, <2>1, NamedFacts
  <2>3. Awaits(m)
    BY <1>2, <2>2 DEF Sane, Awaits, SaidTrue, TabShape, Editions
  <2>4. x.flight.giveUp # "none" => x.flight.open
    BY <1>2 DEF Sane, Settings
  <2>5. Goes(x, m)
    BY <1>2, <2>2, <2>3, <2>4, QuietGoes
  <2> QED
    BY <1>1, <1>4, <2>1, <2>5 DEF Challenged, Put, NamedTab
<1> QED
  BY <1>3, <1>4

(* The request of an identity that was left lands nowhere.                 *)
LEMMA StrayLandsGoes ==
    ASSUME Inv, NEW t \in Tabs, StrayLands(t)
    PROVE  \E m : Goes(tab[t], m) /\ tab' = [tab EXCEPT ![t] = m]
<1>1. PICK x, c : x = tab[t] /\ c = x.stray
  OBVIOUS
<1>2. Sane(x) /\ c.at = "answered"
  BY <1>1, TabSane DEF StrayLands
<1>3. Superseded(t, c)
  <2>1. c.epoch[2] # x.device
    BY <1>1, <1>2 DEF Sane, Strays, TabShape, CallShape, RequestShape
  <2> QED
    BY <1>1, <2>1 DEF Superseded, Epoch
<1>4. PICK m : m = [x EXCEPT !.stray = NoCall]
  OBVIOUS
<1>5. tab' = [tab EXCEPT ![t] = m]
  BY <1>1, <1>3, <1>4 DEF StrayLands, Put
<1>6. /\ TabShape(m) /\ m.call = x.call /\ m.stray = NoCall
      /\ m.page = x.page /\ m.who = x.who /\ m.device = x.device /\ m.box = x.box
      /\ m.flight = x.flight
  BY <1>2, <1>4, NoFacts DEF Sane, TabShape
<1>7. Awaits(m) /\ (x.who = None => x.call.at = "none")
      /\ (x.flight.giveUp # "none" => x.flight.open /\ x.who # None)
  BY <1>2, <1>6 DEF Sane, Awaits, Settings
<1>8. Goes(x, m)
  BY <1>2, <1>6, <1>7, QuietGoes
<1> QED
  BY <1>1, <1>5, <1>8

-----------------------------------------------------------------------------
(* What the player and the environment do to a tab.                        *)

LEMMA MountedFacts ==
    ASSUME NEW x, TabShape(x), NEW e \in Editions, NEW m, m = Mounted(x, e)
    PROVE  /\ TabShape(m)
           /\ m.page = e /\ m.who = x.who /\ m.device = x.device
           /\ m.call = x.call /\ m.stray = x.stray
           /\ m.box.edition \in {0, e}
           /\ Owed(x.box, e) \subseteq Owed(m.box, e)
           /\ \/ m.flight = Fresh(e)
              \/ /\ x.flight.open /\ x.flight.edition = e
                 /\ m.flight.open /\ m.flight.edition = e
                 /\ m.flight.server = x.flight.server /\ m.flight.giveUp = x.flight.giveUp
<1>1. PICK box : box = IF x.box.edition \in {0, e} THEN x.box ELSE NoBox
  OBVIOUS
<1>2. /\ BoxShape(box) /\ box.edition \in {0, e}
      /\ Owed(x.box, e) \subseteq Owed(box, e)
  <2>1. CASE x.box.edition \in {0, e}
    BY <1>1, <2>1 DEF TabShape
  <2>2. CASE x.box.edition \notin {0, e}
    BY <1>1, <2>2, NoFacts DEF Owed
  <2> QED
    BY <2>1, <2>2
<1>3. PICK y : y = [x EXCEPT !.page = e, !.box = box, !.on = TRUE]
  OBVIOUS
<1>4. /\ TabShape(y) /\ y.page = e /\ y.box = box
      /\ y.who = x.who /\ y.device = x.device
      /\ y.call = x.call /\ y.stray = x.stray /\ y.flight = x.flight
  BY <1>2, <1>3 DEF TabShape
<1>5. PICK f : f = Fresh(e)
  OBVIOUS
<1>6. FlightShape(f)
  BY <1>5, FreshFacts
<1>7. CASE x.flight.open /\ x.flight.edition = e
  <2>1. m = [y EXCEPT !.flight.due = TRUE]
    BY <1>1, <1>3, <1>7 DEF Mounted
  <2> QED
    BY <1>2, <1>4, <1>7, <2>1 DEF TabShape, FlightShape
<1>8. CASE ~(x.flight.open /\ x.flight.edition = e)
  <2>1. m = [y EXCEPT !.flight = f] \/ m = [Replied(y) EXCEPT !.flight = f]
    BY <1>1, <1>3, <1>5, <1>8 DEF Mounted
  <2>2. /\ DOMAIN m = DOMAIN y /\ m.flight = f
        /\ m.page = e /\ m.box = box /\ m.who = x.who /\ m.device = x.device
        /\ m.call = x.call /\ m.stray = x.stray
    BY <1>4, <2>1 DEF Replied, TabShape
  <2> QED
    BY <1>2, <1>4, <1>5, <1>6, <2>2 DEF TabShape
<1> QED
  BY <1>7, <1>8

(* The page comes on screen again, with this edition or a newer one.       *)
LEMMA VisitGoes ==
    ASSUME Inv, NEW t \in Tabs, Visit(t)
    PROVE  \E m : Goes(tab[t], m) /\ tab' = [tab EXCEPT ![t] = m]
<1>1. PICK x : x = tab[t]
  OBVIOUS
<1>2. Sane(x) /\ TabShape(x) /\ x.page \in Nat /\ x.device \in Nat /\ published \in Nat
      /\ published <= MaxEdition /\ x.page >= 1
  BY <1>1, TabSane, BoundsAssumption DEF TabShape, Editions, Inv, Rows
<1>3. PICK e \in x.page..published : tab' = [tab EXCEPT ![t] = Mounted(x, e)]
  BY <1>1 DEF Visit, Put
<1>4. e \in Editions /\ e \in Nat /\ x.page <= e /\ e <= published
  BY <1>2, <1>3, BoundsAssumption DEF Editions
<1>5. PICK m : m = Mounted(x, e)
  OBVIOUS
<1>6. /\ TabShape(m)
      /\ m.page = e /\ m.who = x.who /\ m.device = x.device
      /\ m.call = x.call /\ m.stray = x.stray
      /\ m.box.edition \in {0, e}
      /\ Owed(x.box, e) \subseteq Owed(m.box, e)
      /\ \/ m.flight = Fresh(e)
         \/ /\ x.flight.open /\ x.flight.edition = e
            /\ m.flight.open /\ m.flight.edition = e
            /\ m.flight.server = x.flight.server /\ m.flight.giveUp = x.flight.giveUp
  BY <1>2, <1>4, <1>5, MountedFacts
<1>7. m.flight.open
  BY <1>4, <1>6, FreshFacts
<1>8. Awaits(m)
  <2>1. x.call.at # "none" => x.call.edition \in Nat /\ x.call.edition <= e
    BY <1>2, <1>4 DEF Sane, Awaits, TabShape, CallShape, RequestShape, Editions
  <2> QED
    BY <1>2, <1>6, <1>7, <2>1 DEF Sane, Awaits
<1>9. Strays(m) /\ (x.who = None => x.call.at = "none")
  <2>1. x.stray.at # "none" => x.stray.edition \in Nat /\ x.stray.edition <= e
    BY <1>2, <1>4 DEF Sane, Strays, TabShape, CallShape, RequestShape, Editions
  <2> QED
    BY <1>2, <1>6, <2>1 DEF Sane, Strays, Settings
<1>10. m.box.edition <= m.page
  BY <1>4, <1>6
<1>11. CASE m.flight = Fresh(e)
  <2>1. Blank(m)
    BY <1>4, <1>6, <1>11, FreshFacts DEF Blank
  <2>2. Goes(x, m)
    <3>1. x.device <= m.device
      BY <1>2, <1>6
    <3>2. m.page = x.page /\ m.device = x.device /\ m.who = x.who =>
            Owed(x.box, x.page) \subseteq Owed(m.box, m.page)
      BY <1>6
    <3> QED
      BY <1>2, <1>4, <1>6, <1>8, <1>9, <1>10, <2>1, <3>1, <3>2, AnewGoes
  <2> QED
    BY <1>1, <1>3, <1>5, <2>2
<1>12. CASE m.flight # Fresh(e)
  <2>1. x.page = e /\ (x.flight.giveUp # "none" => x.who # None)
    BY <1>2, <1>6, <1>12 DEF Sane, Settings
  <2>2. Goes(x, m)
    BY <1>2, <1>6, <1>8, <1>9, <1>10, <1>12, <2>1, QuietGoes
  <2> QED
    BY <1>1, <1>3, <1>5, <2>2
<1> QED
  BY <1>11, <1>12

(* The page is loaded anew: a fresh conversation, over the same outbox.    *)
LEMMA ReloadGoes ==
    ASSUME Inv, NEW t \in Tabs, Reload(t)
    PROVE  \E m : Goes(tab[t], m) /\ tab' = [tab EXCEPT ![t] = m]
<1>1. PICK x : x = tab[t]
  OBVIOUS
<1>2. Sane(x) /\ TabShape(x) /\ x.page \in Nat /\ x.device \in Nat /\ published \in Nat
      /\ published <= MaxEdition /\ x.page >= 1
  BY <1>1, TabSane, BoundsAssumption DEF TabShape, Editions, Inv, Rows
<1>3. PICK z : z = [x EXCEPT !.flight = NoFlight, !.call = NoCall, !.stray = NoCall]
  OBVIOUS
<1>4. /\ TabShape(z) /\ z.flight = NoFlight /\ z.call = NoCall /\ z.stray = NoCall
      /\ z.page = x.page /\ z.who = x.who /\ z.device = x.device /\ z.box = x.box
  BY <1>2, <1>3, NoFacts DEF TabShape
<1>5. PICK e \in x.page..published : tab' = [tab EXCEPT ![t] = Mounted(z, e)]
  BY <1>1, <1>3 DEF Reload, Put
<1>6. e \in Editions /\ e \in Nat /\ x.page <= e /\ e <= published
  BY <1>2, <1>5, BoundsAssumption DEF Editions
<1>7. PICK m : m = Mounted(z, e)
  OBVIOUS
<1>8. /\ TabShape(m)
      /\ m.page = e /\ m.who = x.who /\ m.device = x.device
      /\ m.call = NoCall /\ m.stray = NoCall
      /\ m.box.edition \in {0, e}
      /\ Owed(x.box, e) \subseteq Owed(m.box, e)
      /\ m.flight = Fresh(e)
  <2>1. ~z.flight.open
    BY <1>4, NoFacts
  <2> QED
    BY <1>4, <1>6, <1>7, <2>1, MountedFacts
<1>9. Blank(m)
  BY <1>6, <1>8, FreshFacts DEF Blank
<1>10. Awaits(m) /\ Strays(m) /\ m.call.at = "none"
  BY <1>8, NoFacts DEF Awaits, Strays
<1>11. m.box.edition <= m.page
  BY <1>6, <1>8
<1>12. Goes(x, m)
  BY <1>2, <1>6, <1>8, <1>9, <1>10, <1>11, AnewGoes
<1> QED
  BY <1>1, <1>5, <1>7, <1>12

LEMMA PruneGoes ==
    ASSUME Inv, NEW t \in Tabs, Prune(t)
    PROVE  \E m : Goes(tab[t], m) /\ tab' = [tab EXCEPT ![t] = m]
<1>1. PICK x : x = tab[t]
  OBVIOUS
<1>2. Sane(x) /\ TabShape(x) /\ x.call.at = "none" /\ x.page \in Nat /\ x.device \in Nat
  BY <1>1, TabSane DEF TabShape, Editions, Prune
<1>3. PICK m : m = [x EXCEPT !.flight = NoFlight, !.on = FALSE]
  OBVIOUS
<1>4. /\ TabShape(m) /\ m.flight = NoFlight /\ m.call = x.call /\ m.stray = x.stray
      /\ m.page = x.page /\ m.who = x.who /\ m.device = x.device /\ m.box = x.box
  BY <1>2, <1>3, NoFacts DEF TabShape
<1>5. Awaits(m) /\ Strays(m) /\ Blank(m)
  BY <1>2, <1>4, NoFacts DEF Sane, Awaits, Strays, Blank
<1>6. x.page <= published /\ x.box.edition <= x.page
  BY <1>2 DEF Sane, Settings
<1>7. Goes(x, m)
  BY <1>2, <1>4, <1>5, <1>6, AnewGoes
<1> QED
  BY <1>1, <1>3, <1>7 DEF Prune, Put

LEMMA RetryGoes ==
    ASSUME Inv, NEW t \in Tabs, Retry(t)
    PROVE  \E m : Goes(tab[t], m) /\ tab' = [tab EXCEPT ![t] = m]
<1>1. PICK x : x = tab[t]
  OBVIOUS
<1>2. Sane(x) /\ TabShape(x) /\ x.flight.open
  BY <1>1, TabSane DEF Retry
<1>3. PICK m : m = [x EXCEPT !.flight.failed = FALSE, !.flight.closed = FALSE, !.flight.due = TRUE]
  OBVIOUS
<1>4. As(x, x, x.flight.server, x.box, x.call)
  BY <1>2, Itself
<1>5. As([x EXCEPT !.flight.failed = FALSE, !.flight.closed = FALSE, !.flight.due = TRUE],
         x, x.flight.server, x.box, x.call)
  BY <1>4 DEF As, TabShape, FlightShape
<1>6. Goes(x, m)
  BY <1>2, <1>3, <1>5, SameGoes
<1> QED
  BY <1>1, <1>3, <1>6 DEF Retry, Put

LEMMA AskGiveUpGoes ==
    ASSUME Inv, NEW t \in Tabs, AskGiveUp(t)
    PROVE  \E m : Goes(tab[t], m) /\ tab' = [tab EXCEPT ![t] = m]
<1>1. PICK x : x = tab[t]
  OBVIOUS
<1>2. Sane(x) /\ TabShape(x) /\ x.flight.open /\ x.who # None
  BY <1>1, TabSane DEF AskGiveUp
<1>3. PICK m : m = [x EXCEPT !.flight.giveUp = "asked", !.flight.due = TRUE]
  OBVIOUS
<1>4. /\ TabShape(m) /\ m.call = x.call /\ m.stray = x.stray
      /\ m.page = x.page /\ m.who = x.who /\ m.device = x.device /\ m.box = x.box
      /\ m.flight.open /\ m.flight.server = x.flight.server /\ m.flight.edition = x.flight.edition
  BY <1>2, <1>3 DEF TabShape, FlightShape
<1>5. Awaits(m)
  BY <1>2, <1>4 DEF Sane, Awaits
<1>6. Goes(x, m)
  BY <1>2, <1>4, <1>5, QuietGoes
<1> QED
  BY <1>1, <1>3, <1>6 DEF AskGiveUp, Put

(* A guess joins what is owed.                                             *)
LEMMA TypeGoes ==
    ASSUME Inv, NEW t \in Tabs, Type(t)
    PROVE  \E m : /\ Goes(tab[t], m) /\ tab' = [tab EXCEPT ![t] = m]
                  /\ \E g \in Guesses :
                        /\ typed' = typed \cup {[tab |-> t, who |-> m.who, device |-> m.device,
                                                 edition |-> m.page, guess |-> g]}
                        /\ m.who # None /\ m.page = tab[t].page /\ m.device = tab[t].device
                        /\ m.box.edition = m.page /\ Key[g] \in Identities(m.box.log)
<1>1. PICK x : x = tab[t]
  OBVIOUS
<1>2. Sane(x) /\ TabShape(x) /\ x.flight.open /\ x.who # None
  BY <1>1, TabSane DEF Type, Ready
<1>3. PICK g \in Guesses :
        /\ tab' = [tab EXCEPT ![t] = [x EXCEPT !.box = [edition |-> x.page, log |-> Append(Pending(x), g)],
                                               !.flight.due = TRUE]]
        /\ typed' = typed \cup {[tab |-> t, who |-> x.who, device |-> x.device, edition |-> x.page, guess |-> g]}
  <2>1. PICK g \in Guesses :
        /\ Put(t, [tab[t] EXCEPT !.box = [edition |-> tab[t].page, log |-> Append(Pending(tab[t]), g)],
                                 !.flight.due = TRUE])
        /\ typed' = typed \cup {[tab |-> t, who |-> tab[t].who, device |-> tab[t].device,
                                 edition |-> tab[t].page, guess |-> g]}
    BY Zenon DEF Type
  <2>2. tab' = [tab EXCEPT ![t] = [x EXCEPT !.box = [edition |-> x.page, log |-> Append(Pending(x), g)],
                                            !.flight.due = TRUE]]
    BY <1>1, <2>1 DEF Put
  <2>3. typed' = typed \cup {[tab |-> t, who |-> x.who, device |-> x.device, edition |-> x.page, guess |-> g]}
    BY <1>1, <2>1
  <2> QED
    BY <2>1, <2>2, <2>3, Zenon
<1>4. PICK owed : owed = Pending(x)
  OBVIOUS
<1>5. PICK log : log = Append(owed, g)
  OBVIOUS
<1>6. x.flight.edition = x.page
  BY <1>2 DEF Sane, Settings
<1>7. owed \in Logs /\ Identities(owed) = Owed(x.box, x.page)
  <2>1. Identities(<<>>) = {} /\ <<>> \in Logs
    BY DEF Identities, Logs
  <2> QED
    BY <1>2, <1>4, <1>6, <2>1 DEF Pending, Owed, TabShape, BoxShape
<1>8. log \in Logs /\ Identities(owed) \subseteq Identities(log) /\ Key[g] \in Identities(log)
  <2>1. /\ log \in Logs /\ Len(log) = Len(owed) + 1 /\ Len(owed) \in Nat
        /\ \A i \in 1..Len(owed) : log[i] = owed[i]
        /\ log[Len(owed) + 1] = g
    BY <1>5, <1>7 DEF Logs
  <2>2. DOMAIN log = 1..Len(log) /\ DOMAIN owed = 1..Len(owed)
    BY <1>7, <2>1 DEF Logs
  <2> QED
    BY <2>1, <2>2 DEF Identities
<1>9. PICK b : b = [edition |-> x.page, log |-> log]
  OBVIOUS
<1>10. BoxShape(b) /\ b.edition = x.page /\ b.log = log /\ x.page \in Nat
  BY <1>2, <1>8, <1>9 DEF BoxShape, TabShape, Editions
<1>11. PICK m : m = [x EXCEPT !.box = b, !.flight.due = TRUE]
  OBVIOUS
<1>12. /\ TabShape(m) /\ m.call = x.call /\ m.stray = x.stray
       /\ m.page = x.page /\ m.who = x.who /\ m.device = x.device /\ m.box = b
       /\ m.flight.open /\ m.flight.server = x.flight.server /\ m.flight.edition = x.flight.edition
  BY <1>2, <1>10, <1>11 DEF TabShape, FlightShape
<1>13. Awaits(m)
  BY <1>2, <1>12 DEF Sane, Awaits
<1>14. m.box.edition <= x.page /\ Owed(x.box, x.page) \subseteq Owed(m.box, x.page)
  BY <1>7, <1>8, <1>10, <1>12 DEF Owed
<1>15. Goes(x, m)
  BY <1>2, <1>12, <1>13, <1>14, QuietGoes
<1>16. tab' = [tab EXCEPT ![t] = m]
  BY <1>3, <1>4, <1>5, <1>9, <1>11
<1>17. typed' = typed \cup {[tab |-> t, who |-> m.who, device |-> m.device,
                              edition |-> m.page, guess |-> g]}
  BY <1>3, <1>12
<1>18. /\ m.who # None /\ m.page = tab[t].page /\ m.device = tab[t].device
       /\ m.box.edition = m.page /\ Key[g] \in Identities(m.box.log)
  BY <1>1, <1>2, <1>8, <1>10, <1>12
<1> QED
  BY <1>1, <1>15, <1>16, <1>17, <1>18

LEMMA FailGoes ==
    ASSUME Inv, NEW t \in Tabs, Fail(t) \/ Delay(t)
    PROVE  \E m : Goes(tab[t], m) /\ tab' = [tab EXCEPT ![t] = m]
<1>1. PICK x : x = tab[t]
  OBVIOUS
<1>2. Sane(x) /\ x.call.at # "none"
  BY <1>1, TabSane DEF Fail, Delay
<1>3. PICK m : m = [x EXCEPT !.call.at = "failed"]
  OBVIOUS
<1>4. Goes(x, m)
  BY <1>1, <1>2, <1>3, AtGoes
<1> QED
  BY <1>1, <1>3, <1>4 DEF Fail, Delay, Put

(* Another account: nothing of the one before is taken along.              *)
LEMMA MoveGoes ==
    ASSUME Inv, NEW t \in Tabs, Move(t)
    PROVE  \E m : Goes(tab[t], m) /\ tab' = [tab EXCEPT ![t] = m]
<1>1. PICK x : x = tab[t]
  OBVIOUS
<1>2. /\ Sane(x) /\ TabShape(x) /\ x.page \in Nat /\ x.device \in Nat
      /\ x.page <= published /\ published \in Nat
  BY <1>1, TabSane DEF TabShape, Editions, Sane, Settings, Inv, Rows
<1>3. PICK a \in Accounts : tab' = [tab EXCEPT ![t] = Left(x, a, x.device + 1)]
  BY <1>1 DEF Move, Put
<1>4. PICK m : m = Left(x, a, x.device + 1)
  OBVIOUS
<1>5. /\ TabShape(m) /\ Blank(m)
      /\ m.page = x.page /\ m.who = a /\ m.device = x.device + 1
      /\ m.box = NoBox /\ m.call = NoCall
      /\ m.stray = x.stray \/ (m.stray = x.call /\ x.call.at \in {"sent", "answered"})
  BY <1>2, <1>4, LeftFacts
<1>6. Strays(m)
  <2>1. CASE m.stray = x.stray
    <3>1. x.stray.at # "none" => x.stray.epoch[2] \in Nat
      BY <1>2 DEF TabShape, CallShape, RequestShape
    <3> QED
      BY <1>2, <1>5, <2>1, <3>1 DEF Sane, Strays
  <2>2. CASE m.stray = x.call /\ x.call.at \in {"sent", "answered"}
    <3>1. x.call.epoch[2] \in Nat /\ x.call.edition \in Nat
      BY <1>2, <2>2 DEF TabShape, CallShape, RequestShape, Editions
    <3>2. x.call.edition <= x.page /\ x.call.epoch[2] <= x.device
      BY <1>2, <2>2 DEF Sane, Awaits
    <3> QED
      BY <1>2, <1>5, <2>2, <3>1, <3>2 DEF Strays
  <2> QED
    BY <1>5, <2>1, <2>2
<1>7. Awaits(m) /\ m.call.at = "none" /\ m.box.edition <= m.page
  BY <1>2, <1>5, NoFacts DEF Awaits
<1>8. x.device <= m.device /\ m.device # x.device
  BY <1>2, <1>5
<1>9. Goes(x, m)
  BY <1>2, <1>5, <1>6, <1>7, <1>8, AnewGoes
<1> QED
  BY <1>1, <1>3, <1>4, <1>9

(* The conversation goes on under a new device: with the same account, or  *)
(* with a first one, which what was shown for nobody does not contradict.  *)
LEMMA KickedGoes ==
    ASSUME NEW x, Sane(x), NEW y, TabShape(y), y.page = x.page, y.device = x.device + 1,
           y.who # None, x.who \in {y.who, None},
           y.box = x.box, y.flight = x.flight, y.call = x.call, y.stray = x.stray,
           NEW m, m = Kicked(y)
    PROVE  Goes(x, m)
<1>1. /\ TabShape(m) /\ m.page = x.page /\ m.device = x.device + 1 /\ m.who = y.who
      /\ m.box = x.box /\ m.call = x.call /\ m.stray = x.stray
      /\ m.flight.open = x.flight.open /\ m.flight.giveUp = x.flight.giveUp
      /\ x.flight.open => /\ m.flight.edition = x.flight.edition
                          /\ m.flight.server = x.flight.server
  BY DEF Kicked, TabShape, FlightShape
<1>2. x.page \in Nat /\ x.device \in Nat
  BY DEF Sane, TabShape, Editions
<1>3. Settings(m)
  BY <1>1 DEF Sane, Settings
<1>4. Awaits(m)
  <2>1. x.call.at # "none" => x.call.epoch[2] \in Nat
    BY DEF Sane, TabShape, CallShape, RequestShape
  <2> QED
    BY <1>1, <1>2, <2>1 DEF Sane, Awaits
<1>5. Strays(m)
  <2>1. x.stray.at # "none" => x.stray.epoch[2] \in Nat
    BY DEF Sane, TabShape, CallShape, RequestShape
  <2> QED
    BY <1>1, <1>2, <2>1 DEF Sane, Strays
<1>6. Shows(m)
  <2>1. CASE x.who = None
    BY <1>1, <2>1 DEF Sane, Settings, Shows, Told
  <2>2. CASE x.who # None
    BY <1>1, <2>2 DEF Sane, Shows
  <2> QED
    BY <2>1, <2>2
<1>7. m.flight.open => IsPrefix(x.flight.server.log, m.flight.server.log)
  BY <1>1, ServerShape, PrefixFacts DEF Sane
<1> QED
  BY <1>1, <1>2, <1>3, <1>4, <1>5, <1>6, <1>7 DEF Goes

LEMMA ChangeDeviceGoes ==
    ASSUME Inv, NEW t \in Tabs, ChangeDevice(t)
    PROVE  \E m : Goes(tab[t], m) /\ tab' = [tab EXCEPT ![t] = m]
<1>1. PICK x : x = tab[t]
  OBVIOUS
<1>2. Sane(x) /\ TabShape(x) /\ x.who # None
  BY <1>1, TabSane DEF ChangeDevice
<1>3. PICK y : y = [x EXCEPT !.device = @ + 1]
  OBVIOUS
<1>4. /\ TabShape(y) /\ y.page = x.page /\ y.device = x.device + 1 /\ y.who = x.who
      /\ y.box = x.box /\ y.flight = x.flight /\ y.call = x.call /\ y.stray = x.stray
  BY <1>2, <1>3 DEF TabShape
<1>5. PICK m : m = Kicked(y)
  OBVIOUS
<1>6. Goes(x, m)
  BY <1>2, <1>4, <1>5, KickedGoes
<1> QED
  BY <1>1, <1>3, <1>5, <1>6 DEF ChangeDevice, Put

(* A first identity, minted or found.                                      *)
LEMMA AcquireGoes ==
    ASSUME Inv, NEW t \in Tabs, Acquire(t)
    PROVE  \E m : Goes(tab[t], m) /\ tab' = [tab EXCEPT ![t] = m]
<1>1. PICK x : x = tab[t]
  OBVIOUS
<1>2. /\ Sane(x) /\ TabShape(x) /\ x.who = None /\ x.page \in Editions
      /\ x.page \in Nat /\ x.device \in Nat /\ x.page <= published
  BY <1>1, TabSane DEF Acquire, Sane, Settings, TabShape, Editions
<1>3. PICK a \in Accounts :
        \/ tab' = [tab EXCEPT ![t] = Kicked([x EXCEPT !.who = a, !.device = @ + 1])]
        \/ tab' = [tab EXCEPT ![t] = Rearmed([x EXCEPT !.who = a, !.device = @ + 1])]
  <2>1. PICK a \in Accounts :
        \/ Put(t, Kicked([tab[t] EXCEPT !.who = a, !.device = @ + 1]))
        \/ Put(t, Rearmed([tab[t] EXCEPT !.who = a, !.device = @ + 1]))
    BY Zenon DEF Acquire
  <2>2. Put(t, Kicked([tab[t] EXCEPT !.who = a, !.device = @ + 1])) =>
            tab' = [tab EXCEPT ![t] = Kicked([x EXCEPT !.who = a, !.device = @ + 1])]
    BY <1>1 DEF Put
  <2>3. Put(t, Rearmed([tab[t] EXCEPT !.who = a, !.device = @ + 1])) =>
            tab' = [tab EXCEPT ![t] = Rearmed([x EXCEPT !.who = a, !.device = @ + 1])]
    BY <1>1 DEF Put
  <2> QED
    BY <2>1, <2>2, <2>3, Zenon
<1>4. PICK y : y = [x EXCEPT !.who = a, !.device = @ + 1]
  OBVIOUS
<1>5. /\ TabShape(y) /\ y.page = x.page /\ y.device = x.device + 1 /\ y.who = a
      /\ y.box = x.box /\ y.flight = x.flight /\ y.call = x.call /\ y.stray = x.stray
  BY <1>2, <1>4 DEF TabShape
<1>6. a # None
  BY NoneAssumption
<1>7. CASE tab' = [tab EXCEPT ![t] = Kicked(y)]
  <2>1. PICK m : m = Kicked(y)
    OBVIOUS
  <2>2. Goes(x, m)
    BY <1>2, <1>5, <1>6, <2>1, KickedGoes
  <2> QED
    BY <1>1, <1>7, <2>1, <2>2
<1>8. CASE tab' = [tab EXCEPT ![t] = Rearmed(y)]
  <2>1. PICK m : m = Rearmed(y)
    OBVIOUS
  <2>2. /\ TabShape(m) /\ Blank(m) /\ m.page = x.page /\ m.device = x.device + 1 /\ m.who = a
        /\ m.box = x.box /\ m.call = x.call /\ m.stray = x.stray
    <3>1. CASE ~x.flight.open
      <4>1. m = y /\ x.flight.giveUp = "none"
        BY <1>2, <1>5, <2>1, <3>1 DEF Rearmed, Sane, Settings
      <4> QED
        BY <1>5, <3>1, <4>1 DEF Blank
    <3>2. CASE x.flight.open
      <4>1. x.flight.edition = x.page
        BY <1>2, <3>2 DEF Sane, Settings
      <4>2. PICK f : f = Fresh(x.page)
        OBVIOUS
      <4>3. /\ FlightShape(f) /\ f.open /\ f.edition = x.page
            /\ f.giveUp = "none" /\ ~f.settled /\ Bare(f.server)
        BY <1>2, <4>2, FreshFacts
      <4>4. PICK g : g = [f EXCEPT !.giveUp = "none"]
        OBVIOUS
      <4>5. /\ FlightShape(g) /\ g.open /\ g.edition = x.page
            /\ g.giveUp = "none" /\ ~g.settled /\ Bare(g.server)
        BY <4>3, <4>4 DEF FlightShape
      <4>6. m = [Replied(y) EXCEPT !.flight = g]
        BY <1>5, <2>1, <3>2, <4>1, <4>2, <4>4 DEF Rearmed
      <4>7. /\ DOMAIN m = DOMAIN y /\ m.flight = g
            /\ m.page = x.page /\ m.device = x.device + 1 /\ m.who = a
            /\ m.box = x.box /\ m.call = x.call /\ m.stray = x.stray
        BY <1>5, <4>6 DEF Replied, TabShape
      <4> QED
        BY <1>5, <4>5, <4>7 DEF TabShape, Blank
    <3> QED
      BY <3>1, <3>2
  <2>3. x.call.at = "none"
    BY <1>2 DEF Sane, Settings
  <2>4. Awaits(m)
    BY <2>2, <2>3 DEF Awaits
  <2>5. Strays(m)
    <3>1. x.stray.at # "none" => x.stray.epoch[2] \in Nat
      BY <1>2 DEF TabShape, CallShape, RequestShape
    <3> QED
      BY <1>2, <2>2, <3>1 DEF Sane, Strays
  <2>6. m.box.edition <= m.page /\ x.device <= m.device /\ m.device # x.device
    BY <1>2, <2>2 DEF Sane, Settings
  <2>7. Goes(x, m)
    BY <1>2, <1>6, <2>2, <2>3, <2>4, <2>5, <2>6, AnewGoes
  <2> QED
    BY <1>1, <1>8, <2>1, <2>7
<1> QED
  BY <1>3, <1>4, <1>7, <1>8

-----------------------------------------------------------------------------
(* The server.                                                             *)

(* A row of an edition only grows, and a newer edition's takes its place.  *)
Follows(r, s) ==
    \/ /\ s.edition = r.edition
       /\ IsPrefix(r.log, s.log)
       /\ r.solved => s.solved
       /\ r.gaveUp => s.gaveUp
    \/ r.edition # published /\ s.edition = published

(* What the server answers c with, s being the row after.                  *)
Truly(c, r, s, said) ==
    /\ Fits(c.kind, said)
    /\ said.status \in Shown3 =>
        /\ \/ Bare(said.state)
           \/ /\ s.edition = c.edition
              /\ IsPrefix(said.state.log, s.log)
              /\ said.state.solved => s.solved
              /\ said.state.gaveUp => s.gaveUp
        /\ r.edition = c.edition => IsPrefix(r.log, said.state.log)
    /\ said.status = "not_found" => r.edition # c.edition

LEMMA SaysFacts ==
    ASSUME NEW a \in Accounts, RowShape(row[a]), NEW status \in Shown3, NEW e, NEW said, said = Says(status, a, e)
    PROVE  /\ said.status = status /\ said.state \in Snapshots
           /\ said.state.log = StateFor(a, e).log
           /\ Stored(a, e) => /\ said.state.log = row[a].log
                              /\ said.state.solved = row[a].solved
                              /\ said.state.gaveUp = row[a].gaveUp
           /\ ~Stored(a, e) => Bare(said.state) /\ said.state.log = <<>>
<1>1. PICK st : st = StateFor(a, e)
  OBVIOUS
<1>2. said.status = status /\ said.state = st
  BY <1>1 DEF Says
<1>3. CASE Stored(a, e)
  <2>1. st = [log |-> row[a].log, solved |-> row[a].solved, gaveUp |-> row[a].gaveUp]
    BY <1>1, <1>3 DEF StateFor
  <2> QED
    BY <1>1, <1>2, <1>3, <2>1 DEF Snapshots, RowShape
<1>4. CASE ~Stored(a, e)
  <2>1. st = EmptyServer
    BY <1>1, <1>4 DEF StateFor
  <2>2. EmptyServer \in Snapshots /\ Bare(EmptyServer) /\ EmptyServer.log = <<>>
    BY DEF EmptyServer, Snapshots, Logs, Bare
  <2> QED
    BY <1>1, <1>2, <1>4, <2>1, <2>2
<1> QED
  BY <1>3, <1>4

(* An answer that says what is stored, of a row that is left as it was.    *)
LEMMA SaysTruly ==
    ASSUME NEW a \in Accounts, RowShape(row[a]), NEW c, RequestShape(c), NEW status \in Shown3,
           NEW said, said = Says(status, a, c.edition), Fits(c.kind, said)
    PROVE  Truly(c, row[a], row[a], said) /\ Follows(row[a], row[a])
<1>1. /\ said.status = status /\ said.state \in Snapshots
      /\ Stored(a, c.edition) => /\ said.state.log = row[a].log
                                 /\ said.state.solved = row[a].solved
                                 /\ said.state.gaveUp = row[a].gaveUp
      /\ ~Stored(a, c.edition) => Bare(said.state)
  BY SaysFacts
<1>2. row[a].log \in Logs /\ IsPrefix(row[a].log, row[a].log)
  BY PrefixFacts DEF RowShape
<1>3. Follows(row[a], row[a])
  BY <1>2 DEF Follows
<1>4. Truly(c, row[a], row[a], said)
  BY <1>1, <1>2 DEF Truly, Stored, Shown3
<1> QED
  BY <1>3, <1>4

LEMMA VerdictTruly ==
    ASSUME NEW a \in Accounts, RowShape(row[a]), NEW c, NEW status, NEW said, said = Verdict(status),
           status \notin Shown3, Fits(c.kind, said), status = "not_found" => ~Stored(a, c.edition)
    PROVE  Truly(c, row[a], row[a], said) /\ Follows(row[a], row[a])
<1>1. row[a].log \in Logs /\ IsPrefix(row[a].log, row[a].log)
  BY PrefixFacts DEF RowShape
<1>2. said.status = status
  BY DEF Verdict
<1> QED
  BY <1>1, <1>2 DEF Follows, Truly, Stored

LEMMA ServedReadFacts ==
    ASSUME NEW a \in Accounts, RowShape(row[a]), NEW c, RequestShape(c), c.kind = "read",
           a = c.epoch[1], NEW s \in ServedRead(c)
    PROVE  s[1] = row[a] /\ Truly(c, row[a], row[a], s[2]) /\ Follows(row[a], row[a])
<1>1. CASE Stored(a, c.edition)
  <2>1. PICK said : said = Says("ok", a, c.edition)
    OBVIOUS
  <2>2. s[1] = row[a] /\ s[2] = said
    BY <1>1, <2>1 DEF ServedRead
  <2>3. said.status = "ok" /\ said.state \in Snapshots
    BY <2>1, SaysFacts DEF Shown3
  <2>4. Fits(c.kind, said)
    BY <2>3 DEF Fits
  <2> QED
    BY <2>1, <2>2, <2>4, SaysTruly DEF Shown3
<1>2. CASE ~Stored(a, c.edition)
  <2>1. PICK said : said = Verdict("not_found")
    OBVIOUS
  <2>2. s[1] = row[a] /\ s[2] = said
    BY <1>2, <2>1 DEF ServedRead
  <2>3. Fits(c.kind, said)
    BY <2>1 DEF Fits, Verdict, Shown3
  <2> QED
    BY <1>2, <2>1, <2>2, <2>3, VerdictTruly DEF Shown3
<1> QED
  BY <1>1, <1>2

LEMMA ServedGiveUpFacts ==
    ASSUME published \in Nat, NEW a \in Accounts, RowShape(row[a]), NEW c, RequestShape(c), c.kind = "giveUp",
           a = c.epoch[1], NEW s \in ServedGiveUp(c)
    PROVE  RowShape(s[1]) /\ Truly(c, row[a], s[1], s[2]) /\ Follows(row[a], s[1])
<1>1. CASE c.edition # published \/ ~Stored(a, c.edition)
  <2>1. PICK status : /\ status \in {"puzzle_changed", "not_found"}
                      /\ s = <<row[a], Verdict(status)>>
                      /\ status = "not_found" => ~Stored(a, c.edition)
    BY <1>1 DEF ServedGiveUp
  <2>2. PICK said : said = Verdict(status)
    OBVIOUS
  <2>3. Fits(c.kind, said)
    BY <2>1, <2>2 DEF Fits, Verdict, Shown3
  <2>4. s[1] = row[a] /\ s[2] = said
    BY <2>1, <2>2
  <2> QED
    BY <2>1, <2>2, <2>3, <2>4, VerdictTruly DEF Shown3
<1>2. CASE c.edition = published /\ Stored(a, c.edition) /\ row[a].solved
  <2>1. PICK said : said = Says("refused", a, c.edition)
    OBVIOUS
  <2>2. s = <<row[a], said>>
    BY <1>2, <2>1 DEF ServedGiveUp
  <2>3. s[1] = row[a] /\ s[2] = said
    BY <2>2
  <2>4. said.status = "refused" /\ said.state \in Snapshots /\ said.state.solved = row[a].solved
    <3>1. /\ said.status = "refused" /\ said.state \in Snapshots
          /\ Stored(a, c.edition) => said.state.solved = row[a].solved
      BY <2>1, SaysFacts DEF Shown3
    <3> QED
      BY <1>2, <3>1
  <2>5. Fits(c.kind, said)
    BY <1>2, <2>4 DEF Fits, Ended
  <2> QED
    BY <2>1, <2>3, <2>5, SaysTruly DEF Shown3
<1>3. CASE c.edition = published /\ Stored(a, c.edition) /\ ~row[a].solved
  <2>1. PICK given : given = [row[a] EXCEPT !.gaveUp = TRUE]
    OBVIOUS
  <2>2. /\ RowShape(given) /\ given.edition = row[a].edition /\ given.log = row[a].log
        /\ given.solved = row[a].solved /\ given.gaveUp
    BY <2>1 DEF RowShape
  <2>3. PICK said : said = [status |-> "ok", stored |-> TRUE,
                            state |-> [log |-> given.log, solved |-> FALSE, gaveUp |-> TRUE]]
    OBVIOUS
  <2>4. s = <<given, said>>
    BY <1>3, <2>1, <2>3 DEF ServedGiveUp
  <2>5. s[1] = given /\ s[2] = said
    BY <2>4
  <2>6. said.status = "ok" /\ said.state \in Snapshots /\ said.state.log = given.log
        /\ ~said.state.solved /\ said.state.gaveUp
    BY <2>2, <2>3 DEF Snapshots, RowShape
  <2>7. Fits(c.kind, said)
    BY <2>6 DEF Fits, Ended
  <2>8. row[a].log \in Logs /\ IsPrefix(row[a].log, row[a].log)
    BY PrefixFacts DEF RowShape
  <2>9. Truly(c, row[a], given, said)
    BY <1>3, <2>2, <2>6, <2>7, <2>8 DEF Truly, Stored
  <2>10. Follows(row[a], given)
    BY <2>2, <2>8 DEF Follows
  <2> QED
    BY <2>2, <2>5, <2>9, <2>10
<1> QED
  BY <1>1, <1>2, <1>3

(* An append changes nothing, or joins its batch to what is stored of its  *)
(* edition.                                                                *)
LEMMA ServedAppendIs ==
    ASSUME published \in Nat, NEW a \in Accounts, RowShape(row[a]), NEW c, RequestShape(c), c.kind = "append",
           a = c.epoch[1], NEW s \in ServedAppend(c)
    PROVE  \E before, log, after, said :
              /\ log = before \o c.batch /\ before \in Logs /\ log \in Logs
              /\ Stored(a, c.edition) => before = row[a].log
              /\ ~Stored(a, c.edition) => before = <<>>
              /\ after = [edition |-> c.edition, log |-> log, solved |-> Solves(log), gaveUp |-> FALSE]
              /\ said = [status |-> "ok", stored |-> TRUE,
                         state |-> [log |-> log, solved |-> after.solved, gaveUp |-> FALSE]]
              /\ \/ \E status \in {"puzzle_changed", "forbidden"} : s = <<row[a], Verdict(status)>>
                 \/ \E status \in {"refused", "too_fast"} : s = <<row[a], Says(status, a, c.edition)>>
                 \/ /\ s = <<after, said>>
                    /\ c.edition = published /\ Len(log) <= Cap
                    /\ Stored(a, c.edition) => ~row[a].solved /\ ~row[a].gaveUp
<1>1. PICK before : before = StateFor(a, c.edition).log
  OBVIOUS
<1>2. PICK log : log = before \o c.batch
  OBVIOUS
<1>3. /\ Stored(a, c.edition) => before = row[a].log
      /\ ~Stored(a, c.edition) => before = <<>>
      /\ row[a].log \in Logs /\ <<>> \in Logs /\ c.batch \in Logs
  BY <1>1 DEF StateFor, RowShape, EmptyServer, Logs, RequestShape
<1>4. before \in Logs /\ log \in Logs /\ Len(log) \in Nat
  <2>1. before \in Logs
    BY <1>3
  <2> QED
    BY <1>2, <1>3, <2>1 DEF Logs
<1>5. PICK after : after = [edition |-> c.edition, log |-> log, solved |-> Solves(log), gaveUp |-> FALSE]
  OBVIOUS
<1>6. PICK said : said = [status |-> "ok", stored |-> TRUE,
                          state |-> [log |-> log, solved |-> after.solved, gaveUp |-> FALSE]]
  OBVIOUS
<1>7. \/ \E status \in {"puzzle_changed", "forbidden"} : s = <<row[a], Verdict(status)>>
      \/ \E status \in {"refused", "too_fast"} : s = <<row[a], Says(status, a, c.edition)>>
      \/ /\ s = <<after, said>>
         /\ c.edition = published /\ Len(log) <= Cap
         /\ Stored(a, c.edition) => ~row[a].solved /\ ~row[a].gaveUp
  <2>1. CASE c.edition # published
    BY <2>1 DEF ServedAppend
  <2>2. CASE c.edition = published /\ ~Stored(a, c.edition) /\ ~c.token
    BY <2>2 DEF ServedAppend
  <2>3. CASE c.edition = published /\ Stored(a, c.edition) /\ (row[a].solved \/ row[a].gaveUp)
    BY <2>3 DEF ServedAppend
  <2>4. CASE /\ c.edition = published /\ (Stored(a, c.edition) \/ c.token)
             /\ Stored(a, c.edition) => ~row[a].solved /\ ~row[a].gaveUp
    <3>1. CASE Len(log) > Cap
      <4>1. PICK v : v = <<row[a], Says("refused", a, c.edition)>>
        OBVIOUS
      <4>2. s \in {v}
        BY <1>1, <1>2, <2>4, <3>1, <4>1 DEF ServedAppend
      <4> QED
        BY <4>1, <4>2
    <3>2. CASE ~(Len(log) > Cap)
      <4>1. PICK w : w = <<after, said>>
        BY Zenon
      <4>2. PICK v : v = <<row[a], Says("too_fast", a, c.edition)>>
        BY Zenon
      <4>3. s \in {w} \cup IF spare.faults > 0 THEN {v} ELSE {}
        BY <1>1, <1>2, <1>5, <1>6, <2>4, <3>2, <4>1, <4>2 DEF ServedAppend
      <4>4. Len(log) <= Cap
        BY <1>4, <3>2, BoundsAssumption
      <4> QED
        BY <2>4, <4>1, <4>2, <4>3, <4>4
    <3> QED
      BY <3>1, <3>2
  <2> QED
    BY <2>1, <2>2, <2>3, <2>4
<1> QED
  BY <1>2, <1>3, <1>4, <1>5, <1>6, <1>7

LEMMA ServedAppendFacts ==
    ASSUME published \in Nat, NEW a \in Accounts, RowShape(row[a]), NEW c, RequestShape(c), c.kind = "append",
           a = c.epoch[1], NEW s \in ServedAppend(c)
    PROVE  RowShape(s[1]) /\ Truly(c, row[a], s[1], s[2]) /\ Follows(row[a], s[1])
<1>1. PICK before, log, after, said :
              /\ log = before \o c.batch /\ before \in Logs /\ log \in Logs
              /\ Stored(a, c.edition) => before = row[a].log
              /\ ~Stored(a, c.edition) => before = <<>>
              /\ after = [edition |-> c.edition, log |-> log, solved |-> Solves(log), gaveUp |-> FALSE]
              /\ said = [status |-> "ok", stored |-> TRUE,
                         state |-> [log |-> log, solved |-> after.solved, gaveUp |-> FALSE]]
              /\ \/ \E status \in {"puzzle_changed", "forbidden"} : s = <<row[a], Verdict(status)>>
                 \/ \E status \in {"refused", "too_fast"} : s = <<row[a], Says(status, a, c.edition)>>
                 \/ /\ s = <<after, said>>
                    /\ c.edition = published /\ Len(log) <= Cap
                    /\ Stored(a, c.edition) => ~row[a].solved /\ ~row[a].gaveUp
  BY ServedAppendIs
<1>2. Len(log) \in Nat
  BY <1>1 DEF Logs
<1>3. ASSUME NEW status \in {"puzzle_changed", "forbidden"}, s = <<row[a], Verdict(status)>>
      PROVE  RowShape(s[1]) /\ Truly(c, row[a], s[1], s[2]) /\ Follows(row[a], s[1])
  <2>1. PICK v : v = Verdict(status)
    OBVIOUS
  <2>2. Fits(c.kind, v)
    BY <2>1 DEF Fits, Verdict, Shown3
  <2>3. s[1] = row[a] /\ s[2] = v
    BY <1>3, <2>1
  <2> QED
    BY <2>1, <2>2, <2>3, VerdictTruly DEF Shown3
<1>4. ASSUME NEW status \in {"refused", "too_fast"}, s = <<row[a], Says(status, a, c.edition)>>
      PROVE  RowShape(s[1]) /\ Truly(c, row[a], s[1], s[2]) /\ Follows(row[a], s[1])
  <2>1. PICK v : v = Says(status, a, c.edition)
    OBVIOUS
  <2>2. v.status = status /\ v.state \in Snapshots
    BY <2>1, SaysFacts DEF Shown3
  <2>3. Fits(c.kind, v)
    BY <2>2 DEF Fits, Shown3
  <2>4. s[1] = row[a] /\ s[2] = v
    BY <1>4, <2>1
  <2> QED
    BY <2>1, <2>3, <2>4, SaysTruly DEF Shown3
<1>5. ASSUME s = <<after, said>>, c.edition = published, Len(log) <= Cap,
              Stored(a, c.edition) => ~row[a].solved /\ ~row[a].gaveUp
       PROVE  RowShape(s[1]) /\ Truly(c, row[a], s[1], s[2]) /\ Follows(row[a], s[1])
  <2>1. s[1] = after /\ s[2] = said
    BY <1>5
  <2>2. PICK solves \in BOOLEAN : solves = Solves(log)
    BY DEF Solves
  <2>3. /\ DOMAIN after = {"edition", "log", "solved", "gaveUp"}
        /\ after.edition = c.edition /\ after.log = log /\ after.solved = solves /\ ~after.gaveUp
        /\ after.gaveUp \in BOOLEAN
    BY <1>1, <2>2
  <2>4. RowShape(after)
    BY <1>1, <1>2, <1>5, <2>3 DEF RowShape
  <2>5. /\ said.status = "ok" /\ said.state \in Snapshots
        /\ said.state.log = log /\ said.state.solved = solves /\ ~said.state.gaveUp
    BY <1>1, <2>2, <2>3 DEF Snapshots
  <2>6. Fits(c.kind, said)
    BY <2>5 DEF Fits, Shown3
  <2>7. IsPrefix(log, log) /\ (Stored(a, c.edition) => IsPrefix(row[a].log, log))
    BY <1>1, PrefixFacts DEF RequestShape
  <2>8. Truly(c, row[a], after, said)
    BY <2>3, <2>5, <2>6, <2>7 DEF Truly, Stored
  <2>9. Follows(row[a], after)
    BY <1>5, <2>3, <2>7 DEF Follows, Stored
  <2> QED
    BY <2>1, <2>4, <2>8, <2>9
<1> QED
  BY <1>1, <1>3, <1>4, <1>5

(* The row after any request, and its answer.                              *)
LEMMA ServedFacts ==
    ASSUME Inv, NEW c, RequestShape(c), NEW s \in Served(c)
    PROVE  /\ c.epoch[1] \in Accounts
           /\ RowShape(s[1]) /\ Follows(row[c.epoch[1]], s[1])
           /\ Truly(c, row[c.epoch[1]], s[1], s[2])
<1>1. PICK a \in Accounts : a = c.epoch[1]
  BY DEF RequestShape
<1>2. RowShape(row[a]) /\ published \in Nat
  BY DEF Inv, Rows, Editions
<1>3. CASE c.epoch \in revoked
  <2>1. PICK v : v = Verdict("unknown_device")
    OBVIOUS
  <2>2. s[1] = row[a] /\ s[2] = v
    BY <1>1, <1>3, <2>1 DEF Served
  <2>3. Fits(c.kind, v)
    BY <2>1 DEF Fits, Verdict, Shown3
  <2> QED
    BY <1>1, <1>2, <2>1, <2>2, <2>3, VerdictTruly DEF Shown3
<1>4. CASE c.epoch \notin revoked
  <2>1. CASE c.kind = "read"
    <3>1. s \in ServedRead(c)
      BY <1>4, <2>1 DEF Served
    <3> QED
      BY <1>1, <1>2, <2>1, <3>1, ServedReadFacts
  <2>2. CASE c.kind = "giveUp"
    <3>1. s \in ServedGiveUp(c)
      BY <1>4, <2>2 DEF Served
    <3> QED
      BY <1>1, <1>2, <2>2, <3>1, ServedGiveUpFacts
  <2>3. CASE c.kind = "append"
    <3>1. s \in ServedAppend(c)
      BY <1>4, <2>3 DEF Served
    <3> QED
      BY <1>1, <1>2, <2>3, <3>1, ServedAppendFacts
  <2> QED
    BY <2>1, <2>2, <2>3 DEF RequestShape
<1> QED
  BY <1>3, <1>4

(* A row moves on.                                                         *)
Forward(a, r) ==
    /\ a \in Accounts /\ RowShape(r) /\ Follows(row[a], r)
    /\ row' = [row EXCEPT ![a] = r]
    /\ UNCHANGED published

LEMMA ForwardRows ==
    ASSUME Inv, NEW a, NEW r, Forward(a, r)
    PROVE  /\ Rows'
           /\ row'[a] = r
           /\ \A b \in Accounts : Follows(row[b], row'[b])
<1>1. DOMAIN row' = Accounts /\ \A b \in Accounts : row'[b] = IF b = a THEN r ELSE row[b]
  BY DEF Inv, Rows, Forward
<1>2. ASSUME NEW b \in Accounts
      PROVE  RowShape(row[b])' /\ Follows(row[b], row'[b])
  <2>1. RowShape(row[b]) /\ row[b].log \in Logs /\ IsPrefix(row[b].log, row[b].log)
    BY PrefixFacts DEF Inv, Rows, RowShape
  <2>2. PICK q : q = row'[b]
    OBVIOUS
  <2>3. RowShape(q) /\ Follows(row[b], q)
    BY <1>1, <2>1, <2>2 DEF Forward, Follows
  <2>4. RowShape(q)'
    BY <2>3 DEF RowShape, Forward
  <2> QED
    BY <2>2, <2>3, <2>4
<1> QED
  BY <1>1, <1>2 DEF Inv, Rows, Forward

(* What was told stays told.                                               *)
LEMMA ForwardTold ==
    ASSUME Inv, NEW a, NEW r, Forward(a, r), NEW s, s.log \in Logs, NEW b \in Accounts, NEW e, Told(s, b, e),
           e \in Nat, e <= published
    PROVE  Told(s, b, e)'
<1>1. CASE Bare(s) \/ e < published
  BY <1>1 DEF Told, Forward
<1>2. CASE /\ Stored(b, e) /\ IsPrefix(s.log, row[b].log)
           /\ s.solved => row[b].solved
           /\ s.gaveUp => row[b].gaveUp
  <2>1. PICK q : q = row'[b]
    OBVIOUS
  <2>2. Follows(row[b], q)
    BY <2>1, ForwardRows
  <2>3. RowShape(q)'
    BY <2>1, ForwardRows DEF Rows
  <2>4. q.log \in Logs /\ row[b].log \in Logs /\ row[b].edition = e /\ published \in Nat
    BY <1>2, <2>3 DEF RowShape, Inv, Rows, Stored, Editions
  <2>5. CASE /\ q.edition = e /\ IsPrefix(row[b].log, q.log)
             /\ row[b].solved => q.solved
             /\ row[b].gaveUp => q.gaveUp
    <3>1. IsPrefix(s.log, q.log)
      BY <1>2, <2>4, <2>5, PrefixTransitive
    <3> QED
      BY <1>2, <2>1, <2>5, <3>1 DEF Told, Stored
  <2>6. CASE e # published
    BY <2>4, <2>6 DEF Told, Forward
  <2> QED
    BY <2>2, <2>4, <2>5, <2>6 DEF Follows
<1> QED
  BY <1>1, <1>2 DEF Told

(* A tab that only waits stays sane while rows move on.                    *)
LEMMA ForwardSane ==
    ASSUME Inv, NEW a, NEW r, Forward(a, r), NEW x, Sane(x)
    PROVE  Sane(x)'
<1>1. TabShape(x)' /\ Settings(x)' /\ Strays(x)' /\ Newer(x)'
  BY DEF Sane, TabShape, Settings, Strays, Newer, Forward
<1>2. Awaits(x)'
  <2>1. CASE x.call.at = "answered" /\ x.call.answer.status \in Shown3
    <3>1. PICK st, b, e : st = x.call.answer.state /\ b = x.call.epoch[1] /\ e = x.call.edition
      OBVIOUS
    <3>2. st.log \in Logs /\ b \in Accounts /\ e \in Nat
      BY <2>1, <3>1 DEF Sane, TabShape, CallShape, RequestShape, Fits, Snapshots, Editions
    <3>3. Told(st, b, e) /\ e <= published
      BY <2>1, <3>1, <3>2 DEF Sane, Awaits, SaidTrue, Settings, TabShape, Editions, Inv, Rows
    <3>4. Told(st, b, e)'
      BY <3>2, <3>3, ForwardTold
    <3> QED
      BY <3>1, <3>4 DEF Sane, Awaits, SaidTrue
  <2>2. CASE ~(x.call.at = "answered" /\ x.call.answer.status \in Shown3)
    BY <2>2 DEF Sane, Awaits, SaidTrue
  <2> QED
    BY <2>1, <2>2
<1>3. Shows(x)'
  <2>1. CASE x.flight.open /\ x.who # None
    <3>1. PICK st, b, e : st = x.flight.server /\ b = x.who /\ e = x.page
      OBVIOUS
    <3>2. st.log \in Logs /\ b \in Accounts /\ e \in Nat /\ e <= published
      BY <2>1, <3>1, ServerShape DEF Sane, TabShape, Editions, Settings
    <3>3. Told(st, b, e)
      BY <2>1, <3>1 DEF Sane, Shows
    <3>4. Told(st, b, e)'
      BY <3>2, <3>3, ForwardTold
    <3> QED
      BY <3>1, <3>4 DEF Shows
  <2>2. CASE ~(x.flight.open /\ x.who # None)
    BY <2>2 DEF Shows
  <2> QED
    BY <2>1, <2>2
<1> QED
  BY <1>1, <1>2, <1>3 DEF Sane

(* What a tab is, but for its requests.                                    *)
Stays(x, m) ==
    /\ m.page = x.page /\ m.who = x.who /\ m.device = x.device
    /\ m.box = x.box /\ m.flight = x.flight

(* The server answers the request a tab waits for: with nothing older than *)
(* what the tab shows, since rows of the page's edition only grow.         *)
LEMMA ServeKeeps ==
    ASSUME Inv, NEW t \in Tabs, Serve(t)
    PROVE  /\ Inv'
           /\ \A u \in Tabs : Stays(tab[u], tab'[u])
           /\ UNCHANGED <<published, typed>>
           /\ \A b \in Accounts : Follows(row[b], row'[b])
<1>1. PICK x, c : x = tab[t] /\ c = x.call
  OBVIOUS
<1>2. Sane(x) /\ TabShape(x) /\ c.at = "sent"
  BY <1>1, TabSane DEF Serve
<1>3. RequestShape(c)
  BY <1>1, <1>2 DEF TabShape, CallShape
<1>4. PICK s \in Served(c) :
        /\ row' = [row EXCEPT ![c.epoch[1]] = s[1]]
        /\ tab' = [tab EXCEPT ![t] = [x EXCEPT !.call.at = "answered", !.call.answer = s[2]]]
  <2>1. PICK s \in Served(tab[t].call) :
        /\ row' = [row EXCEPT ![tab[t].call.epoch[1]] = s[1]]
        /\ Put(t, [tab[t] EXCEPT !.call.at = "answered", !.call.answer = s[2]])
    BY Zenon DEF Serve
  <2>2. tab' = [tab EXCEPT ![t] = [x EXCEPT !.call.at = "answered", !.call.answer = s[2]]]
    BY <1>1, <2>1 DEF Put
  <2>3. s \in Served(c) /\ row' = [row EXCEPT ![c.epoch[1]] = s[1]]
    BY <1>1, <2>1
  <2> QED
    BY <2>2, <2>3, Zenon
<1>5. PICK a, r, said : a = c.epoch[1] /\ r = s[1] /\ said = s[2]
  OBVIOUS
<1>6. a \in Accounts /\ RowShape(r) /\ Follows(row[a], r) /\ Truly(c, row[a], r, said)
  BY <1>3, <1>4, <1>5, ServedFacts
<1>7. Forward(a, r)
  BY <1>4, <1>5, <1>6 DEF Forward, Serve
<1>8. PICK d : d = [c EXCEPT !.at = "answered", !.answer = said]
  OBVIOUS
<1>9. /\ RequestShape(d) /\ d.at = "answered" /\ d.answer = said
      /\ d.edition = c.edition /\ d.epoch = c.epoch
  BY <1>3, <1>6, <1>8 DEF RequestShape, Truly
<1>10. PICK m : m = [x EXCEPT !.call = d]
  OBVIOUS
<1>11. /\ TabShape(m) /\ m.call = d
       /\ m.page = x.page /\ m.who = x.who /\ m.device = x.device /\ m.box = x.box
       /\ m.stray = x.stray /\ m.flight = x.flight
  BY <1>2, <1>9, <1>10 DEF TabShape, CallShape
<1>12. tab' = [tab EXCEPT ![t] = m]
  <2>1. m = [x EXCEPT !.call.at = "answered", !.call.answer = said]
    BY <1>1, <1>2, <1>3, <1>8, <1>10 DEF TabShape, RequestShape
  <2> QED
    BY <1>4, <1>5, <2>1
<1>13. Rows' /\ row'[a] = r /\ \A b \in Accounts : Follows(row[b], row'[b])
  BY <1>7, ForwardRows
<1>14. Sane(x)'
  BY <1>2, <1>7, ForwardSane
<1>15. /\ x.flight.open /\ x.who # None /\ c.edition <= x.page /\ c.epoch[2] <= x.device
       /\ c.epoch[2] = x.device => a = x.who
  BY <1>1, <1>2, <1>5 DEF Sane, Awaits, Settings
<1>16. Awaits(m)'
  <2>1. SaidTrue(d)'
    <3>1. said.status \in Shown3 => Told(said.state, a, c.edition)'
      BY <1>6, <1>13 DEF Truly, Told, Stored
    <3> QED
      BY <1>5, <1>9, <3>1 DEF SaidTrue
  <2> QED
    BY <1>5, <1>9, <1>11, <1>15, <2>1 DEF Awaits
<1>17. Newer(m)
  <2> SUFFICES ASSUME c.edition = x.page, x.page = published, c.epoch[2] = x.device
               PROVE  /\ said.status \in Shown3 => IsPrefix(x.flight.server.log, said.state.log)
                      /\ said.status = "not_found" => x.flight.server.log = <<>>
    BY <1>9, <1>11 DEF Newer
  <2>1. Told(x.flight.server, a, published) /\ published \in Nat
    BY <1>2, <1>15 DEF Sane, Shows, Inv, Rows, Editions
  <2>2. x.flight.server.log \in Logs /\ (said.status \in Shown3 => said.state.log \in Logs)
    BY <1>2, <1>6, <1>15, ServerShape DEF Truly, Fits, Snapshots
  <2>3. CASE x.flight.server.log = <<>>
    BY <2>2, <2>3, PrefixFacts
  <2>4. CASE Stored(a, published) /\ IsPrefix(x.flight.server.log, row[a].log)
    <3>1. said.status # "not_found"
      BY <1>6, <2>4 DEF Truly, Stored
    <3>2. ASSUME said.status \in Shown3
          PROVE  IsPrefix(x.flight.server.log, said.state.log)
      <4>1. IsPrefix(row[a].log, said.state.log)
        BY <1>6, <2>4, <3>2 DEF Truly, Stored
      <4>2. row[a].log \in Logs
        BY <1>6 DEF Inv, Rows, RowShape
      <4> QED
        BY <2>2, <2>4, <3>2, <4>1, <4>2, PrefixTransitive
    <3> QED
      BY <3>1, <3>2
  <2> QED
    BY <2>1, <2>3, <2>4 DEF Told, Bare
<1>18. Sane(m)'
  <2>1. TabShape(m)' /\ Newer(m)'
    BY <1>7, <1>11, <1>17 DEF TabShape, Newer, Forward
  <2>2. Settings(m)'
    BY <1>11, <1>14, <1>15 DEF Sane, Settings
  <2>3. Strays(m)' /\ Shows(m)'
    BY <1>11, <1>14 DEF Sane, Strays, Shows
  <2> QED
    BY <1>16, <2>1, <2>2, <2>3 DEF Sane
<1>19. DOMAIN tab' = Tabs /\ \A u \in Tabs : tab'[u] = IF u = t THEN m ELSE tab[u]
  BY <1>12 DEF Inv
<1>20. ASSUME NEW u \in Tabs
       PROVE  Sane(tab[u])' /\ Stays(tab[u], tab'[u])
  <2>1. CASE u = t
    BY <1>1, <1>11, <1>18, <1>19, <2>1 DEF Stays
  <2>2. CASE u # t
    <3>1. PICK y : y = tab[u]
      OBVIOUS
    <3>2. Sane(y)'
      BY <1>7, <3>1, ForwardSane, TabSane
    <3> QED
      BY <1>19, <2>2, <3>1, <3>2 DEF Stays
  <2> QED
    BY <2>1, <2>2
<1>21. LateShape' /\ UNCHANGED <<published, typed>>
  BY DEF Inv, LateShape, Serve
<1> QED
  BY <1>13, <1>19, <1>20, <1>21 DEF Inv

(* The server answers a request that was left behind.                      *)
LEMMA ServeStrayKeeps ==
    ASSUME Inv, NEW t \in Tabs, ServeStray(t)
    PROVE  /\ Inv'
           /\ \A u \in Tabs : Stays(tab[u], tab'[u])
           /\ UNCHANGED <<published, typed>>
           /\ \A b \in Accounts : Follows(row[b], row'[b])
<1>1. PICK x, c : x = tab[t] /\ c = x.stray
  OBVIOUS
<1>2. Sane(x) /\ TabShape(x) /\ c.at = "sent"
  BY <1>1, TabSane DEF ServeStray
<1>3. RequestShape(c)
  BY <1>1, <1>2 DEF TabShape, CallShape
<1>4. PICK s \in Served(c) :
        /\ row' = [row EXCEPT ![c.epoch[1]] = s[1]]
        /\ tab' = [tab EXCEPT ![t] = [x EXCEPT !.stray.at = "answered", !.stray.answer = s[2]]]
  <2>1. PICK s \in Served(tab[t].stray) :
        /\ row' = [row EXCEPT ![tab[t].stray.epoch[1]] = s[1]]
        /\ Put(t, [tab[t] EXCEPT !.stray.at = "answered", !.stray.answer = s[2]])
    BY Zenon DEF ServeStray
  <2>2. tab' = [tab EXCEPT ![t] = [x EXCEPT !.stray.at = "answered", !.stray.answer = s[2]]]
    BY <1>1, <2>1 DEF Put
  <2>3. s \in Served(c) /\ row' = [row EXCEPT ![c.epoch[1]] = s[1]]
    BY <1>1, <2>1
  <2> QED
    BY <2>2, <2>3, Zenon
<1>5. PICK a, r, said : a = c.epoch[1] /\ r = s[1] /\ said = s[2]
  OBVIOUS
<1>6. a \in Accounts /\ RowShape(r) /\ Follows(row[a], r) /\ Truly(c, row[a], r, said)
  BY <1>3, <1>4, <1>5, ServedFacts
<1>7. Forward(a, r)
  BY <1>4, <1>5, <1>6 DEF Forward, ServeStray
<1>8. PICK d : d = [c EXCEPT !.at = "answered", !.answer = said]
  OBVIOUS
<1>9. RequestShape(d) /\ d.at = "answered" /\ d.edition = c.edition /\ d.epoch = c.epoch
  BY <1>3, <1>6, <1>8 DEF RequestShape, Truly
<1>10. PICK m : m = [x EXCEPT !.stray = d]
  OBVIOUS
<1>11. /\ TabShape(m) /\ m.stray = d
       /\ m.page = x.page /\ m.who = x.who /\ m.device = x.device /\ m.box = x.box
       /\ m.call = x.call /\ m.flight = x.flight
  BY <1>2, <1>9, <1>10 DEF TabShape, CallShape
<1>12. tab' = [tab EXCEPT ![t] = m]
  <2>1. m = [x EXCEPT !.stray.at = "answered", !.stray.answer = said]
    BY <1>1, <1>2, <1>3, <1>8, <1>10 DEF TabShape, RequestShape
  <2> QED
    BY <1>4, <1>5, <2>1
<1>13. Rows' /\ \A b \in Accounts : Follows(row[b], row'[b])
  BY <1>7, ForwardRows
<1>14. Sane(x)'
  BY <1>2, <1>7, ForwardSane
<1>15. Sane(m)'
  <2>1. TabShape(m)'
    BY <1>11 DEF TabShape
  <2>2. Settings(m)' /\ Shows(m)' /\ Newer(m)'
    BY <1>11, <1>14 DEF Sane, Settings, Shows, Newer
  <2>3. Awaits(m)'
    BY <1>11, <1>14 DEF Sane, Awaits
  <2>4. Strays(m)'
    BY <1>1, <1>2, <1>7, <1>9, <1>11 DEF Sane, Strays, Forward
  <2> QED
    BY <2>1, <2>2, <2>3, <2>4 DEF Sane
<1>16. DOMAIN tab' = Tabs /\ \A u \in Tabs : tab'[u] = IF u = t THEN m ELSE tab[u]
  BY <1>12 DEF Inv
<1>17. ASSUME NEW u \in Tabs
       PROVE  Sane(tab[u])' /\ Stays(tab[u], tab'[u])
  <2>1. CASE u = t
    BY <1>1, <1>11, <1>15, <1>16, <2>1 DEF Stays
  <2>2. CASE u # t
    <3>1. PICK y : y = tab[u]
      OBVIOUS
    <3>2. Sane(y)'
      BY <1>7, <3>1, ForwardSane, TabSane
    <3> QED
      BY <1>16, <2>2, <3>1, <3>2 DEF Stays
  <2> QED
    BY <2>1, <2>2
<1>18. LateShape' /\ UNCHANGED <<published, typed>>
  BY DEF Inv, LateShape, ServeStray
<1> QED
  BY <1>13, <1>16, <1>17, <1>18 DEF Inv

(* A request nobody waits for reaches the server.                          *)
LEMMA ServeLateKeeps ==
    ASSUME Inv, ServeLate
    PROVE  /\ Inv'
           /\ UNCHANGED <<published, typed, tab>>
           /\ \A b \in Accounts : Follows(row[b], row'[b])
<1>1. PICK c \in late :
        /\ late' = late \ {c}
        /\ \E s \in Served(c) : row' = [row EXCEPT ![c.epoch[1]] = s[1]]
        /\ UNCHANGED <<published, tab, typed>>
  BY DEF ServeLate
<1>2. PICK s \in Served(c) : row' = [row EXCEPT ![c.epoch[1]] = s[1]]
  BY <1>1
<1>3. RequestShape(c)
  BY DEF Inv, LateShape
<1>4. PICK a, r : a = c.epoch[1] /\ r = s[1]
  OBVIOUS
<1>5. a \in Accounts /\ RowShape(r) /\ Follows(row[a], r)
  BY <1>2, <1>3, <1>4, ServedFacts
<1>6. Forward(a, r)
  BY <1>1, <1>2, <1>4, <1>5 DEF Forward
<1>7. Rows' /\ \A b \in Accounts : Follows(row[b], row'[b])
  BY <1>6, ForwardRows
<1>8. ASSUME NEW u \in Tabs
      PROVE  Sane(tab[u])'
  <2>1. PICK y : y = tab[u]
    OBVIOUS
  <2>2. Sane(y)'
    BY <1>6, <2>1, ForwardSane, TabSane
  <2> QED
    BY <1>1, <2>1, <2>2
<1>9. LateShape'
  BY <1>1 DEF Inv, LateShape
<1> QED
  BY <1>1, <1>7, <1>8, <1>9 DEF Inv

(* A new edition: what was told of the one before is of a retired one.     *)
LEMMA RepublishKeeps ==
    ASSUME Inv, Republish
    PROVE  Inv' /\ UNCHANGED <<row, tab, typed>> /\ published' = published + 1
<1>1. /\ UNCHANGED <<row, tab, typed, late>> /\ published' = published + 1
      /\ published \in Nat /\ published < MaxEdition /\ published' \in Editions
  BY BoundsAssumption DEF Republish, Inv, Rows, Editions
<1>2. Rows'
  BY <1>1 DEF Inv, Rows, RowShape
<1>3. LateShape'
  <2>1. ASSUME NEW c \in late
        PROVE  RequestShape(c) /\ c.at = "sent" /\ c.edition <= published + 1
    BY <1>1, <2>1 DEF Inv, LateShape, RequestShape, Editions
  <2> QED
    BY <1>1, <2>1 DEF LateShape, RequestShape, CallShape
<1>4. ASSUME NEW x, Sane(x)
      PROVE  Sane(x)'
  <2>1. x.page \in Nat /\ x.page <= published /\ x.page < published + 1
    BY <1>1, <1>4 DEF Sane, Settings, TabShape, Editions
  <2>2. TabShape(x)' /\ Settings(x)'
    BY <1>1, <1>4, <2>1 DEF Sane, TabShape, Settings
  <2>3. Shows(x)'
    BY <1>1, <2>1 DEF Shows, Told
  <2>4. Newer(x)'
    BY <1>1, <2>1 DEF Newer
  <2>5. Awaits(x)'
    <3>1. x.call.at # "none" => x.call.edition \in Nat
      BY <1>4 DEF Sane, TabShape, CallShape, RequestShape, Editions
    <3>2. x.call.at # "none" => x.call.edition < published'
      BY <1>1, <1>4, <2>1, <3>1 DEF Sane, Awaits
    <3> QED
      BY <1>4, <3>2 DEF Sane, Awaits, SaidTrue, Told
  <2>6. Strays(x)'
    <3>1. x.stray.at # "none" => x.stray.edition \in Nat
      BY <1>4 DEF Sane, TabShape, CallShape, RequestShape, Editions
    <3> QED
      BY <1>1, <1>4, <3>1 DEF Sane, Strays
  <2> QED
    BY <2>2, <2>3, <2>4, <2>5, <2>6 DEF Sane
<1>5. ASSUME NEW u \in Tabs
      PROVE  Sane(tab[u])'
  <2>1. PICK y : y = tab[u]
    OBVIOUS
  <2>2. Sane(y)'
    BY <1>4, <2>1, TabSane
  <2> QED
    BY <1>1, <2>1, <2>2
<1> QED
  BY <1>1, <1>2, <1>3, <1>5 DEF Inv

-----------------------------------------------------------------------------
(* Every step.                                                             *)

(* A step of one tab.                                                      *)
TabStep ==
    /\ UNCHANGED <<published, row>>
    /\ \E t \in Tabs, m \in {tab'[u] : u \in Tabs} :
        /\ Goes(tab[t], m)
        /\ tab' = [tab EXCEPT ![t] = m]
        /\ \/ UNCHANGED typed
           \/ \E g \in Guesses :
                /\ typed' = typed \cup {[tab |-> t, who |-> m.who, device |-> m.device,
                                         edition |-> m.page, guess |-> g]}
                /\ m.who # None /\ m.page = tab[t].page /\ m.device = tab[t].device
                /\ m.box.edition = m.page /\ Key[g] \in Identities(m.box.log)

(* A step of the server, or of nobody.                                     *)
RowStep ==
    /\ UNCHANGED typed
    /\ \A u \in Tabs : Stays(tab[u], tab'[u])
    /\ \/ /\ UNCHANGED published
          /\ \A b \in Accounts : Follows(row[b], row'[b])
       \/ published' = published + 1 /\ UNCHANGED row

LEMMA TabSteps ==
    ASSUME Inv, NEW t \in Tabs, UNCHANGED <<published, row>>, LateShape',
           NEW m, Goes(tab[t], m), tab' = [tab EXCEPT ![t] = m],
           \/ UNCHANGED typed
           \/ \E g \in Guesses :
                /\ typed' = typed \cup {[tab |-> t, who |-> m.who, device |-> m.device,
                                         edition |-> m.page, guess |-> g]}
                /\ m.who # None /\ m.page = tab[t].page /\ m.device = tab[t].device
                /\ m.box.edition = m.page /\ Key[g] \in Identities(m.box.log)
    PROVE  Inv' /\ TabStep
<1>1. Inv'
  BY GoesKeeps
<1>2. tab'[t] = m
  BY DEF Inv
<1>3. m \in {tab'[u] : u \in Tabs}
  BY <1>2
<1> QED
  BY <1>1, <1>3, Zenon DEF TabStep

LEMMA LateKept == ASSUME Inv, UNCHANGED <<late, published>> PROVE LateShape'
BY DEF Inv, LateShape, RequestShape

LEMMA ClientSteps ==
    ASSUME Inv, NEW t \in Tabs, Client(t)
    PROVE  Inv' /\ TabStep
<1>1. UNCHANGED <<published, row, late, typed>>
  BY DEF Client, Pump, Challenged, Land, StrayLands
<1>2. LateShape'
  BY <1>1, LateKept
<1>3. \E m : Goes(tab[t], m) /\ tab' = [tab EXCEPT ![t] = m]
  BY PumpGoes, ChallengedGoes, LandGoes, StrayLandsGoes, Zenon DEF Client
<1> QED
  BY <1>1, <1>2, <1>3, TabSteps

LEMMA PlayerSteps ==
    ASSUME Inv, NEW t \in Tabs, Player(t)
    PROVE  Inv' /\ TabStep
<1>1. UNCHANGED <<published, row, late>> /\ LateShape'
  <2>1. UNCHANGED <<published, row, late>>
    <3>1. Type(t) => UNCHANGED <<published, row, late>>
      BY Zenon DEF Type
    <3>2. AskGiveUp(t) \/ Prune(t) \/ Retry(t) => UNCHANGED <<published, row, late>>
      BY Zenon DEF AskGiveUp, Prune, Retry
    <3>3. Visit(t) \/ Reload(t) => UNCHANGED <<published, row, late>>
      BY Zenon DEF Visit, Reload
    <3> QED
      BY <3>1, <3>2, <3>3, Zenon DEF Player
  <2> QED
    BY <2>1, LateKept
<1>2. CASE Type(t)
  <2>1. PICK m : /\ Goes(tab[t], m) /\ tab' = [tab EXCEPT ![t] = m]
                 /\ \E g \in Guesses :
                        /\ typed' = typed \cup {[tab |-> t, who |-> m.who, device |-> m.device,
                                                 edition |-> m.page, guess |-> g]}
                        /\ m.who # None /\ m.page = tab[t].page /\ m.device = tab[t].device
                        /\ m.box.edition = m.page /\ Key[g] \in Identities(m.box.log)
    BY <1>2, TypeGoes
  <2> QED
    BY <1>1, <2>1, TabSteps
<1>3. CASE AskGiveUp(t) \/ Visit(t) \/ Reload(t) \/ Prune(t) \/ Retry(t)
  <2>1. UNCHANGED typed
    BY <1>3 DEF AskGiveUp, Visit, Reload, Prune, Retry
  <2>2. \E m : Goes(tab[t], m) /\ tab' = [tab EXCEPT ![t] = m]
    BY <1>3, AskGiveUpGoes, VisitGoes, ReloadGoes, PruneGoes, RetryGoes, Zenon
  <2> QED
    BY <1>1, <2>1, <2>2, TabSteps
<1> QED
  BY <1>2, <1>3 DEF Player

LEMMA WorldSteps ==
    ASSUME Inv, NEW t \in Tabs, World(t)
    PROVE  Inv' /\ (TabStep \/ RowStep)
<1>1. UNCHANGED <<published, row, typed>>
  <2>1. Fail(t) \/ Delay(t) \/ Revoke(t) => UNCHANGED <<published, row, typed>>
    BY DEF Fail, Delay, Revoke
  <2>2. Move(t) \/ ChangeDevice(t) => UNCHANGED <<published, row, typed>>
    BY DEF Move, ChangeDevice
  <2>3. Acquire(t) => UNCHANGED <<published, row, typed>>
    BY Zenon DEF Acquire
  <2> QED
    BY <2>1, <2>2, <2>3 DEF World
<1>2. CASE Revoke(t)
  <2>1. UNCHANGED <<tab, late>>
    BY <1>2 DEF Revoke
  <2>2. Inv'
    BY <1>1, <2>1, InvKept
  <2>3. RowStep
    <3>1. \A b \in Accounts : Follows(row[b], row[b])
      BY PrefixFacts DEF Follows, Inv, Rows, RowShape
    <3> QED
      BY <1>1, <2>1, <3>1 DEF RowStep, Stays
  <2> QED
    BY <2>2, <2>3
<1>3. CASE Fail(t) \/ Delay(t) \/ Move(t) \/ Acquire(t) \/ ChangeDevice(t)
  <2>1. LateShape'
    <3>1. CASE UNCHANGED late
      BY <1>1, <3>1, LateKept
    <3>2. CASE Delay(t)
      <4>1. PICK x : x = tab[t]
        OBVIOUS
      <4>2. late' = late \cup {x.call} /\ x.call.at = "sent" /\ Sane(x)
        BY <3>2, <4>1, TabSane DEF Delay
      <4>3. /\ RequestShape(x.call) /\ x.page \in Nat /\ x.page <= published
            /\ published \in Nat /\ x.call.edition \in Nat
        BY <4>2 DEF Sane, TabShape, CallShape, RequestShape, Settings, Editions, Inv, Rows
      <4>4. x.call.edition <= published
        BY <4>2, <4>3 DEF Sane, Awaits
      <4> QED
        BY <1>1, <4>2, <4>3, <4>4 DEF Inv, LateShape, RequestShape
    <3> QED
      <4>1. Fail(t) \/ Move(t) \/ ChangeDevice(t) => UNCHANGED late
        BY DEF Fail, Move, ChangeDevice
      <4>2. Acquire(t) => UNCHANGED late
        BY Zenon DEF Acquire
      <4> QED
        BY <1>3, <3>1, <3>2, <4>1, <4>2
  <2>2. \E m : Goes(tab[t], m) /\ tab' = [tab EXCEPT ![t] = m]
    BY <1>3, FailGoes, MoveGoes, AcquireGoes, ChangeDeviceGoes, Zenon
  <2> QED
    BY <1>1, <2>1, <2>2, TabSteps
<1> QED
  BY <1>2, <1>3 DEF World

LEMMA EveryStep ==
    ASSUME Inv, [Next]_vars
    PROVE  Inv' /\ (TabStep \/ RowStep)
<1>1. ASSUME NEW t \in Tabs, Serve(t) \/ ServeStray(t)
      PROVE  Inv' /\ RowStep
  BY <1>1, ServeKeeps, ServeStrayKeeps DEF RowStep
<1>2. CASE ServeLate \/ Republish
  BY <1>2, ServeLateKeeps, RepublishKeeps DEF RowStep, Stays
<1>3. CASE UNCHANGED vars
  <2>1. UNCHANGED <<published, row, tab, late, typed>>
    BY <1>3 DEF vars
  <2>2. Inv'
    BY <2>1, InvKept
  <2>3. RowStep
    <3>1. \A b \in Accounts : Follows(row[b], row[b])
      BY PrefixFacts DEF Follows, Inv, Rows, RowShape
    <3> QED
      BY <2>1, <3>1 DEF RowStep, Stays
  <2> QED
    BY <2>2, <2>3
<1> QED
  BY <1>1, <1>2, <1>3, ClientSteps, PlayerSteps, WorldSteps DEF Next

-----------------------------------------------------------------------------
(* The beginning.                                                          *)

LEMMA InitInv ==
    ASSUME Init
    PROVE  Inv /\ TypedBefore /\ NoGuessLost
<1>1. PICK s \in Starts :
        /\ published = 1
        /\ row = s.row
        /\ tab = [t \in Tabs |->
                    [page |-> 1, who |-> s.who[t], device |-> 1, box |-> NoBox,
                     flight |-> IF s.on[t] THEN Fresh(1) ELSE NoFlight,
                     call |-> NoCall, stray |-> NoCall, on |-> s.on[t]]]
        /\ late = {}
        /\ typed = s.typed
  BY DEF Init
<1>2. Startable(s)
  BY StartsAssumption
<1>3. published \in Editions /\ 1 \in Editions
  BY <1>1, BoundsAssumption DEF Editions
<1>4. Rows
  BY <1>1, <1>2, <1>3 DEF Rows, RowShape, Startable, Logs
<1>5. ASSUME NEW t \in Tabs
      PROVE  Sane(tab[t]) /\ tab[t].page = 1 /\ tab[t].device = 1
  <2>1. PICK f : f = IF s.on[t] THEN Fresh(1) ELSE NoFlight
    OBVIOUS
  <2>2. /\ FlightShape(f) /\ f.giveUp = "none"
        /\ f.open => f.edition = 1 /\ Bare(f.server) /\ ~f.settled
    BY <1>3, <2>1, FreshFacts, NoFacts
  <2>3. PICK x : x = tab[t]
    OBVIOUS
  <2>4. x = [page |-> 1, who |-> s.who[t], device |-> 1, box |-> NoBox, flight |-> f,
             call |-> NoCall, stray |-> NoCall, on |-> s.on[t]]
    BY <1>1, <2>1, <2>3
  <2>5. s.who[t] \in Accounts \cup {None}
    BY <1>2 DEF Startable
  <2>6. TabShape(x)
    BY <1>3, <2>2, <2>4, <2>5, NoFacts DEF TabShape
  <2>7. Settings(x) /\ Shows(x)
    BY <1>1, <2>2, <2>4, NoFacts DEF Settings, Shows, Told
  <2>8. Awaits(x) /\ Strays(x) /\ Newer(x)
    BY <2>4, NoFacts DEF Awaits, Strays, Newer
  <2> QED
    BY <2>3, <2>4, <2>6, <2>7, <2>8 DEF Sane
<1>6. DOMAIN tab = Tabs
  BY <1>1
<1>7. Inv
  BY <1>1, <1>4, <1>5, <1>6 DEF Inv, LateShape
<1>8. ASSUME NEW w \in typed
      PROVE  /\ w.tab \in Tabs /\ w.who \in Accounts /\ w.device = 1 /\ w.edition = 1
             /\ row[w.who].edition = w.edition
             /\ Key[w.guess] \in Identities(row[w.who].log)
  BY <1>1, <1>2, <1>8 DEF Startable
<1>9. TypedBefore
  BY <1>3, <1>5, <1>8 DEF TypedBefore
<1>10. NoGuessLost
  BY <1>8 DEF NoGuessLost, Holds, Stored
<1> QED
  BY <1>7, <1>9, <1>10

-----------------------------------------------------------------------------
(* The theorems.                                                           *)

(* Whatever arrives, late, twice or for an identity that was left, the     *)
(* values of every tab, its request under way and its answer stay within   *)
(* the invariant.                                                          *)
THEOREM Conversations == Spec => []Inv
<1>1. Init => Inv
  BY InitInv
<1>2. Inv /\ [Next]_vars => Inv'
  BY EveryStep
<1> QED
  BY <1>1, <1>2, PTL DEF Spec

(* What a tab shows as the server's is the beginning of what the server    *)
(* stores for this account and this sentence, or of a sentence that was    *)
(* replaced (roundSync.ts, superseded).                                    *)
THEOREM Sound == Spec => []SyncSound
<1>1. ASSUME Inv
      PROVE  TypeOK
  <2>1. \A a \in Accounts :
          /\ row[a].edition \in Editions \cup {0}
          /\ row[a].log \in Seq(Guesses) /\ Len(row[a].log) <= Cap
    BY <1>1, BoundsAssumption DEF Inv, Rows, RowShape, Editions, Logs
  <2>2. ASSUME NEW t \in Tabs
        PROVE  /\ tab[t].page \in Editions
               /\ tab[t].who \in Accounts \cup {None}
               /\ tab[t].flight.giveUp \in {"none", "asked", "sent"}
               /\ tab[t].flight.giveUp # "none" => tab[t].flight.open
               /\ tab[t].call.at \in {"none", "token", "sent", "answered", "failed"}
               /\ tab[t].call.at # "none" => tab[t].flight.open
               /\ tab[t].stray.at \in {"none", "sent", "answered"}
    <3>1. PICK x : x = tab[t]
      OBVIOUS
    <3>2. Sane(x)
      BY <1>1, <3>1, TabSane
    <3> QED
      BY <3>1, <3>2 DEF Sane, TabShape, FlightShape, CallShape, RequestShape, Settings, Awaits, Strays
  <2> QED
    BY <1>1, <2>1, <2>2 DEF TypeOK, Inv, Rows
<1>2. ASSUME Inv
      PROVE  SnapshotIsOwn
  <2> SUFFICES ASSUME NEW t \in Tabs, NEW x, x = tab[t], x.flight.open, x.flight.server # EmptyServer
               PROVE  \/ /\ x.who # None /\ Stored(x.who, x.flight.edition)
                         /\ IsPrefix(x.flight.server.log, row[x.who].log)
                         /\ x.flight.server.solved => row[x.who].solved
                         /\ x.flight.server.gaveUp => row[x.who].gaveUp
                      \/ x.flight.edition # published
    BY DEF SnapshotIsOwn
  <2>1. Sane(x) /\ x.flight.edition = x.page /\ x.page \in Nat /\ published \in Nat
    BY <1>2, TabSane DEF Sane, Settings, TabShape, Editions, Inv, Rows
  <2>2. ~Bare(x.flight.server)
    BY <2>1, ServerShape, BareIs DEF Sane
  <2>3. x.who # None
    BY <2>1, <2>2 DEF Sane, Settings
  <2>4. Told(x.flight.server, x.who, x.page)
    BY <2>1, <2>3 DEF Sane, Shows
  <2> QED
    BY <2>1, <2>2, <2>3, <2>4 DEF Told
<1>3. Inv => SyncSound
  BY <1>1, <1>2 DEF SyncSound
<1> QED
  BY <1>3, Conversations, PTL

(* What the board shows of a tab.                                          *)
LEMMA BoardIs ==
    ASSUME NEW x
    PROVE  Board(x) = Identities(x.flight.server.log) \cup Owed(x.box, x.flight.edition)
<1>1. Identities(<<>>) = {}
  BY DEF Identities
<1> QED
  BY <1>1 DEF Board, Pending, Owed

(* An answer replaces the server's part of the board and shrinks the       *)
(* outbox in one step: no guess leaves the board of a round that goes on   *)
(* (gameStore.ts, settleOutbox).                                           *)
THEOREM BoardGrows == Spec => BoardKeepsGuesses
<1>1. ASSUME Inv, [Next]_vars, NEW t \in Tabs, NEW x, NEW y, x = tab[t], y = tab'[t],
             x.flight.open, y.flight.open, x.who = y.who, x.device = y.device,
             x.flight.edition = y.flight.edition, y.flight.settled, ~Over(y.flight.server),
             x.flight.edition = published
      PROVE  Board(x) \subseteq Board(y)
  <2>1. Inv' /\ (TabStep \/ RowStep)
    BY <1>1, EveryStep
  <2>2. x.flight.edition = x.page /\ Sane(x) /\ x.flight.server.log \in Logs
    BY <1>1, TabSane, ServerShape DEF Sane, Settings
  <2>3. CASE Stays(x, y)
    BY <1>1, <2>3, BoardIs DEF Stays
  <2>4. CASE Goes(x, y) /\ published' = published
    <3>1. y.flight.edition = y.page
      BY <1>1, <2>4 DEF Goes, Settings
    <3>2. IsPrefix(x.flight.server.log, y.flight.server.log) /\ y.flight.server.log \in Logs
      BY <1>1, <2>2, <2>4, <3>1, ServerShape DEF Goes
    <3>3. Identities(x.flight.server.log) \subseteq Identities(y.flight.server.log)
      BY <2>2, <3>2, PrefixFacts
    <3>4. Owed(x.box, x.page) \subseteq Owed(y.box, y.page) \cup Identities(y.flight.server.log)
      BY <1>1, <2>2, <2>4, <3>1 DEF Goes
    <3> QED
      BY <1>1, <2>2, <3>1, <3>3, <3>4, BoardIs
  <2>5. CASE TabStep
    <3>1. PICK u \in Tabs, m \in {tab'[v] : v \in Tabs} : Goes(tab[u], m) /\ tab' = [tab EXCEPT ![u] = m]
      BY <2>5 DEF TabStep
    <3>2. CASE u = t
      BY <1>1, <2>4, <2>5, <3>1, <3>2 DEF Inv, TabStep
    <3>3. CASE u # t
      BY <1>1, <2>3, <3>1, <3>3 DEF Inv, Stays
    <3> QED
      BY <3>2, <3>3
  <2>6. CASE RowStep
    BY <1>1, <2>3, <2>6 DEF RowStep
  <2> QED
    BY <2>1, <2>5, <2>6
<1>2. Inv /\ [Next]_vars =>
        [\A t \in Tabs :
            LET x == tab[t]
                y == tab'[t]
            IN  x.flight.open /\ y.flight.open /\ Epoch(t) = Epoch(t)' /\ x.flight.edition = y.flight.edition
                    /\ x.flight.settled /\ y.flight.settled /\ ~Over(y.flight.server)
                    /\ x.flight.edition = published =>
                    Board(x) \subseteq Board(y)]_vars
  BY <1>1 DEF Epoch
<1> QED
  BY <1>2, Conversations, PTL DEF Spec, BoardKeepsGuesses

(* Pages and devices only go forward, so what was typed stays behind.      *)
LEMMA TypedBeforeStep ==
    ASSUME Inv, TypedBefore, [Next]_vars
    PROVE  TypedBefore'
<1>1. Inv' /\ (TabStep \/ RowStep)
  BY EveryStep
<1>2. \A u \in Tabs : tab[u].page \in Nat /\ tab[u].device \in Nat
  BY TabSane DEF TabShape, Editions
<1>3. CASE TabStep
  <2>1. PICK t \in Tabs, m \in {tab'[v] : v \in Tabs} :
          /\ Goes(tab[t], m)
          /\ tab' = [tab EXCEPT ![t] = m]
          /\ \/ UNCHANGED typed
             \/ \E g \in Guesses :
                  /\ typed' = typed \cup {[tab |-> t, who |-> m.who, device |-> m.device,
                                           edition |-> m.page, guess |-> g]}
                  /\ m.who # None /\ m.page = tab[t].page /\ m.device = tab[t].device
    BY <1>3, Zenon DEF TabStep
  <2>2. /\ tab'[t] = m /\ \A u \in Tabs : u # t => tab'[u] = tab[u]
        /\ TabShape(m) /\ tab[t].page <= m.page /\ tab[t].device <= m.device
    BY <2>1 DEF Inv, Goes
  <2>3. m.page \in Nat /\ m.device \in Nat /\ m.page \in Editions /\ m.who \in Accounts \cup {None}
    BY <2>2 DEF TabShape, Editions
  <2>4. ASSUME NEW w \in typed
        PROVE  /\ w.tab \in Tabs /\ w.who \in Accounts /\ w.device \in Nat /\ w.edition \in Editions
               /\ w.device <= tab'[w.tab].device
               /\ w.edition <= tab'[w.tab].page
    <3>1. /\ w.tab \in Tabs /\ w.who \in Accounts /\ w.device \in Nat /\ w.edition \in Editions
          /\ w.device <= tab[w.tab].device /\ w.edition <= tab[w.tab].page
      BY <2>4 DEF TypedBefore
    <3>2. w.edition \in Nat
      BY <3>1 DEF Editions
    <3>3. tab[w.tab].page <= tab'[w.tab].page /\ tab[w.tab].device <= tab'[w.tab].device
          /\ tab'[w.tab].page \in Nat /\ tab'[w.tab].device \in Nat
      BY <1>2, <2>2, <2>3, <3>1
    <3> QED
      BY <1>2, <3>1, <3>2, <3>3
  <2>5. ASSUME NEW g \in Guesses, NEW w, m.who # None,
               w = [tab |-> t, who |-> m.who, device |-> m.device, edition |-> m.page, guess |-> g]
        PROVE  /\ w.tab \in Tabs /\ w.who \in Accounts /\ w.device \in Nat /\ w.edition \in Editions
               /\ w.device <= tab'[w.tab].device
               /\ w.edition <= tab'[w.tab].page
    BY <2>2, <2>3, <2>5
  <2>6. CASE UNCHANGED typed
    BY <2>4, <2>6 DEF TypedBefore
  <2>7. CASE \E g \in Guesses :
                  /\ typed' = typed \cup {[tab |-> t, who |-> m.who, device |-> m.device,
                                           edition |-> m.page, guess |-> g]}
                  /\ m.who # None
    <3>1. PICK g \in Guesses : typed' = typed \cup {[tab |-> t, who |-> m.who, device |-> m.device,
                                                     edition |-> m.page, guess |-> g]}
      BY <2>7
    <3>2. PICK n : n = [tab |-> t, who |-> m.who, device |-> m.device, edition |-> m.page, guess |-> g]
      OBVIOUS
    <3>3. typed' = typed \cup {n} /\ m.who # None
      BY <2>7, <3>1, <3>2
    <3> QED
      BY <2>4, <2>5, <3>2, <3>3 DEF TypedBefore
  <2> QED
    BY <2>1, <2>6, <2>7
<1>4. CASE RowStep
  BY <1>4 DEF RowStep, Stays, TypedBefore
<1> QED
  BY <1>1, <1>3, <1>4

(* Where the guess of w must be.                                           *)
Wanted(w) ==
    LET x == tab[w.tab] IN
    /\ x.who = w.who /\ x.device = w.device /\ x.page = w.edition /\ published = w.edition
    /\ ~(Stored(w.who, w.edition) /\ Over(row[w.who]))

Found(w) ==
    \/ Key[w.guess] \in Holds(w.who, w.edition)
    \/ tab[w.tab].box.edition = w.edition /\ Key[w.guess] \in Identities(tab[w.tab].box.log)

(* What a tab shows of its round is in the row, which is over if it shows  *)
(* so.                                                                     *)
LEMMA ShownIsHeld ==
    ASSUME Inv, NEW x, TabShape(x), Shows(x), x.flight.open, x.who # None, x.page = published,
           ~(Stored(x.who, x.page) /\ Over(row[x.who]))
    PROVE  Identities(x.flight.server.log) \subseteq Holds(x.who, x.page) /\ ~Over(x.flight.server)
<1>1. x.flight.server.log \in Logs /\ published \in Nat
  BY ServerShape DEF Inv, Rows, Editions
<1>2. x.who \in Accounts
  BY DEF TabShape
<1>3. Told(x.flight.server, x.who, x.page)
  BY DEF Shows
<1>4. CASE Bare(x.flight.server)
  <2>1. Identities(x.flight.server.log) = {} /\ Len(x.flight.server.log) = 0
    BY <1>4 DEF Bare, Identities
  <2> QED
    BY <1>4, <2>1, BoundsAssumption DEF Bare, Over, Full
<1>5. CASE ~Bare(x.flight.server)
  <2>1. /\ Stored(x.who, x.page)
        /\ IsPrefix(x.flight.server.log, row[x.who].log)
        /\ x.flight.server.solved => row[x.who].solved
        /\ x.flight.server.gaveUp => row[x.who].gaveUp
    BY <1>1, <1>3, <1>5 DEF Told
  <2>2. row[x.who].log \in Logs
    BY <1>2 DEF Inv, Rows, RowShape
  <2>3. /\ Identities(x.flight.server.log) \subseteq Identities(row[x.who].log)
        /\ Full(x.flight.server.log) => Full(row[x.who].log)
    BY <1>1, <2>1, <2>2, PrefixFacts
  <2> QED
    BY <2>1, <2>3 DEF Holds, Over
<1> QED
  BY <1>4, <1>5

LEMMA NoGuessLostStep ==
    ASSUME Inv, TypedBefore, NoGuessLost, [Next]_vars
    PROVE  NoGuessLost'
<1>1. Inv' /\ (TabStep \/ RowStep)
  BY EveryStep
<1>2. \A w \in typed : Wanted(w) => Found(w)
  BY DEF NoGuessLost, Wanted, Found
<1>3. ASSUME TabStep
      PROVE  \A w \in typed' : (Wanted(w) => Found(w))'
  <2>1. PICK t \in Tabs, m \in {tab'[v] : v \in Tabs} :
          /\ Goes(tab[t], m)
          /\ tab' = [tab EXCEPT ![t] = m]
          /\ \/ UNCHANGED typed
             \/ \E g \in Guesses :
                  /\ typed' = typed \cup {[tab |-> t, who |-> m.who, device |-> m.device,
                                           edition |-> m.page, guess |-> g]}
                  /\ m.box.edition = m.page /\ Key[g] \in Identities(m.box.log)
    BY <1>3, Zenon DEF TabStep
  <2>2. UNCHANGED <<published, row>>
    BY <1>3 DEF TabStep
  <2>3. tab'[t] = m /\ \A u \in Tabs : u # t => tab'[u] = tab[u]
    BY <2>1 DEF Inv
  <2>4. PICK x : x = tab[t] /\ Sane(x)
    BY TabSane
  <2>5. ASSUME NEW w \in typed, Wanted(w)'
        PROVE  Found(w)'
    <3>1. /\ w.tab \in Tabs /\ w.who \in Accounts /\ w.device \in Nat /\ w.edition \in Editions
          /\ w.device <= tab[w.tab].device /\ w.edition <= tab[w.tab].page
      BY <2>5 DEF TypedBefore
    <3>2. CASE w.tab # t
      BY <1>2, <2>2, <2>3, <2>5, <3>1, <3>2 DEF Wanted, Found, Stored, Holds
    <3>3. CASE w.tab = t
      <4>1. /\ m.who = w.who /\ m.device = w.device /\ m.page = w.edition /\ published = w.edition
            /\ ~(Stored(w.who, w.edition) /\ Over(row[w.who]))
        BY <2>2, <2>3, <2>5, <3>3 DEF Wanted, Stored
      <4>2. /\ x.page <= m.page /\ x.device <= m.device /\ w.edition <= x.page /\ w.device <= x.device
            /\ x.page \in Nat /\ x.device \in Nat /\ w.edition \in Nat
        BY <2>1, <2>4, <3>1, <3>3 DEF Goes, Sane, TabShape, Editions
      <4>3. x.page = w.edition /\ x.device = w.device
        BY <3>1, <4>1, <4>2
      <4>4. x.who = w.who
        BY <2>1, <2>4, <3>1, <4>1, <4>3, NoneAssumption DEF Goes
      <4>5. Found(w)
        BY <1>2, <2>4, <2>5, <3>3, <4>1, <4>3, <4>4 DEF Wanted
      <4>6. CASE Key[w.guess] \in Holds(w.who, w.edition)
        BY <2>2, <4>6 DEF Found, Holds, Stored
      <4>7. CASE x.box.edition = w.edition /\ Key[w.guess] \in Identities(x.box.log)
        <5>1. Key[w.guess] \in Owed(x.box, x.page)
          BY <4>3, <4>7 DEF Owed
        <5>2. CASE Key[w.guess] \in Owed(m.box, m.page)
          BY <2>3, <3>3, <4>1, <5>2 DEF Found, Owed
        <5>3. CASE m.flight.open /\ (Over(m.flight.server) \/ Key[w.guess] \in Identities(m.flight.server.log))
          <6>1. m.who # None /\ TabShape(m) /\ Shows(m)
            BY <2>1, <3>1, <4>1, NoneAssumption DEF Goes
          <6>2. Identities(m.flight.server.log) \subseteq Holds(m.who, m.page) /\ ~Over(m.flight.server)
            BY <4>1, <5>3, <6>1, ShownIsHeld
          <6>3. Key[w.guess] \in Holds(w.who, w.edition)
            BY <4>1, <5>3, <6>2
          <6> QED
            BY <2>2, <6>3 DEF Found, Holds, Stored
        <5> QED
          BY <2>1, <2>4, <4>1, <4>3, <4>4, <5>1, <5>2, <5>3 DEF Goes
      <4> QED
        BY <2>4, <3>3, <4>5, <4>6, <4>7 DEF Found
    <3> QED
      BY <3>2, <3>3
  <2>6. ASSUME NEW g \in Guesses, m.box.edition = m.page, Key[g] \in Identities(m.box.log), NEW w,
               w = [tab |-> t, who |-> m.who, device |-> m.device, edition |-> m.page, guess |-> g]
        PROVE  Found(w)'
    BY <2>3, <2>6 DEF Found
  <2>7. CASE UNCHANGED typed
    BY <2>5, <2>7
  <2>8. CASE \E g \in Guesses :
                  /\ typed' = typed \cup {[tab |-> t, who |-> m.who, device |-> m.device,
                                           edition |-> m.page, guess |-> g]}
                  /\ m.box.edition = m.page /\ Key[g] \in Identities(m.box.log)
    <3>1. PICK g \in Guesses :
            /\ typed' = typed \cup {[tab |-> t, who |-> m.who, device |-> m.device,
                                     edition |-> m.page, guess |-> g]}
            /\ m.box.edition = m.page /\ Key[g] \in Identities(m.box.log)
      BY <2>8
    <3>2. PICK n : n = [tab |-> t, who |-> m.who, device |-> m.device, edition |-> m.page, guess |-> g]
      OBVIOUS
    <3>3. typed' = typed \cup {n} /\ Found(n)'
      BY <2>6, <3>1, <3>2
    <3> QED
      BY <2>5, <3>3
  <2> QED
    BY <2>1, <2>7, <2>8
<1>4. ASSUME RowStep
      PROVE  \A w \in typed' : (Wanted(w) => Found(w))'
  <2> SUFFICES ASSUME NEW w \in typed, Wanted(w)'
               PROVE  Found(w)'
    BY <1>4 DEF RowStep
  <2>1. /\ w.tab \in Tabs /\ w.who \in Accounts /\ w.edition \in Editions
        /\ w.edition <= tab[w.tab].page
    BY DEF TypedBefore
  <2>2. Stays(tab[w.tab], tab'[w.tab])
    BY <1>4, <2>1 DEF RowStep
  <2>3. CASE published' = published + 1
    <3>1. PICK x : x = tab[w.tab]
      OBVIOUS
    <3>2. x.page \in Nat /\ x.page <= published /\ published \in Nat
      BY <2>1, <3>1, TabSane DEF Sane, Settings, TabShape, Editions, Inv, Rows
    <3> QED
      BY <2>2, <2>3, <3>1, <3>2 DEF Wanted, Stays
  <2>4. CASE UNCHANGED published /\ \A b \in Accounts : Follows(row[b], row'[b])
    <3>1. PICK a, r, q : a = w.who /\ r = row[a] /\ q = row'[a]
      OBVIOUS
    <3>2. Follows(r, q) /\ r.log \in Logs /\ q.log \in Logs
      BY <1>1, <2>1, <2>4, <3>1 DEF Inv, Rows, RowShape
    <3>3. published = w.edition /\ ~(q.edition = w.edition /\ Over(q))
      BY <2>4, <3>1 DEF Wanted, Stored
    <3>4. ASSUME r.edition = w.edition
          PROVE  /\ q.edition = w.edition
                 /\ Identities(r.log) \subseteq Identities(q.log)
                 /\ Over(r) => Over(q)
      BY <3>2, <3>3, <3>4, PrefixFacts DEF Follows, Over
    <3>5. Wanted(w)
      BY <2>2, <3>1, <3>3, <3>4 DEF Wanted, Stored, Stays
    <3>6. Found(w)
      BY <1>2, <3>5
    <3>7. CASE Key[w.guess] \in Holds(w.who, w.edition)
      <4>1. Key[w.guess] \in Holds(w.who, w.edition)'
        BY <3>1, <3>4, <3>7 DEF Holds, Stored
      <4> QED
        BY <4>1 DEF Found
    <3>8. CASE tab[w.tab].box.edition = w.edition /\ Key[w.guess] \in Identities(tab[w.tab].box.log)
      BY <2>2, <3>8 DEF Found, Stays
    <3> QED
      BY <3>6, <3>7, <3>8 DEF Found
  <2> QED
    BY <1>4, <2>3, <2>4 DEF RowStep
<1>5. \A w \in typed' : (Wanted(w) => Found(w))'
  BY <1>1, <1>3, <1>4
<1> QED
  BY <1>5 DEF NoGuessLost, Wanted, Found

(* A guess that was typed is owed or stored until the round is over,       *)
(* whatever was lost, retried or answered late, unless the sentence was    *)
(* replaced or the account left (roundSync.ts).                            *)
THEOREM GuessesKept == Spec => []NoGuessLost
<1>1. Init => Inv /\ TypedBefore /\ NoGuessLost
  BY InitInv
<1>2. Inv /\ TypedBefore /\ NoGuessLost /\ [Next]_vars => (Inv /\ TypedBefore /\ NoGuessLost)'
  BY EveryStep, TypedBeforeStep, NoGuessLostStep
<1> QED
  BY <1>1, <1>2, PTL DEF Spec

-----------------------------------------------------------------------------
(* Every guess that is stored was typed, once for each time it is stored.  *)
(* The condition: no request reaches the server after its caller gave up   *)
(* on it, and no device changes under its account.  A batch is sent again  *)
(* only when a read did not show it, and then it is not on its way.        *)

Entry(t, a, d, e, g) == [tab |-> t, who |-> a, device |-> d, edition |-> e, guess |-> g]

Distinct(log) == \A i, j \in DOMAIN log : Key[log[i]] = Key[log[j]] => i = j

WasTyped(log, t, a, d, e, ty) == \A i \in DOMAIN log : Entry(t, a, d, e, log[i]) \in ty

(* A book names, for every place of every row, the typing it comes from.   *)
Books(rw, bk, ty) ==
    /\ DOMAIN bk = Accounts
    /\ \A a \in Accounts :
        /\ DOMAIN bk[a] = DOMAIN rw[a].log
        /\ \A i \in DOMAIN bk[a] :
            /\ bk[a][i] \in ty
            /\ bk[a][i].who = a /\ bk[a][i].edition <= rw[a].edition /\ bk[a][i].guess = rw[a].log[i]
        /\ \A i, j \in DOMAIN bk[a] : bk[a][i] = bk[a][j] => i = j

(* What is stored for another sentence than it was typed for was typed for *)
(* one that its tab has left.                                              *)
Past(rw, bk, t, page) ==
    \A a \in Accounts : \A i \in DOMAIN bk[a] :
        bk[a][i].tab = t => bk[a][i].edition = rw[a].edition \/ bk[a][i].edition < page

(* What is stored of the guesses that device d of account a typed in tab t *)
(* for edition e, for whichever edition it is stored.                      *)
Spent(bk, t, a, d, e) ==
    {Key[bk[a][i].guess] : i \in {j \in DOMAIN bk[a] :
        bk[a][j].tab = t /\ bk[a][j].device = d /\ bk[a][j].edition = e}}

OwnAppend(x) == x.call.at # "none" /\ x.call.kind = "append" /\ x.call.puzzle = x.page

(* The tab knows that what it owes is not stored.                          *)
Knows(x) ==
    /\ x.flight.open /\ x.who # None /\ x.flight.readDone
    /\ OwnAppend(x) => x.call.at # "failed" /\ (x.call.at = "answered" => x.call.answer.status # "ok")

(* A batch that may yet be stored was typed, and is not stored.            *)
Fair(c, t, bk, ty) ==
    c.at \in {"token", "sent"} /\ c.kind = "append" =>
        /\ Distinct(c.batch)
        /\ WasTyped(c.batch, t, c.epoch[1], c.epoch[2], c.puzzle, ty)
        /\ Identities(c.batch) \cap Spent(bk, t, c.epoch[1], c.epoch[2], c.puzzle) = {}

(* What is owed was typed by this identity for this page.                  *)
Tidy(x, t, ty) ==
    /\ x.who = None => x.box.edition = 0
    /\ x.box.edition = x.page =>
         Distinct(x.box.log) /\ WasTyped(x.box.log, t, x.who, x.device, x.page, ty)

(* An answer under way tells all that is stored of what this identity      *)
(* typed.                                                                  *)
Hears(x, t, bk) ==
    x.call.at = "answered" /\ x.call.puzzle = x.page =>
        /\ x.call.answer.status \in Shown3 =>
             Spent(bk, t, x.who, x.device, x.page) \subseteq Identities(x.call.answer.state.log)
        /\ x.call.answer.status = "not_found" => Spent(bk, t, x.who, x.device, x.page) = {}

Asks(x, t, bk, ty) ==
    /\ x.call.at # "none" => x.call.epoch = <<x.who, x.device>>
    /\ Fair(x.call, t, bk, ty)
    /\ OwnAppend(x) /\ x.call.at \in {"token", "sent"} => Identities(x.call.batch) \subseteq Owed(x.box, x.page)
    /\ Hears(x, t, bk)

(* Nothing that is owed is stored, as far as the tab knows, and all that   *)
(* is stored is on the board.                                              *)
Square(x, t, bk) ==
    /\ Knows(x) => Owed(x.box, x.page) \cap Spent(bk, t, x.who, x.device, x.page) = {}
    /\ x.flight.open /\ x.who # None /\ x.flight.settled /\ ~Over(x.flight.server) =>
            Spent(bk, t, x.who, x.device, x.page) \subseteq
                Identities(x.flight.server.log) \cup Owed(x.box, x.page)

Bound(x, t, bk, ty) ==
    Tidy(x, t, ty) /\ Asks(x, t, bk, ty) /\ Fair(x.stray, t, bk, ty) /\ Square(x, t, bk)

(* What is left of an outbox is in it, and no two of it are one.           *)
LEMMA DistinctLeft ==
    ASSUME NEW log \in Logs, NEW held, NEW left, left = Unacknowledged(log, held)
    PROVE  /\ left \in Logs
           /\ \A j \in DOMAIN left : \E i \in DOMAIN log : left[j] = log[i]
           /\ Distinct(log) => Distinct(left)
<1>1. PICK f \in [0..Len(log) -> Logs] : LeftUpTo(f, log, held, Len(log)) /\ left = f[Len(log)]
  BY LeftIs
<1>2. Len(log) \in Nat /\ DOMAIN log = 1..Len(log)
  BY DEF Logs
<1>3. \A i \in 0..Len(log) :
        f[i] = IF i = 0 THEN <<>>
               ELSE IF Key[log[i]] \in held THEN f[i - 1] ELSE Append(f[i - 1], log[i])
  BY <1>1 DEF LeftUpTo
<1>4. ASSUME NEW n \in 0..Len(log)
      PROVE  /\ f[n] \in Logs /\ DOMAIN f[n] = 1..Len(f[n]) /\ Len(f[n]) \in Nat
             /\ \A j \in 1..Len(f[n]) : \E i \in 1..n : f[n][j] = log[i]
  <2>1. f[n] \in Logs
    BY <1>1
  <2>2. \A j \in 1..Len(f[n]) : \E i \in 1..n : f[n][j] = log[i] /\ Key[log[i]] \notin held
    <3> HIDE DEF LeftUpTo
    <3> QED
      BY <1>1, LeftOfPrefix
  <2> QED
    BY <2>1, <2>2 DEF Logs
<1>5. ASSUME Distinct(log)
      PROVE  Distinct(left)
  <2> DEFINE T == {n \in Nat : n <= Len(log) => Distinct(f[n])}
  <2>1. 0 \in T
    BY <1>2, <1>3 DEF Distinct
  <2>2. ASSUME NEW n \in Nat, n \in T
        PROVE  n + 1 \in T
    <3> SUFFICES ASSUME n + 1 <= Len(log)
                 PROVE  Distinct(f[n + 1])
      OBVIOUS
    <3>1. n \in 0..Len(log) /\ n + 1 \in 0..Len(log) /\ Distinct(f[n])
      BY <1>2, <2>2
    <3>2. CASE Key[log[n + 1]] \in held
      <4>1. PICK k \in 0..Len(log) : k = n + 1
        BY <3>1
      <4>2. k # 0 /\ k - 1 = n
        BY <4>1
      <4>3. f[k] = f[k - 1]
        BY <1>3, <3>2, <4>1, <4>2
      <4> QED
        BY <3>1, <4>1, <4>2, <4>3
    <3>3. CASE Key[log[n + 1]] \notin held
      <4>1. PICK u \in Logs : u = f[n]
        BY <1>4, <3>1
      <4>2. PICK v : v = f[n + 1]
        OBVIOUS
      <4>3. v = Append(u, log[n + 1]) /\ log[n + 1] \in Guesses
        BY <1>2, <1>3, <3>1, <3>3, <4>1, <4>2 DEF Logs
      <4>4. /\ DOMAIN u = 1..Len(u) /\ DOMAIN v = 1..Len(u) + 1 /\ Len(u) \in Nat
            /\ \A i \in 1..Len(u) : v[i] = u[i]
            /\ v[Len(u) + 1] = log[n + 1]
        BY <4>3 DEF Logs
      <4>5. \A i \in 1..Len(u) : Key[v[i]] # Key[log[n + 1]]
        <5> SUFFICES ASSUME NEW i \in 1..Len(u)
                     PROVE  Key[v[i]] # Key[log[n + 1]]
          OBVIOUS
        <5>1. PICK k \in 1..n : u[i] = log[k]
          BY <1>4, <3>1, <4>1
        <5> QED
          BY <1>2, <1>5, <3>1, <4>4, <5>1 DEF Distinct
      <4>6. Distinct(v)
        BY <3>1, <4>1, <4>4, <4>5 DEF Distinct
      <4> QED
        BY <4>2, <4>6
    <3> QED
      BY <3>2, <3>3
  <2>3. Nat \subseteq T
    <3> HIDE DEF T
    <3> QED
      BY <2>1, <2>2, Inductive
  <2> QED
    BY <1>1, <1>2, <2>3
<1>6. left \in Logs /\ \A j \in DOMAIN left : \E i \in DOMAIN log : left[j] = log[i]
  <2>1. Len(log) \in 0..Len(log)
    BY <1>2
  <2>2. /\ f[Len(log)] \in Logs /\ DOMAIN f[Len(log)] = 1..Len(f[Len(log)])
        /\ \A j \in 1..Len(f[Len(log)]) : \E i \in 1..Len(log) : f[Len(log)][j] = log[i]
    BY <1>4, <2>1
  <2>3. left = f[Len(log)]
    BY <1>1
  <2> HIDE DEF LeftUpTo
  <2> QED
    BY <1>2, <2>2, <2>3
<1> QED
  BY <1>5, <1>6

(* What is stored of anybody's is in the row, and of what was typed for    *)
(* the page that is shown, only in a row of its edition; and a book names  *)
(* only what was typed.                                                    *)
LEMMA SpentHeld ==
    ASSUME NEW rw, NEW bk, NEW ty, Books(rw, bk, ty), NEW a \in Accounts, NEW t, NEW d, NEW e
    PROVE  Spent(bk, t, a, d, e) \subseteq Identities(rw[a].log)
BY DEF Books, Spent, Identities

LEMMA SpentPast ==
    ASSUME NEW rw, NEW bk, NEW a \in Accounts, NEW t, NEW d, NEW e \in Nat, Past(rw, bk, t, e), rw[a].edition # e
    PROVE  Spent(bk, t, a, d, e) = {}
BY DEF Past, Spent

LEMMA SpentTyped ==
    ASSUME NEW rw, NEW bk, NEW ty, Books(rw, bk, ty), NEW a \in Accounts, NEW t, NEW d, NEW e,
           \A w \in ty : ~(w.tab = t /\ w.who = a /\ w.device = d /\ w.edition = e)
    PROVE  Spent(bk, t, a, d, e) = {}
BY DEF Books, Spent

(* Who typed nothing yet has nothing stored.                               *)
LEMMA NothingSpent ==
    ASSUME Inv, TypedBefore, NEW bk, Books(row, bk, typed), NEW a \in Accounts, NEW t \in Tabs, NEW d \in Nat,
           NEW e \in Nat, tab[t].device < d \/ tab[t].page < e
    PROVE  Spent(bk, t, a, d, e) = {}
<1>1. tab[t].device \in Nat /\ tab[t].page \in Nat
  BY TabSane DEF TabShape, Editions
<1>2. \A w \in typed : w.tab = t => w.device \in Nat /\ w.edition \in Nat
                                    /\ w.device <= tab[t].device /\ w.edition <= tab[t].page
  BY DEF TypedBefore, Editions
<1>3. \A w \in typed : ~(w.tab = t /\ w.who = a /\ w.device = d /\ w.edition = e)
  BY <1>1, <1>2
<1> QED
  BY <1>3, SpentTyped

(* More may have been typed.                                               *)
LEMMA MoreTyped ==
    ASSUME NEW x, NEW t, NEW bk, NEW ty, NEW tz, ty \subseteq tz, Bound(x, t, bk, ty)
    PROVE  Bound(x, t, bk, tz)
BY DEF Bound, Tidy, Asks, Fair, WasTyped

(* Of what others typed less or more may be stored.                        *)
LEMMA LessSpent ==
    ASSUME NEW x, x.call.at = "answered" => x.who # None,
           NEW t, NEW bk, NEW ck, NEW ty, Bound(x, t, bk, ty),
           x.who # None =>
             Spent(ck, t, x.who, x.device, x.page) \subseteq Spent(bk, t, x.who, x.device, x.page),
           x.call.at # "none" =>
             Spent(ck, t, x.call.epoch[1], x.call.epoch[2], x.call.puzzle) \subseteq
               Spent(bk, t, x.call.epoch[1], x.call.epoch[2], x.call.puzzle),
           x.stray.at \in {"token", "sent"} =>
             Spent(ck, t, x.stray.epoch[1], x.stray.epoch[2], x.stray.puzzle) \subseteq
               Spent(bk, t, x.stray.epoch[1], x.stray.epoch[2], x.stray.puzzle)
    PROVE  Bound(x, t, ck, ty)
<1>1. Fair(x.call, t, ck, ty)
  BY DEF Bound, Asks, Fair
<1>2. Fair(x.stray, t, ck, ty)
  BY DEF Bound, Fair
<1>3. Hears(x, t, ck)
  BY DEF Bound, Asks, Hears
<1>4. Square(x, t, ck)
  BY DEF Bound, Square, Knows
<1> QED
  BY <1>1, <1>2, <1>3, <1>4 DEF Bound, Asks

(* What a tab becomes that keeps its outbox and its request, and knows no  *)
(* more than it did.                                                       *)
LEMMA AlikeBound ==
    ASSUME NEW x, NEW t, NEW bk, NEW ty, Sane(x), Bound(x, t, bk, ty),
           NEW m, m.page = x.page, m.who = x.who, m.device = x.device, m.call = x.call,
           m.stray \in {x.stray, NoCall},
           m.box = x.box \/ (m.box.edition = 0 /\ x.box.edition # x.page),
           m.flight.open => /\ x.flight.open /\ m.flight.server = x.flight.server
                            /\ (m.flight.readDone => x.flight.readDone)
                            /\ (m.flight.settled => x.flight.settled)
    PROVE  Bound(m, t, bk, ty)
<1>1. x.page # 0
  BY DEF Sane, TabShape, Editions
<1>2. Owed(m.box, m.page) = Owed(x.box, x.page)
  BY <1>1 DEF Owed
<1>3. Tidy(m, t, ty)
  BY <1>1 DEF Bound, Tidy
<1>4. Asks(m, t, bk, ty)
  BY <1>2 DEF Bound, Asks, OwnAppend, Hears
<1>5. Fair(m.stray, t, bk, ty)
  BY DEF Bound, Fair, NoCall
<1>6. Square(m, t, bk)
  BY <1>2 DEF Bound, Square, Knows, OwnAppend
<1> QED
  BY <1>3, <1>4, <1>5, <1>6 DEF Bound

(* A conversation that begins anew, for the same identity.                 *)
LEMMA AnewBound ==
    ASSUME NEW x, NEW t, NEW bk, NEW ty, Sane(x), Bound(x, t, bk, ty),
           NEW m, m.page \in Nat, x.page <= m.page, m.who = x.who, m.device = x.device,
           m.stray \in {x.stray, NoCall},
           m.box = x.box \/ m.box.edition = 0, m.box.edition \in {0, m.page},
           m.call.at = "none" \/ (m.call = x.call /\ x.page < m.page),
           m.flight.open => ~m.flight.readDone /\ ~m.flight.settled
    PROVE  Bound(m, t, bk, ty)
<1>1. x.page \in Nat /\ x.page > 0 /\ x.box.edition \in Nat /\ x.box.edition <= x.page
  BY DEF Sane, TabShape, BoxShape, Settings, Editions
<1>2. m.call.at # "none" => m.call.puzzle # m.page
  <2>1. x.call.at # "none" => x.call.puzzle <= x.page /\ x.call.puzzle \in Nat
    BY <1>1, NamesNothingOlder
  <2> QED
    BY <1>1, <2>1
<1>3. Tidy(m, t, ty)
  BY <1>1 DEF Bound, Tidy
<1>4. Asks(m, t, bk, ty)
  <2>1. m.call.at # "none" => m.call = x.call
    OBVIOUS
  <2>2. ~OwnAppend(m)
    BY <1>2 DEF OwnAppend
  <2>3. Fair(m.call, t, bk, ty)
    BY <2>1 DEF Bound, Asks, Fair
  <2>4. Hears(m, t, bk)
    BY <1>2 DEF Hears
  <2> QED
    BY <2>1, <2>2, <2>3, <2>4 DEF Bound, Asks
<1>5. Fair(m.stray, t, bk, ty)
  BY DEF Bound, Fair, NoCall
<1>6. Square(m, t, bk)
  BY DEF Square, Knows
<1> QED
  BY <1>3, <1>4, <1>5, <1>6 DEF Bound

(* Another identity, or none, that waits for nothing and owes nothing.     *)
LEMMA NewBound ==
    ASSUME NEW m, NEW t, NEW bk, NEW ty, m.call.at = "none", m.page # 0, m.box.edition = 0,
           Fair(m.stray, t, bk, ty),
           \/ m.who = None
           \/ Spent(bk, t, m.who, m.device, m.page) = {}
           \/ m.flight.open => ~m.flight.settled
    PROVE  Bound(m, t, bk, ty)
<1>1. Owed(m.box, m.page) = {}
  BY DEF Owed
<1>2. Tidy(m, t, ty)
  BY DEF Tidy
<1>3. Asks(m, t, bk, ty)
  BY DEF Asks, Fair, OwnAppend, Hears
<1>4. Square(m, t, bk)
  BY <1>1 DEF Square
<1> QED
  BY <1>2, <1>3, <1>4 DEF Bound

(* What an outbox holds was typed by this identity for this page.          *)
Own(b, x, t, ty) ==
    b.edition = x.page => Distinct(b.log) /\ WasTyped(b.log, t, x.who, x.device, x.page, ty)

(* What a tab that waits for nothing has to know.                          *)
Clear(m, x, s, b, t, bk) ==
    /\ m.flight.readDone => Owed(b, x.page) \cap Spent(bk, t, x.who, x.device, x.page) = {}
    /\ m.flight.settled /\ ~Over(s) =>
            Spent(bk, t, x.who, x.device, x.page) \subseteq Identities(s.log) \cup Owed(b, x.page)

LEMMA AsBound ==
    ASSUME NEW x, NEW t, NEW bk, NEW ty, Bound(x, t, bk, ty), x.who # None,
           NEW m, NEW s, NEW b, NEW c, As(m, x, s, b, c), c.at = "none",
           Own(b, x, t, ty), Clear(m, x, s, b, t, bk)
    PROVE  Bound(m, t, bk, ty)
<1>1. /\ m.page = x.page /\ m.who = x.who /\ m.device = x.device /\ m.stray = x.stray
      /\ m.box = b /\ m.call = c /\ m.flight.server = s
  BY DEF As
<1>2. Tidy(m, t, ty)
  BY <1>1 DEF Tidy, Own
<1>3. Asks(m, t, bk, ty)
  BY <1>1 DEF Asks, Fair, OwnAppend, Hears
<1>4. Fair(m.stray, t, bk, ty)
  BY <1>1 DEF Bound
<1>5. Square(m, t, bk)
  BY <1>1 DEF Square, Knows, Clear
<1> QED
  BY <1>2, <1>3, <1>4, <1>5 DEF Bound

LEMMA PutIs ==
    ASSUME Inv, NEW t \in Tabs, NEW m, Put(t, m)
    PROVE  tab'[t] = m
BY DEF Inv, Put

(* A request is sent: a read, a give-up, or a batch of what is owed and    *)
(* known not to be stored.                                                 *)
LEMMA AskedBound ==
    ASSUME NEW x, NEW t, NEW bk, NEW ty, Sane(x), Bound(x, t, bk, ty), x.flight.open, x.who # None,
           x.call.at = "none",
           NEW c, c.at \in {"token", "sent"}, c.puzzle = x.page, c.epoch = <<x.who, x.device>>,
           c.kind = "append" =>
             /\ x.flight.readDone
             /\ Distinct(c.batch) /\ WasTyped(c.batch, t, x.who, x.device, x.page, ty)
             /\ Identities(c.batch) \subseteq Owed(x.box, x.page),
           NEW g, NEW m, m = AskedTab(x, c, g)
    PROVE  Bound(m, t, bk, ty)
<1>1. /\ m.page = x.page /\ m.who = x.who /\ m.device = x.device /\ m.box = x.box
      /\ m.stray = x.stray /\ m.call = c
  BY DEF Sane, TabShape, AskedTab
<1>2. /\ m.flight.open /\ m.flight.server = x.flight.server
      /\ m.flight.readDone = x.flight.readDone /\ m.flight.settled = x.flight.settled
  <2>1. PICK d : d = FALSE
    OBVIOUS
  <2>2. PICK f : f = [x.flight EXCEPT !.giveUp = g, !.due = d]
    OBVIOUS
  <2>3. m.flight = f
    BY <2>1, <2>2 DEF Sane, TabShape, AskedTab
  <2> QED
    BY <2>2, <2>3 DEF Sane, TabShape, FlightShape
<1>3. Knows(m) => Knows(x)
  BY <1>1, <1>2 DEF Knows, OwnAppend
<1>4. c.kind = "append" => Identities(c.batch) \cap Spent(bk, t, x.who, x.device, x.page) = {}
  <2>1. x.flight.readDone => Knows(x)
    BY DEF Knows, OwnAppend
  <2> QED
    BY <2>1 DEF Bound, Square
<1>5. Tidy(m, t, ty)
  BY <1>1 DEF Bound, Tidy
<1>6. Asks(m, t, bk, ty)
  <2>1. c.epoch[1] = x.who /\ c.epoch[2] = x.device
    OBVIOUS
  <2>2. Fair(c, t, bk, ty)
    BY <1>4, <2>1 DEF Fair
  <2>3. Hears(m, t, bk)
    BY <1>1 DEF Hears
  <2> QED
    BY <1>1, <2>2, <2>3 DEF Asks, OwnAppend
<1>7. Fair(m.stray, t, bk, ty)
  BY <1>1 DEF Bound
<1>8. Square(m, t, bk)
  BY <1>1, <1>2, <1>3 DEF Bound, Square
<1> QED
  BY <1>5, <1>6, <1>7, <1>8 DEF Bound

(* The steps of the conversation.                                          *)

LEMMA IdleBound ==
    ASSUME Inv, NEW t \in Tabs, NEW bk, NEW ty, Bound(tab[t], t, bk, ty), tab[t].flight.open, Idle(t)
    PROVE  Bound(tab'[t], t, bk, ty)
<1>1. PICK x : x = tab[t]
  OBVIOUS
<1>2. Sane(x) /\ TabShape(x)
  BY <1>1, TabSane
<1>3. PICK d : d = FALSE
  OBVIOUS
<1>4. PICK f : f = [x.flight EXCEPT !.due = d]
  OBVIOUS
<1>5. f.open /\ f.server = x.flight.server /\ f.readDone = x.flight.readDone /\ f.settled = x.flight.settled
  BY <1>1, <1>2, <1>4 DEF TabShape, FlightShape
<1>6. PICK m : m = [x EXCEPT !.flight = f]
  OBVIOUS
<1>7. /\ m.page = x.page /\ m.who = x.who /\ m.device = x.device /\ m.call = x.call
      /\ m.stray = x.stray /\ m.box = x.box /\ m.flight = f
  BY <1>2, <1>6 DEF TabShape
<1>8. Bound(m, t, bk, ty)
  BY <1>1, <1>2, <1>5, <1>7, AlikeBound
<1>9. Put(t, m)
  BY <1>1, <1>2, <1>3, <1>4, <1>6 DEF Idle, TabShape
<1> QED
  BY <1>8, <1>9, PutIs

(* A read that need not be sent: nobody has a round.                       *)
LEMMA StartReadBound ==
    ASSUME Inv, NEW t \in Tabs, NEW bk, NEW ty, Bound(tab[t], t, bk, ty), tab[t].flight.open,
           tab[t].call.at = "none", StartRead(t)
    PROVE  Bound(tab'[t], t, bk, ty)
<1>1. PICK x : x = tab[t]
  OBVIOUS
<1>2. Sane(x) /\ TabShape(x) /\ x.flight.open /\ x.page # 0
  BY <1>1, TabSane DEF TabShape, Editions
<1>3. CASE x.who = None
  <2>1. PICK y : y = Adopted(x, EmptyServer)
    OBVIOUS
  <2>2. As(y, x, EmptyServer, x.box, x.call)
    <3>1. As(x, x, x.flight.server, x.box, x.call)
      BY <1>2, Itself
    <3>2. EmptyServer \in Snapshots
      BY DEF EmptyServer, Snapshots, Logs
    <3> QED
      BY <2>1, <3>1, <3>2, AdoptedAs
  <2>3. PICK m : m = [y EXCEPT !.flight.created = FALSE, !.flight.readDone = TRUE]
    OBVIOUS
  <2>4. As(m, x, EmptyServer, x.box, x.call)
    BY <2>2, <2>3 DEF As, TabShape, FlightShape
  <2>5. /\ m.page # 0 /\ m.who = None /\ m.call.at = "none" /\ m.stray = x.stray /\ m.box = x.box
    BY <1>1, <1>2, <1>3, <2>4 DEF As
  <2>6. m.box.edition = 0 /\ Fair(m.stray, t, bk, ty)
    BY <1>1, <1>3, <2>5 DEF Bound, Tidy
  <2>7. Bound(m, t, bk, ty)
    BY <2>5, <2>6, NewBound
  <2>8. Put(t, m)
    BY <1>1, <1>3, <2>1, <2>3 DEF StartRead
  <2> QED
    BY <2>7, <2>8, PutIs
<1>4. CASE x.who # None
  <2>1. PICK c : c = Call(t, "read", <<>>, "sent")
    OBVIOUS
  <2>2. c.kind = "read" /\ c.at = "sent" /\ c.puzzle = x.page /\ c.epoch = <<x.who, x.device>>
    <3>1. <<>> \in Logs
      BY DEF Logs
    <3>2. c.kind = "read"
      BY <2>1 DEF Call
    <3> QED
      BY <1>1, <1>2, <1>4, <2>1, <3>1, <3>2, CallFacts
  <2>3. PICK m, g : g = x.flight.giveUp /\ m = AskedTab(x, c, g)
    OBVIOUS
  <2>4. Bound(m, t, bk, ty)
    BY <1>1, <1>2, <1>4, <2>2, <2>3, AskedBound
  <2>5. m = [x EXCEPT !.call = c, !.flight.due = FALSE]
    BY <1>2, <2>3 DEF TabShape, FlightShape, AskedTab
  <2>6. Put(t, m)
    BY <1>1, <1>4, <2>1, <2>5 DEF StartRead
  <2> QED
    BY <2>4, <2>6, PutIs
<1> QED
  BY <1>3, <1>4

LEMMA StartGiveUpBound ==
    ASSUME Inv, NEW t \in Tabs, NEW bk, NEW ty, Bound(tab[t], t, bk, ty), tab[t].flight.open,
           tab[t].call.at = "none", StartGiveUp(t)
    PROVE  Bound(tab'[t], t, bk, ty)
<1>1. PICK x : x = tab[t]
  OBVIOUS
<1>2. Sane(x) /\ TabShape(x) /\ x.flight.open
  BY <1>1, TabSane
<1>3. x.who # None
  BY <1>1, <1>2 DEF StartGiveUp, MayGiveUp, Sane, Settings
<1>4. PICK c : c = Call(t, "giveUp", <<>>, "sent")
  OBVIOUS
<1>5. c.kind = "giveUp" /\ c.at = "sent" /\ c.puzzle = x.page /\ c.epoch = <<x.who, x.device>>
  <2>1. <<>> \in Logs
    BY DEF Logs
  <2>2. c.kind = "giveUp"
    BY <1>4 DEF Call
  <2> QED
    BY <1>1, <1>2, <1>3, <1>4, <2>1, <2>2, CallFacts
<1>6. PICK m : m = AskedTab(x, c, "sent")
  OBVIOUS
<1>7. Bound(m, t, bk, ty)
  BY <1>1, <1>2, <1>3, <1>5, <1>6, AskedBound
<1>8. Put(t, m)
  BY <1>1, <1>4, <1>6 DEF StartGiveUp, AskedTab
<1> QED
  BY <1>7, <1>8, PutIs

(* What still fits, of an outbox.                                          *)
Fitting(log, room) == SubSeq(log, 1, IF Len(log) < room THEN Len(log) ELSE room)

LEMMA HeadOf ==
    ASSUME NEW log \in Logs, NEW k \in Nat, NEW room, room = Cap - k,
           NEW fits, fits = Fitting(log, room)
    PROVE  /\ fits \in Logs
           /\ Identities(fits) \subseteq Identities(log)
           /\ Distinct(log) => Distinct(fits)
           /\ \A i \in DOMAIN fits : fits[i] = log[i] /\ i \in DOMAIN log
<1>1. /\ fits \in Logs
      /\ \A i \in DOMAIN fits : fits[i] = log[i] /\ i \in DOMAIN log
  BY BoundsAssumption DEF Logs, Fitting
<1>2. Identities(fits) \subseteq Identities(log)
  BY <1>1 DEF Identities
<1>3. Distinct(log) => Distinct(fits)
  BY <1>1 DEF Distinct
<1> QED
  BY <1>1, <1>2, <1>3

(* What Pending says is owed.                                              *)
LEMMA PendingOwed ==
    ASSUME NEW x, Sane(x), x.flight.open
    PROVE  /\ Pending(x) \in Logs /\ Identities(Pending(x)) = Owed(x.box, x.page)
           /\ \A t, ty : Tidy(x, t, ty) =>
                Distinct(Pending(x)) /\ WasTyped(Pending(x), t, x.who, x.device, x.page, ty)
<1>1. x.flight.edition = x.page /\ x.box.log \in Logs
  BY DEF Sane, Settings, TabShape, BoxShape
<1>2. CASE x.box.edition = x.page
  <2>1. Pending(x) = x.box.log
    BY <1>1, <1>2 DEF Pending
  <2> QED
    BY <1>1, <1>2, <2>1 DEF Owed, Tidy
<1>3. CASE x.box.edition # x.page
  <2>1. Pending(x) = <<>> /\ <<>> \in Logs /\ DOMAIN <<>> = {}
    BY <1>1, <1>3 DEF Pending, Logs
  <2> QED
    BY <1>3, <2>1 DEF Owed, Identities, Distinct, WasTyped
<1> QED
  BY <1>2, <1>3

(* What an outbox owes when it was dropped, or settled by the log s.       *)
LEMMA DiscardedOwes ==
    ASSUME NEW x, x.flight.edition = x.page, x.page # 0,
           NEW y, NEW s, NEW b, NEW c, As(y, x, s, b, c)
    PROVE  \E d : /\ As(Discarded(y), x, s, d, c)
                  /\ d.edition # x.page /\ Owed(d, x.page) = {}
<1>1. BoxShape(NoBox) /\ NoBox.edition = 0
  BY DEF BoxShape, NoBox, Logs
<1>2. y.box = b /\ y.flight.edition = x.page
  BY DEF As
<1>3. CASE b.edition = x.page
  <2>1. PICK z : z = [y EXCEPT !.box = NoBox]
    OBVIOUS
  <2>2. As(z, x, s, NoBox, c)
    BY <1>1, <2>1 DEF As, TabShape
  <2>3. Discarded(y) = z
    BY <1>2, <1>3, <2>1 DEF Discarded
  <2> QED
    BY <1>1, <2>2, <2>3 DEF Owed
<1>4. CASE b.edition # x.page
  <2>1. Discarded(y) = y
    BY <1>2, <1>4 DEF Discarded
  <2> QED
    BY <1>4, <2>1 DEF Owed
<1> QED
  BY <1>3, <1>4

LEMMA SettledOwes ==
    ASSUME NEW x, x.flight.edition = x.page, x.page # 0, NEW t, NEW ty,
           NEW y, NEW s, NEW b, NEW c, As(y, x, s, b, c), Own(b, x, t, ty)
    PROVE  \E d : /\ As(SettledBox(y), x, s, d, c)
                  /\ Own(d, x, t, ty)
                  /\ Owed(d, x.page) \cap Identities(s.log) = {}
<1>1. BoxShape(NoBox) /\ NoBox.edition = 0 /\ BoxShape(b)
  BY DEF BoxShape, NoBox, Logs, As, TabShape
<1>2. y.box = b /\ y.flight.edition = x.page /\ y.flight.server = s
  BY DEF As
<1>3. CASE b.edition # x.page
  BY <1>2, <1>3 DEF SettledBox, Owed
<1>4. CASE b.edition = x.page
  <2>1. PICK held : held = Identities(s.log)
    OBVIOUS
  <2>2. PICK left : left = Unacknowledged(b.log, held)
    OBVIOUS
  <2>3. /\ left \in Logs /\ Identities(left) \cap held = {}
        /\ Distinct(left)
        /\ WasTyped(left, t, x.who, x.device, x.page, ty)
    <3>1. b.log \in Logs
      BY <1>1 DEF BoxShape
    <3>2. Identities(left) = Identities(b.log) \ held
      BY <2>2, <3>1, UnacknowledgedFacts
    <3>3. /\ left \in Logs /\ Distinct(left)
          /\ \A j \in DOMAIN left : \E i \in DOMAIN b.log : left[j] = b.log[i]
      BY <1>4, <2>2, <3>1, DistinctLeft DEF Own
    <3>4. WasTyped(left, t, x.who, x.device, x.page, ty)
      BY <1>4, <3>3 DEF Own, WasTyped
    <3> QED
      BY <3>2, <3>3, <3>4
  <2>4. SettledBox(y) = [y EXCEPT !.box = IF left = <<>> THEN NoBox ELSE [@ EXCEPT !.log = left]]
    BY <1>2, <1>4, <2>1, <2>2 DEF SettledBox
  <2>5. CASE left = <<>>
    <3>1. SettledBox(y) = [y EXCEPT !.box = NoBox]
      BY <2>4, <2>5
    <3>2. As(SettledBox(y), x, s, NoBox, c)
      BY <1>1, <3>1 DEF As, TabShape
    <3> QED
      BY <1>1, <3>2 DEF Owed, Own
  <2>6. CASE left # <<>>
    <3>1. PICK d : d = [b EXCEPT !.log = left]
      OBVIOUS
    <3>2. BoxShape(d) /\ d.edition = b.edition /\ d.log = left
      BY <1>1, <2>3, <3>1 DEF BoxShape
    <3>3. SettledBox(y) = [y EXCEPT !.box = d]
      BY <1>2, <2>4, <2>6, <3>1 DEF As, TabShape
    <3>4. As(SettledBox(y), x, s, d, c)
      BY <3>2, <3>3 DEF As, TabShape
    <3>5. Own(d, x, t, ty) /\ Owed(d, x.page) \cap held = {}
      BY <2>3, <3>2 DEF Own, Owed
    <3> QED
      BY <2>1, <3>4, <3>5
  <2> QED
    BY <2>5, <2>6
<1> QED
  BY <1>3, <1>4

(* Whether the round was read, and is shown, is as it was.                 *)
SameFlags(z, y) == z.flight.readDone = y.flight.readDone /\ z.flight.settled = y.flight.settled

LEMMA FlagsKept ==
    ASSUME NEW y, TabShape(y), y.flight.open
    PROVE  /\ SameFlags(Replied(y), y)
           /\ SameFlags(Closed(y), y)
           /\ SameFlags(FailedLoad(y), y)
           /\ SameFlags(Discarded(y), y)
           /\ SameFlags(SettledBox(y), y)
           /\ SameFlags(LandedTab(y), y)
           /\ ~Resynced(y).flight.readDone /\ Resynced(y).flight.settled = y.flight.settled
<1>1. SameFlags(Replied(y), y)
  BY DEF SameFlags, Replied, TabShape, FlightShape
<1>2. SameFlags(Closed(y), y)
  BY DEF SameFlags, Closed, Replied, TabShape, FlightShape
<1>3. SameFlags(FailedLoad(y), y)
  BY DEF SameFlags, FailedLoad, TabShape, FlightShape
<1>4. SameFlags(Discarded(y), y) /\ SameFlags(SettledBox(y), y)
  BY DEF SameFlags, Discarded, SettledBox, TabShape
<1>5. SameFlags(LandedTab(y), y)
  BY DEF SameFlags, LandedTab, TabShape, FlightShape
<1>6. ~Resynced(y).flight.readDone /\ Resynced(y).flight.settled = y.flight.settled
  <2>1. PICK z : z = [y EXCEPT !.flight.readDone = FALSE]
    OBVIOUS
  <2>2. TabShape(z) /\ z.flight.open /\ ~z.flight.readDone /\ z.flight.settled = y.flight.settled
    BY <2>1 DEF TabShape, FlightShape
  <2>3. Resynced(y) \in {z, Replied(z)}
    BY <2>1 DEF Resynced
  <2> QED
    BY <2>2, <2>3 DEF Replied, TabShape, FlightShape
<1> QED
  BY <1>1, <1>2, <1>3, <1>4, <1>5, <1>6

LEMMA AsFlags ==
    ASSUME NEW x, NEW y, NEW s, NEW b, NEW c, As(y, x, s, b, c)
    PROVE  /\ SameFlags(Replied(y), y)
           /\ SameFlags(Closed(y), y)
           /\ SameFlags(FailedLoad(y), y)
           /\ SameFlags(Discarded(y), y)
           /\ SameFlags(SettledBox(y), y)
           /\ SameFlags(LandedTab(y), y)
           /\ ~Resynced(y).flight.readDone /\ Resynced(y).flight.settled = y.flight.settled
BY FlagsKept DEF As

(* Nothing is sent for nobody, nor for a round that is full.               *)
LEMMA StartAppendBound ==
    ASSUME Inv, NEW t \in Tabs, NEW bk, NEW ty, Bound(tab[t], t, bk, ty), tab[t].flight.open,
           tab[t].call.at = "none", StartAppend(t)
    PROVE  Bound(tab'[t], t, bk, ty)
<1>1. PICK x : x = tab[t]
  OBVIOUS
<1>2. Sane(x) /\ TabShape(x) /\ x.flight.open /\ x.call.at = "none"
  BY <1>1, TabSane
<1>3. PICK owed : owed = Pending(x)
  OBVIOUS
<1>4. PICK s : s = x.flight.server
  OBVIOUS
<1>5. s \in Snapshots /\ s.log \in Logs /\ Len(s.log) \in Nat /\ x.page = x.flight.edition /\ x.page # 0
  BY <1>2, <1>4, ServerShape DEF Sane, Settings, TabShape, Editions, Logs
<1>6. /\ owed \in Logs /\ Identities(owed) = Owed(x.box, x.page) /\ Len(owed) \in Nat
      /\ Distinct(owed) /\ WasTyped(owed, t, x.who, x.device, x.page, ty)
  BY <1>1, <1>2, <1>3, PendingOwed DEF Bound, Logs
<1>7. PICK room : room = Cap - Len(s.log)
  OBVIOUS
<1>8. CASE owed = <<>> \/ x.who = None
  BY <1>1, <1>2, <1>3, <1>8, IdleBound DEF StartAppend
<1>9. CASE owed # <<>> /\ x.who # None /\ room = 0
  <2>1. Over(s)
    BY <1>5, <1>7, <1>9, BoundsAssumption DEF Over, Full, Logs
  <2>2. As(x, x, s, x.box, x.call)
    BY <1>2, <1>4, Itself
  <2>3. PICK b : As(Discarded(x), x, s, b, x.call) /\ b.edition # x.page /\ Owed(b, x.page) = {}
    BY <1>5, <2>2, DiscardedOwes
  <2>4. PICK m : m = Closed(Discarded(x))
    OBVIOUS
  <2>5. As(m, x, s, b, x.call)
    BY <2>3, <2>4, ClosedAs
  <2>6. Own(b, x, t, ty) /\ Clear(m, x, s, b, t, bk)
    BY <2>1, <2>3 DEF Own, Clear
  <2>7. Bound(m, t, bk, ty)
    BY <1>1, <1>2, <1>9, <2>5, <2>6, AsBound
  <2>8. Put(t, m)
    BY <1>1, <1>3, <1>4, <1>7, <1>9, <2>4 DEF StartAppend
  <2> QED
    BY <2>7, <2>8, PutIs
<1>10. CASE owed # <<>> /\ x.who # None /\ room # 0
  <2>1. PICK fits : fits = Fitting(owed, room)
    OBVIOUS
  <2>2. /\ fits \in Logs /\ Distinct(fits) /\ WasTyped(fits, t, x.who, x.device, x.page, ty)
        /\ Identities(fits) \subseteq Owed(x.box, x.page)
    <3>1. PICK k \in Nat : k = Len(s.log)
      BY <1>5
    <3>2. /\ fits \in Logs
          /\ Identities(fits) \subseteq Identities(owed)
          /\ Distinct(owed) => Distinct(fits)
          /\ \A i \in DOMAIN fits : fits[i] = owed[i] /\ i \in DOMAIN owed
      BY <1>6, <1>7, <2>1, <3>1, HeadOf
    <3>3. WasTyped(fits, t, x.who, x.device, x.page, ty)
      BY <1>6, <3>2 DEF WasTyped
    <3> QED
      BY <1>6, <3>2, <3>3
  <2>3. PICK at : at = IF x.flight.created THEN "sent" ELSE "token"
    OBVIOUS
  <2>4. PICK c : c = Call(t, "append", fits, at)
    OBVIOUS
  <2>5. /\ c.kind = "append" /\ c.batch = fits /\ c.at = at /\ c.puzzle = x.page
        /\ c.epoch = <<x.who, x.device>>
    <3>1. c.kind = "append" /\ c.batch = fits
      BY <2>4 DEF Call
    <3> QED
      BY <1>1, <1>2, <1>10, <2>2, <2>3, <2>4, <3>1, CallFacts
  <2>6. x.flight.readDone
    BY <1>1 DEF StartAppend
  <2>7. PICK m, g : g = x.flight.giveUp /\ m = AskedTab(x, c, g)
    OBVIOUS
  <2>8. Bound(m, t, bk, ty)
    BY <1>1, <1>2, <1>10, <2>2, <2>3, <2>5, <2>6, <2>7, AskedBound
  <2>9. m = [x EXCEPT !.call = c, !.flight.due = FALSE]
    BY <1>2, <2>7 DEF TabShape, FlightShape, AskedTab
  <2>10. Put(t, m)
    BY <1>1, <1>3, <1>4, <1>7, <1>10, <2>1, <2>3, <2>4, <2>9 DEF StartAppend, Fitting
  <2> QED
    BY <2>8, <2>10, PutIs
<1> QED
  BY <1>8, <1>9, <1>10

LEMMA PumpBound ==
    ASSUME Inv, NEW t \in Tabs, NEW bk, NEW ty, Bound(tab[t], t, bk, ty), Pump(t)
    PROVE  Bound(tab'[t], t, bk, ty)
<1>1. tab[t].flight.open
  BY DEF Pump
<1>2. CASE tab[t].flight.closed \/ tab[t].call.at # "none"
  BY <1>1, <1>2, IdleBound DEF Pump
<1>3. CASE ~(tab[t].flight.closed \/ tab[t].call.at # "none")
  BY <1>1, <1>3, StartReadBound, StartGiveUpBound, StartAppendBound DEF Pump
<1> QED
  BY <1>2, <1>3

(* The landing of an answer.                                               *)

LEMMA LandsBound ==
    ASSUME Inv, NEW t \in Tabs, NEW bk, NEW ty, NEW x, x = tab[t], Bound(x, t, bk, ty), x.who # None,
           NEW y, NEW s, NEW b, NEW c, As(y, x, s, b, c), Own(b, x, t, ty), Clear(y, x, s, b, t, bk),
           Landed(t, y)
    PROVE  Bound(tab'[t], t, bk, ty)
<1>1. PICK m : m = LandedTab(y)
  OBVIOUS
<1>2. As(m, x, s, b, NoCall) /\ NoCall.at = "none"
  BY <1>1, LandedAs DEF NoCall
<1>3. Clear(m, x, s, b, t, bk)
  BY <1>1, AsFlags DEF SameFlags, Clear
<1>4. Bound(m, t, bk, ty)
  BY <1>2, <1>3, AsBound
<1>5. Put(t, m)
  BY <1>1 DEF Landed, LandedTab
<1> QED
  BY <1>4, <1>5, PutIs

(* A landing that found no new state: what was known is known, or a read   *)
(* is due.                                                                 *)
LEMMA FailedBound ==
    ASSUME Inv, NEW t \in Tabs, NEW bk, NEW ty, NEW x, x = tab[t], Bound(x, t, bk, ty),
           x.flight.open, x.who # None,
           \/ Landed(t, Resynced(x))
           \/ /\ x.flight.readDone => Knows(x)
              /\ \/ Landed(t, x)
                 \/ Landed(t, Replied(x))
                 \/ Landed(t, Closed(x))
                 \/ Landed(t, Closed(Replied(x)))
                 \/ Landed(t, FailedLoad(Replied(x)))
    PROVE  Bound(tab'[t], t, bk, ty)
<1>1. PICK s, b, c : s = x.flight.server /\ b = x.box /\ c = x.call
  OBVIOUS
<1>2. As(x, x, s, b, c)
  BY <1>1, TabSane, Itself
<1>3. Own(b, x, t, ty)
  BY <1>1 DEF Bound, Tidy, Own
<1>4. CASE Landed(t, Resynced(x))
  <2>1. PICK y : y = Resynced(x)
    OBVIOUS
  <2>2. As(y, x, s, b, c)
    BY <1>2, <2>1, ResyncedAs
  <2>3. ~y.flight.readDone /\ y.flight.settled = x.flight.settled
    BY <1>2, <2>1, AsFlags
  <2>4. Clear(y, x, s, b, t, bk)
    BY <1>1, <2>3 DEF Bound, Square, Clear
  <2> QED
    BY <1>3, <1>4, <2>1, <2>2, <2>4, LandsBound
<1>5. CASE x.flight.readDone => Knows(x)
  <2>1. ASSUME NEW y, As(y, x, s, b, c), SameFlags(y, x), Landed(t, y)
        PROVE  Bound(tab'[t], t, bk, ty)
    <3>1. Clear(y, x, s, b, t, bk)
      BY <1>1, <1>5, <2>1 DEF Bound, Square, Clear, SameFlags
    <3> QED
      BY <1>3, <2>1, <3>1, LandsBound
  <2>2. SameFlags(x, x)
    BY DEF SameFlags
  <2>3. As(Replied(x), x, s, b, c) /\ SameFlags(Replied(x), x)
    BY <1>2, RepliedAs, AsFlags
  <2>4. As(Closed(x), x, s, b, c) /\ SameFlags(Closed(x), x)
    BY <1>2, ClosedAs, AsFlags
  <2>5. As(Closed(Replied(x)), x, s, b, c) /\ SameFlags(Closed(Replied(x)), x)
    BY <2>3, ClosedAs, AsFlags DEF SameFlags
  <2>6. As(FailedLoad(Replied(x)), x, s, b, c) /\ SameFlags(FailedLoad(Replied(x)), x)
    BY <2>3, ResyncedAs, AsFlags DEF SameFlags
  <2> QED
    BY <1>2, <1>4, <2>1, <2>2, <2>3, <2>4, <2>5, <2>6
<1> QED
  BY <1>4, <1>5

(* An answer that ends the round: what is owed is dropped.                 *)
LEMMA EndBound ==
    ASSUME Inv, NEW t \in Tabs, NEW bk, NEW ty, NEW x, x = tab[t], Bound(x, t, bk, ty),
           Answered(x), Over(x.call.answer.state),
           NEW y, As(y, x, x.call.answer.state, x.box, x.call), Landed(t, Closed(Discarded(y)))
    PROVE  Bound(tab'[t], t, bk, ty)
<1>1. PICK s, c : s = x.call.answer.state /\ c = x.call
  OBVIOUS
<1>2. x.flight.edition = x.page /\ x.page # 0 /\ x.who # None
  BY DEF Answered, Sane, Settings, TabShape, Editions
<1>3. PICK b : As(Discarded(y), x, s, b, c) /\ b.edition # x.page /\ Owed(b, x.page) = {}
  BY <1>1, <1>2, DiscardedOwes
<1>4. PICK z : z = Closed(Discarded(y))
  OBVIOUS
<1>5. As(z, x, s, b, c)
  BY <1>3, <1>4, ClosedAs
<1>6. Own(b, x, t, ty) /\ Clear(z, x, s, b, t, bk)
  BY <1>1, <1>3 DEF Own, Clear
<1> QED
  BY <1>2, <1>4, <1>5, <1>6, LandsBound

(* An answer of a round that goes on tells all that is stored of what this *)
(* identity typed: what it holds is owed no more, and the rest is known    *)
(* not to be stored.  One that stored nothing may leave the outbox.        *)
LEMMA SettleBound ==
    ASSUME Inv, NEW t \in Tabs, NEW bk, NEW ty, NEW x, x = tab[t], Bound(x, t, bk, ty),
           Answered(x), x.call.answer.status \in Shown3,
           NEW y, As(y, x, x.call.answer.state, x.box, x.call),
           \/ /\ Landed(t, y)
              /\ y.flight.readDone => Knows(x)
           \/ Landed(t, SettledBox(y))
           \/ Landed(t, Replied(SettledBox(y)))
    PROVE  Bound(tab'[t], t, bk, ty)
<1>1. PICK s, c : s = x.call.answer.state /\ c = x.call
  OBVIOUS
<1>2. x.flight.edition = x.page /\ x.page # 0 /\ x.who # None
  BY DEF Answered, Sane, Settings, TabShape, Editions
<1>3. Spent(bk, t, x.who, x.device, x.page) \subseteq Identities(s.log)
  BY <1>1 DEF Answered, Bound, Asks, Hears
<1>4. Own(x.box, x, t, ty)
  BY DEF Bound, Tidy, Own
<1>5. CASE Landed(t, y) /\ (y.flight.readDone => Knows(x))
  <2>1. Clear(y, x, s, x.box, t, bk)
    BY <1>3, <1>5 DEF Bound, Square, Clear
  <2> QED
    BY <1>1, <1>2, <1>4, <1>5, <2>1, LandsBound
<1>6. CASE Landed(t, SettledBox(y)) \/ Landed(t, Replied(SettledBox(y)))
  <2>1. PICK b : /\ As(SettledBox(y), x, s, b, c) /\ Own(b, x, t, ty)
                 /\ Owed(b, x.page) \cap Identities(s.log) = {}
    BY <1>1, <1>2, <1>4, SettledOwes
  <2>2. PICK z : z = SettledBox(y)
    OBVIOUS
  <2>3. As(z, x, s, b, c) /\ As(Replied(z), x, s, b, c)
    BY <2>1, <2>2, RepliedAs
  <2>4. Clear(z, x, s, b, t, bk) /\ Clear(Replied(z), x, s, b, t, bk)
    BY <1>3, <2>1 DEF Clear
  <2>5. CASE Landed(t, z)
    BY <1>2, <2>1, <2>3, <2>4, <2>5, LandsBound
  <2>6. CASE Landed(t, Replied(z))
    BY <1>2, <2>1, <2>3, <2>4, <2>6, LandsBound
  <2> QED
    BY <1>6, <2>2, <2>5, <2>6
<1> QED
  BY <1>5, <1>6

(* The read answers with the round, or with none stored.                   *)
LEMMA ReadLandsBound ==
    ASSUME Inv, NEW t \in Tabs, NEW bk, NEW ty, NEW x, x = tab[t], Bound(x, t, bk, ty),
           Answered(x), x.call.answer.status \in {"ok", "not_found"}, ReadLands(t, x.call.answer)
    PROVE  Bound(tab'[t], t, bk, ty)
<1>1. PICK answer, c, b : answer = x.call.answer /\ c = x.call /\ b = x.box
  OBVIOUS
<1>2. As(x, x, x.flight.server, b, c)
  BY <1>1, Itself DEF Answered, Sane
<1>3. CASE answer.status = "ok"
  <2>1. answer.state \in Snapshots
    BY <1>1, <1>3 DEF Answered, Sane, TabShape, CallShape, RequestShape, Fits, Shown3
  <2>2. PICK y : y = [Shown(x, answer) EXCEPT !.flight.readDone = TRUE]
    OBVIOUS
  <2>3. As(y, x, answer.state, b, c)
    <3>1. PICK z : z = Shown(x, answer)
      OBVIOUS
    <3>2. As(z, x, answer.state, b, c)
      BY <1>2, <2>1, <3>1, ShownAs
    <3> QED
      BY <2>2, <3>1, <3>2 DEF As, TabShape, FlightShape
  <2>4. CASE Ended(answer.state)
    <3>1. Landed(t, Closed(Discarded(y)))
      BY <1>1, <1>3, <2>2, <2>4 DEF ReadLands
    <3>2. Over(answer.state)
      BY <2>4 DEF Over, Ended
    <3> QED
      BY <1>1, <2>3, <3>1, <3>2, EndBound
  <2>5. CASE ~Ended(answer.state)
    <3>1. Landed(t, SettledBox(y)) \/ Landed(t, Replied(SettledBox(y)))
      BY <1>1, <1>3, <2>2, <2>5 DEF ReadLands
    <3> QED
      BY <1>1, <1>3, <2>3, <3>1, SettleBound DEF Shown3
  <2> QED
    BY <2>4, <2>5
<1>4. CASE answer.status = "not_found"
  <2>1. PICK y : y = [Adopted(x, EmptyServer) EXCEPT !.flight.created = FALSE, !.flight.readDone = TRUE]
    OBVIOUS
  <2>2. As(y, x, EmptyServer, b, c)
    <3>1. PICK z : z = Adopted(x, EmptyServer)
      OBVIOUS
    <3>2. EmptyServer \in Snapshots
      BY DEF EmptyServer, Snapshots, Logs
    <3>3. As(z, x, EmptyServer, b, c)
      BY <1>2, <3>1, <3>2, AdoptedAs
    <3> QED
      BY <2>1, <3>1, <3>3 DEF As, TabShape, FlightShape
  <2>3. As(Replied(y), x, EmptyServer, b, c)
    BY <2>2, RepliedAs
  <2>4. Landed(t, y) \/ Landed(t, Replied(y))
    BY <1>1, <1>4, <2>1 DEF ReadLands
  <2>5. Spent(bk, t, x.who, x.device, x.page) = {}
    BY <1>1, <1>4 DEF Answered, Bound, Asks, Hears
  <2>6. Own(b, x, t, ty) /\ x.who # None
    BY <1>1 DEF Bound, Tidy, Own, Answered
  <2>7. Clear(y, x, EmptyServer, b, t, bk) /\ Clear(Replied(y), x, EmptyServer, b, t, bk)
    BY <2>5 DEF Clear
  <2> QED
    BY <2>2, <2>3, <2>4, <2>6, <2>7, LandsBound
<1> QED
  BY <1>1, <1>3, <1>4

LEMMA GiveUpLandsBound ==
    ASSUME Inv, NEW t \in Tabs, NEW bk, NEW ty, NEW x, x = tab[t], Bound(x, t, bk, ty),
           Answered(x), x.call.kind = "giveUp",
           x.call.answer.status # "unknown_device", GiveUpLands(t, x.call.answer)
    PROVE  Bound(tab'[t], t, bk, ty)
<1>1. PICK answer, c, b : answer = x.call.answer /\ c = x.call /\ b = x.box
  OBVIOUS
<1>2. Fits("giveUp", answer)
  BY <1>1 DEF Answered, Sane, TabShape, CallShape, RequestShape
<1>3. CASE answer.status \in {"ok", "refused"}
  <2>1. answer.state \in Snapshots /\ Ended(answer.state)
    BY <1>1, <1>2, <1>3 DEF Fits, Shown3
  <2>2. PICK y : y = Adopted(x, answer.state)
    OBVIOUS
  <2>3. As(y, x, answer.state, b, c)
    <3>1. As(x, x, x.flight.server, b, c)
      BY <1>1, Itself DEF Answered, Sane
    <3> QED
      BY <2>1, <2>2, <3>1, AdoptedAs
  <2>4. Landed(t, Closed(Discarded(y)))
    BY <1>1, <1>3, <2>1, <2>2 DEF GiveUpLands
  <2>5. Over(answer.state)
    BY <2>1 DEF Over, Ended
  <2> QED
    BY <1>1, <2>3, <2>4, <2>5, EndBound
<1>4. CASE answer.status \in {"puzzle_changed", "not_found"}
  <2>1. Landed(t, Closed(Replied(x))) \/ Landed(t, Replied(x))
    BY <1>1, <1>4 DEF GiveUpLands
  <2>2. x.flight.readDone => Knows(x)
    BY DEF Knows, OwnAppend, Answered
  <2> QED
    BY <2>1, <2>2, FailedBound DEF Answered
<1> QED
  BY <1>1, <1>2, <1>3, <1>4 DEF Fits

LEMMA AppendLandsTo ==
    ASSUME NEW t \in Tabs, NEW x, x = tab[t], NEW answer, answer.status \in Shown3, AppendLands(t, answer),
           NEW y, y = Shown(x, answer)
    PROVE  \/ Over(answer.state) /\ Landed(t, Closed(Discarded(y)))
           \/ answer.status = "ok" /\ Landed(t, SettledBox(y))
           \/ answer.status # "ok" /\ Landed(t, y)
BY DEF AppendLands, Shown3, Over, Ended

(* A batch the server stored is settled by the answer that says so; one it *)
(* refused or put off is owed still.                                       *)
LEMMA AppendLandsBound ==
    ASSUME Inv, NEW t \in Tabs, NEW bk, NEW ty, NEW x, x = tab[t], Bound(x, t, bk, ty),
           Answered(x), x.call.kind = "append",
           x.call.answer.status # "unknown_device", AppendLands(t, x.call.answer)
    PROVE  Bound(tab'[t], t, bk, ty)
<1>1. PICK answer, c, b : answer = x.call.answer /\ c = x.call /\ b = x.box
  OBVIOUS
<1>2. Fits("append", answer)
  BY <1>1 DEF Answered, Sane, TabShape, CallShape, RequestShape
<1>3. answer.status # "ok" /\ x.flight.readDone => Knows(x)
  BY <1>1 DEF Knows, OwnAppend, Answered
<1>4. CASE answer.status \in Shown3
  <2>1. answer.state \in Snapshots
    BY <1>2, <1>4 DEF Fits
  <2>2. PICK y : y = Shown(x, answer)
    OBVIOUS
  <2>3. As(y, x, answer.state, b, c)
    <3>1. As(x, x, x.flight.server, b, c)
      BY <1>1, Itself DEF Answered, Sane
    <3> QED
      BY <2>1, <2>2, <3>1, ShownAs
  <2>4. \/ Over(answer.state) /\ Landed(t, Closed(Discarded(y)))
        \/ answer.status = "ok" /\ Landed(t, SettledBox(y))
        \/ answer.status # "ok" /\ Landed(t, y)
    BY <1>1, <1>4, <2>2, AppendLandsTo
  <2>5. CASE Over(answer.state) /\ Landed(t, Closed(Discarded(y)))
    BY <1>1, <2>3, <2>5, EndBound
  <2>6. CASE Landed(t, SettledBox(y))
    BY <1>1, <1>4, <2>3, <2>6, SettleBound
  <2>7. CASE answer.status # "ok" /\ Landed(t, y)
    <3>1. y.flight.readDone = x.flight.readDone
      <4>1. PICK f : f = x.flight
        OBVIOUS
      <4>2. TabShape(x) /\ FlightShape(f) /\ f.open
        BY <4>1 DEF Answered, Sane, TabShape
      <4> QED
        BY <2>2, <4>1, <4>2 DEF Shown, Adopted, TabShape, FlightShape
    <3> QED
      BY <1>1, <1>3, <1>4, <2>3, <2>7, <3>1, SettleBound
  <2> QED
    BY <2>4, <2>5, <2>6, <2>7
<1>5. CASE answer.status \in {"puzzle_changed", "forbidden"}
  <2>1. Landed(t, Closed(x))
    BY <1>1, <1>5 DEF AppendLands
  <2> QED
    BY <1>3, <1>5, <2>1, FailedBound DEF Answered
<1> QED
  BY <1>1, <1>2, <1>4, <1>5 DEF Fits

LEMMA SignedOutBound ==
    ASSUME Inv, NEW t \in Tabs, NEW bk, NEW ty, NEW x, x = tab[t], Bound(x, t, bk, ty),
           x.who # None, SignedOut(t)
    PROVE  Bound(tab'[t], t, bk, ty)
<1>1. Sane(x) /\ x.device \in Nat
  BY TabSane DEF TabShape
<1>2. PICK y : y = Left(x, None, x.device)
  OBVIOUS
<1>3. TabShape(y) /\ y.page = x.page /\ y.who = None /\ y.box = NoBox /\ y.call = NoCall
  BY <1>1, <1>2, LeftFacts
<1>4. PICK m : m = [y EXCEPT !.stray = NoCall]
  OBVIOUS
<1>5. /\ m.page # 0 /\ m.who = None /\ m.box.edition = 0 /\ m.call.at = "none"
      /\ m.stray = NoCall
  BY <1>3, <1>4, NoFacts DEF TabShape, Editions
<1>6. Fair(m.stray, t, bk, ty)
  BY <1>5, NoFacts DEF Fair
<1>7. Bound(m, t, bk, ty)
  BY <1>5, <1>6, NewBound
<1>8. Put(t, m)
  BY <1>2, <1>4 DEF SignedOut
<1> QED
  BY <1>7, <1>8, PutIs

LEMMA LandBound ==
    ASSUME Inv, NEW t \in Tabs, NEW bk, NEW ty, Bound(tab[t], t, bk, ty), Land(t)
    PROVE  Bound(tab'[t], t, bk, ty)
<1>1. PICK x, c : x = tab[t] /\ c = x.call
  OBVIOUS
<1>2. Sane(x) /\ c.at \in {"answered", "failed"} /\ Bound(x, t, bk, ty)
  BY <1>1, TabSane DEF Land
<1>3. x.flight.open /\ x.who # None /\ x.flight.edition = x.page
  BY <1>1, <1>2 DEF Sane, Awaits, Settings
<1>4. c.epoch = <<x.who, x.device>>
  BY <1>1, <1>2 DEF Bound, Asks
<1>5. CASE Superseded(t, c)
  <2>1. Landed(t, x)
    BY <1>1, <1>5 DEF Land
  <2>2. c.puzzle # x.page
    BY <1>1, <1>3, <1>4, <1>5 DEF Superseded, Epoch
  <2>3. x.flight.readDone => Knows(x)
    BY <1>1, <1>3, <2>2 DEF Knows, OwnAppend
  <2> QED
    BY <1>1, <1>2, <1>3, <2>1, <2>3, FailedBound
<1>6. CASE ~Superseded(t, c)
  <2>1. c.puzzle = x.page /\ c.edition = x.page /\ c.epoch[1] = x.who /\ c.epoch[2] = x.device
    <3>1. c.puzzle = x.page /\ c.epoch[1] = x.who /\ c.epoch[2] = x.device
      BY <1>1, <1>3, <1>6 DEF Superseded, Epoch
    <3> QED
      BY <1>1, <1>2, <3>1, NamesNothingOlder
  <2>2. RequestShape(c)
    BY <1>1, <1>2 DEF Sane, TabShape, CallShape
  <2>3. CASE c.at = "failed"
    <3>1. PICK answer : answer = Verdict("failed")
      OBVIOUS
    <3>2. answer.status = "failed"
      BY <3>1 DEF Verdict
    <3>3. \/ c.kind = "read" /\ ReadLands(t, answer)
          \/ c.kind = "giveUp" /\ GiveUpLands(t, answer)
          \/ c.kind = "append" /\ AppendLands(t, answer)
      BY <1>1, <1>6, <2>2, <2>3, <3>1, <3>2 DEF Land, RequestShape
    <3>4. (c.kind = "read" /\ Landed(t, FailedLoad(Replied(x)))) \/ Landed(t, Resynced(x))
      BY <1>1, <3>2, <3>3 DEF ReadLands, GiveUpLands, AppendLands
    <3>5. c.kind = "read" => (x.flight.readDone => Knows(x))
      BY <1>1, <1>3 DEF Knows, OwnAppend
    <3> QED
      BY <1>1, <1>2, <1>3, <3>4, <3>5, FailedBound
  <2>4. CASE c.at = "answered"
    <3>1. Answered(x)
      BY <1>1, <1>2, <1>3, <2>1, <2>4 DEF Answered
    <3>2. CASE c.answer.status = "unknown_device"
      <4>1. SignedOut(t)
        BY <1>1, <1>6, <2>4, <3>2 DEF Land
      <4> QED
        BY <1>1, <1>2, <1>3, <4>1, SignedOutBound
    <3>3. CASE c.answer.status # "unknown_device"
      <4>1. \/ c.kind = "read" /\ ReadLands(t, c.answer)
            \/ c.kind = "giveUp" /\ GiveUpLands(t, c.answer)
            \/ c.kind = "append" /\ AppendLands(t, c.answer)
        BY <1>1, <1>6, <2>2, <2>4, <3>3 DEF Land, RequestShape
      <4>2. c.kind = "read" => c.answer.status \in {"ok", "not_found"}
        BY <2>2, <2>4, <3>3 DEF RequestShape, Fits
      <4> QED
        BY <1>1, <1>2, <3>1, <3>3, <4>1, <4>2, ReadLandsBound, GiveUpLandsBound, AppendLandsBound
    <3> QED
      BY <3>2, <3>3
  <2> QED
    BY <1>2, <2>3, <2>4
<1> QED
  BY <1>5, <1>6

(* A request that moves on, or that failed: then the tab knows no more     *)
(* what is stored.                                                         *)
LEMMA AtBound ==
    ASSUME NEW t, NEW bk, NEW ty, NEW x, Bound(x, t, bk, ty),
           NEW m, m.call.at \in {"sent", "failed"},
           x.call.at = "token" \/ (x.call.at # "none" /\ m.call.at = "failed"),
           m.call.puzzle = x.call.puzzle, m.call.epoch = x.call.epoch,
           m.call.kind = x.call.kind, m.call.batch = x.call.batch,
           m.page = x.page, m.who = x.who, m.device = x.device, m.box = x.box,
           m.stray = x.stray, m.flight = x.flight
    PROVE  Bound(m, t, bk, ty)
<1>1. Tidy(m, t, ty)
  BY DEF Bound, Tidy
<1>2. Asks(m, t, bk, ty)
  <2>1. Fair(m.call, t, bk, ty)
    BY DEF Bound, Asks, Fair
  <2>2. Hears(m, t, bk)
    BY DEF Hears
  <2> QED
    BY <2>1, <2>2 DEF Bound, Asks, OwnAppend
<1>3. Square(m, t, bk)
  <2>1. Knows(m) => Knows(x)
    BY DEF Knows, OwnAppend
  <2> QED
    BY <2>1 DEF Bound, Square
<1> QED
  BY <1>1, <1>2, <1>3 DEF Bound

LEMMA ChallengedBound ==
    ASSUME Inv, NEW t \in Tabs, NEW bk, NEW ty, Bound(tab[t], t, bk, ty), Challenged(t) \/ Fail(t)
    PROVE  Bound(tab'[t], t, bk, ty)
<1>1. PICK x : x = tab[t]
  OBVIOUS
<1>2. Sane(x) /\ Bound(x, t, bk, ty)
  BY <1>1, TabSane
<1>3. CASE Challenged(t)
  <2>1. x.call.at = "token" /\ Epoch(t) = x.call.epoch
    BY <1>1, <1>2, <1>3 DEF Challenged, Bound, Asks, Epoch
  <2>2. PICK m : m = NamedTab(x)
    OBVIOUS
  <2>3. Bound(m, t, bk, ty)
    <3>1. /\ m.call.at = "sent" /\ m.call.puzzle = x.call.puzzle /\ m.call.epoch = x.call.epoch
          /\ m.call.kind = x.call.kind /\ m.call.batch = x.call.batch
          /\ m.page = x.page /\ m.who = x.who /\ m.device = x.device /\ m.box = x.box
          /\ m.stray = x.stray /\ m.flight = x.flight
      BY <1>2, <2>1, <2>2, NamedFacts
    <3> QED
      BY <1>2, <2>1, <3>1, AtBound
  <2>4. Put(t, m)
    BY <1>1, <1>3, <2>1, <2>2 DEF Challenged, NamedTab
  <2> QED
    BY <2>3, <2>4, PutIs
<1>4. CASE Fail(t)
  <2>1. PICK m : m = [x EXCEPT !.call.at = "failed"]
    OBVIOUS
  <2>2. Put(t, m) /\ x.call.at # "none"
    BY <1>1, <1>4, <2>1 DEF Fail
  <2>3. TabShape(x) /\ RequestShape(x.call)
    BY <1>2, <2>2 DEF Sane, TabShape, CallShape
  <2>4. PICK c : c = [x.call EXCEPT !.at = "failed"]
    OBVIOUS
  <2>5. /\ c.at = "failed" /\ c.puzzle = x.call.puzzle /\ c.epoch = x.call.epoch
        /\ c.kind = x.call.kind /\ c.batch = x.call.batch
    BY <2>3, <2>4 DEF RequestShape
  <2>6. /\ m.call = c
        /\ m.page = x.page /\ m.who = x.who /\ m.device = x.device /\ m.box = x.box
        /\ m.stray = x.stray /\ m.flight = x.flight
    BY <2>1, <2>3, <2>4 DEF TabShape
  <2>7. Bound(m, t, bk, ty)
    BY <1>2, <2>2, <2>5, <2>6, AtBound
  <2> QED
    BY <2>2, <2>7, PutIs
<1> QED
  BY <1>3, <1>4

(* The request of an identity that was left lands nowhere.                 *)
LEMMA StrayLandsBound ==
    ASSUME Inv, NEW t \in Tabs, NEW bk, NEW ty, Bound(tab[t], t, bk, ty), StrayLands(t)
    PROVE  Bound(tab'[t], t, bk, ty)
<1>1. PICK x, c : x = tab[t] /\ c = x.stray
  OBVIOUS
<1>2. Sane(x) /\ c.at = "answered"
  BY <1>1, TabSane DEF StrayLands
<1>3. Superseded(t, c)
  <2>1. c.epoch[2] # x.device
    BY <1>1, <1>2 DEF Sane, Strays, TabShape, CallShape, RequestShape
  <2> QED
    BY <1>1, <2>1 DEF Superseded, Epoch
<1>4. PICK m : m = [x EXCEPT !.stray = NoCall]
  OBVIOUS
<1>5. Put(t, m)
  BY <1>1, <1>3, <1>4 DEF StrayLands
<1>6. /\ m.call = x.call /\ m.stray = NoCall
      /\ m.page = x.page /\ m.who = x.who /\ m.device = x.device /\ m.box = x.box
      /\ m.flight = x.flight
  BY <1>2, <1>4 DEF Sane, TabShape
<1>7. Bound(m, t, bk, ty)
  BY <1>1, <1>2, <1>6, AlikeBound
<1> QED
  BY <1>5, <1>7, PutIs

LEMMA ClientBound ==
    ASSUME Inv, NEW t \in Tabs, NEW bk, NEW ty, Bound(tab[t], t, bk, ty), Client(t)
    PROVE  Bound(tab'[t], t, bk, ty)
BY PumpBound, ChallengedBound, LandBound, StrayLandsBound DEF Client

(* What the player and the environment do to a tab.                        *)

(* A guess that is new to the board is not stored from here, since all     *)
(* that is stored of this identity is on the board.                        *)
LEMMA TypeBound ==
    ASSUME Inv, NEW t \in Tabs, NEW bk, NEW ty, NEW x, x = tab[t], Bound(x, t, bk, ty),
           x.flight.open, x.flight.settled, ~Over(x.flight.server), x.who # None,
           NEW g \in Guesses, Key[g] \notin Board(x),
           NEW tz, ty \subseteq tz, Entry(t, x.who, x.device, x.page, g) \in tz,
           NEW log, log = Append(Pending(x), g),
           NEW m, m.page = x.page, m.who = x.who, m.device = x.device, m.call = x.call, m.stray = x.stray,
           m.box.edition = x.page, m.box.log = log,
           m.flight.open, m.flight.server = x.flight.server,
           m.flight.readDone = x.flight.readDone, m.flight.settled = x.flight.settled
    PROVE  Bound(m, t, bk, tz)
<1>1. Sane(x) /\ TabShape(x) /\ x.flight.edition = x.page
  BY TabSane DEF Sane, Settings
<1>2. PICK owed : owed = Pending(x)
  OBVIOUS
<1>3. /\ owed \in Logs /\ Identities(owed) = Owed(x.box, x.page)
      /\ Distinct(owed) /\ WasTyped(owed, t, x.who, x.device, x.page, ty)
  BY <1>1, <1>2, PendingOwed DEF Bound
<1>4. /\ DOMAIN owed = 1..Len(owed) /\ DOMAIN log = 1..Len(owed) + 1 /\ Len(owed) \in Nat
      /\ \A i \in 1..Len(owed) : log[i] = owed[i]
      /\ log[Len(owed) + 1] = g /\ log \in Logs
  BY <1>2, <1>3 DEF Logs
<1>5. /\ Key[g] \notin Owed(x.box, x.page)
      /\ Key[g] \notin Spent(bk, t, x.who, x.device, x.page)
  <2>1. Board(x) = Identities(x.flight.server.log) \cup Owed(x.box, x.page)
    BY <1>1, BoardIs
  <2>2. Spent(bk, t, x.who, x.device, x.page) \subseteq Board(x)
    BY <2>1 DEF Bound, Square
  <2> QED
    BY <2>1, <2>2
<1>6. Distinct(log)
  <2>1. \A i \in 1..Len(owed) : Key[owed[i]] # Key[g]
    BY <1>3, <1>4, <1>5 DEF Identities
  <2> QED
    BY <1>3, <1>4, <2>1 DEF Distinct
<1>7. WasTyped(log, t, x.who, x.device, x.page, tz)
  BY <1>3, <1>4 DEF WasTyped
<1>8. Identities(log) = Identities(owed) \cup {Key[g]}
  BY <1>4 DEF Identities
<1>9. Owed(m.box, m.page) = Owed(x.box, x.page) \cup {Key[g]}
  BY <1>3, <1>8 DEF Owed
<1>10. Tidy(m, t, tz)
  BY <1>6, <1>7 DEF Tidy
<1>11. Asks(m, t, bk, tz) /\ Fair(m.stray, t, bk, tz)
  <2>1. Fair(x.call, t, bk, tz) /\ Fair(x.stray, t, bk, tz)
    BY DEF Bound, Asks, Fair, WasTyped
  <2>2. Hears(m, t, bk)
    BY DEF Bound, Asks, Hears
  <2> QED
    BY <1>9, <2>1, <2>2 DEF Bound, Asks, OwnAppend
<1>12. Square(m, t, bk)
  <2>1. Knows(m) => Knows(x)
    BY DEF Knows, OwnAppend
  <2>2. PICK stored, owes : /\ stored = Spent(bk, t, x.who, x.device, x.page)
                            /\ owes = Owed(x.box, x.page)
    OBVIOUS
  <2>3. /\ Knows(x) => owes \cap stored = {}
        /\ stored \subseteq Identities(x.flight.server.log) \cup owes
    BY <2>2 DEF Bound, Square
  <2>4. Key[g] \notin stored
    BY <1>5, <2>2
  <2>5. Knows(m) => (owes \cup {Key[g]}) \cap stored = {}
    BY <2>1, <2>3, <2>4
  <2> QED
    BY <1>9, <2>2, <2>3, <2>5 DEF Square
<1> QED
  BY <1>10, <1>11, <1>12 DEF Bound

LEMMA TypesBound ==
    ASSUME Inv, NEW t \in Tabs, NEW bk, Bound(tab[t], t, bk, typed), Type(t)
    PROVE  Bound(tab'[t], t, bk, typed')
<1>1. PICK x : x = tab[t]
  OBVIOUS
<1>2. x.flight.open /\ x.who # None /\ x.flight.settled /\ ~Over(x.flight.server)
  BY <1>1 DEF Type, Ready
<1>3. PICK g \in Guesses :
        /\ Key[g] \notin Board(x)
        /\ Put(t, [x EXCEPT !.box = [edition |-> x.page, log |-> Append(Pending(x), g)],
                            !.flight.due = TRUE])
        /\ typed' = typed \cup {Entry(t, x.who, x.device, x.page, g)}
  <2>1. PICK g \in Guesses :
        /\ Key[g] \notin Board(tab[t])
        /\ Put(t, [tab[t] EXCEPT !.box = [edition |-> tab[t].page, log |-> Append(Pending(tab[t]), g)],
                                 !.flight.due = TRUE])
        /\ typed' = typed \cup {[tab |-> t, who |-> tab[t].who, device |-> tab[t].device,
                                 edition |-> tab[t].page, guess |-> g]}
    BY Zenon DEF Type
  <2>2. Put(t, [x EXCEPT !.box = [edition |-> x.page, log |-> Append(Pending(x), g)],
                         !.flight.due = TRUE])
    BY <1>1, <2>1
  <2>3. typed' = typed \cup {Entry(t, x.who, x.device, x.page, g)}
    BY <1>1, <2>1 DEF Entry
  <2>4. Key[g] \notin Board(x)
    BY <1>1, <2>1
  <2> QED
    BY <2>1, <2>2, <2>3, <2>4, Zenon
<1>4. Sane(x) /\ TabShape(x) /\ FlightShape(x.flight)
  BY <1>1, TabSane DEF TabShape
<1>5. PICK log, d : log = Append(Pending(x), g) /\ d = TRUE
  OBVIOUS
<1>6. PICK b : b = [edition |-> x.page, log |-> log]
  OBVIOUS
<1>7. PICK f : f = [x.flight EXCEPT !.due = d]
  OBVIOUS
<1>8. PICK m : m = [x EXCEPT !.box = b, !.flight = f]
  OBVIOUS
<1>9. /\ m.call = x.call /\ m.stray = x.stray
      /\ m.page = x.page /\ m.who = x.who /\ m.device = x.device
      /\ m.box.edition = x.page /\ m.box.log = log
      /\ m.flight.open /\ m.flight.server = x.flight.server
      /\ m.flight.readDone = x.flight.readDone /\ m.flight.settled = x.flight.settled
  BY <1>2, <1>4, <1>6, <1>7, <1>8 DEF TabShape, FlightShape
<1>10. Bound(m, t, bk, typed')
  <2>1. PICK tz : tz = typed'
    OBVIOUS
  <2>2. Bound(x, t, bk, typed) /\ typed \subseteq tz /\ Entry(t, x.who, x.device, x.page, g) \in tz
    BY <1>1, <1>3, <2>1
  <2>3. Bound(m, t, bk, tz)
    BY <1>1, <1>2, <1>3, <1>5, <1>9, <2>2, TypeBound
  <2> QED
    BY <2>1, <2>3
<1>11. Put(t, m)
  BY <1>3, <1>4, <1>5, <1>6, <1>7, <1>8 DEF TabShape
<1> QED
  BY <1>10, <1>11, PutIs

LEMMA AskGiveUpBound ==
    ASSUME Inv, NEW t \in Tabs, NEW bk, NEW ty, Bound(tab[t], t, bk, ty), AskGiveUp(t) \/ Retry(t)
    PROVE  Bound(tab'[t], t, bk, ty)
<1>1. PICK x : x = tab[t]
  OBVIOUS
<1>2. Sane(x) /\ TabShape(x) /\ x.flight.open
  BY <1>1, TabSane DEF AskGiveUp, Retry
<1>3. PICK m : /\ Put(t, m)
               /\ \/ m = [x EXCEPT !.flight.giveUp = "asked", !.flight.due = TRUE]
                  \/ m = [x EXCEPT !.flight.failed = FALSE, !.flight.closed = FALSE, !.flight.due = TRUE]
  BY <1>1 DEF AskGiveUp, Retry
<1>4. /\ m.call = x.call /\ m.stray = x.stray
      /\ m.page = x.page /\ m.who = x.who /\ m.device = x.device /\ m.box = x.box
      /\ m.flight.open /\ m.flight.server = x.flight.server
      /\ m.flight.readDone = x.flight.readDone /\ m.flight.settled = x.flight.settled
  <2>1. CASE m = [x EXCEPT !.flight.giveUp = "asked", !.flight.due = TRUE]
    BY <1>2, <2>1 DEF TabShape, FlightShape
  <2>2. CASE m = [x EXCEPT !.flight.failed = FALSE, !.flight.closed = FALSE, !.flight.due = TRUE]
    BY <1>2, <2>2 DEF TabShape, FlightShape
  <2> QED
    BY <1>3, <2>1, <2>2
<1>5. Bound(m, t, bk, ty)
  BY <1>1, <1>2, <1>4, AlikeBound
<1> QED
  BY <1>3, <1>5, PutIs

LEMMA PruneBound ==
    ASSUME Inv, NEW t \in Tabs, NEW bk, NEW ty, Bound(tab[t], t, bk, ty), Prune(t)
    PROVE  Bound(tab'[t], t, bk, ty)
<1>1. PICK x : x = tab[t]
  OBVIOUS
<1>2. Sane(x) /\ TabShape(x)
  BY <1>1, TabSane
<1>3. PICK m : m = [x EXCEPT !.flight = NoFlight, !.on = FALSE]
  OBVIOUS
<1>4. /\ ~m.flight.open /\ m.call = x.call /\ m.stray = x.stray
      /\ m.page = x.page /\ m.who = x.who /\ m.device = x.device /\ m.box = x.box
  BY <1>2, <1>3, NoFacts DEF TabShape
<1>5. Bound(m, t, bk, ty)
  BY <1>1, <1>2, <1>4, AlikeBound
<1>6. Put(t, m)
  BY <1>1, <1>3 DEF Prune
<1> QED
  BY <1>5, <1>6, PutIs

(* What Mounted leaves as it was.                                          *)
LEMMA MountedMore ==
    ASSUME NEW x, TabShape(x), NEW e \in Editions, NEW m, m = Mounted(x, e)
    PROVE  /\ m.box = x.box \/ (m.box.edition = 0 /\ x.box.edition # e)
           /\ \/ m.flight = Fresh(e) /\ ~(x.flight.open /\ x.flight.edition = e)
              \/ /\ x.flight.open /\ x.flight.edition = e
                 /\ m.flight.open /\ m.flight.server = x.flight.server
                 /\ m.flight.readDone = x.flight.readDone /\ m.flight.settled = x.flight.settled
<1>1. PICK box : box = IF x.box.edition \in {0, e} THEN x.box ELSE NoBox
  OBVIOUS
<1>2. BoxShape(box) /\ (box = x.box \/ (box.edition = 0 /\ x.box.edition # e))
  BY <1>1, NoFacts DEF TabShape
<1>3. PICK y : y = [x EXCEPT !.page = e, !.box = box, !.on = TRUE]
  OBVIOUS
<1>4. TabShape(y) /\ y.box = box /\ y.flight = x.flight
  BY <1>2, <1>3 DEF TabShape
<1>5. PICK f : f = Fresh(e)
  OBVIOUS
<1>6. CASE x.flight.open /\ x.flight.edition = e
  <2>1. m = [y EXCEPT !.flight.due = TRUE]
    BY <1>1, <1>3, <1>6 DEF Mounted
  <2> QED
    BY <1>2, <1>4, <1>6, <2>1 DEF TabShape, FlightShape
<1>7. CASE ~(x.flight.open /\ x.flight.edition = e)
  <2>1. m = [y EXCEPT !.flight = f] \/ m = [Replied(y) EXCEPT !.flight = f]
    BY <1>1, <1>3, <1>5, <1>7 DEF Mounted
  <2>2. m.flight = f /\ m.box = box
    BY <1>4, <2>1 DEF Replied, TabShape
  <2> QED
    BY <1>2, <1>5, <1>7, <2>2
<1> QED
  BY <1>6, <1>7

LEMMA VisitBound ==
    ASSUME Inv, NEW t \in Tabs, NEW bk, NEW ty, Bound(tab[t], t, bk, ty), Visit(t)
    PROVE  Bound(tab'[t], t, bk, ty)
<1>1. PICK x : x = tab[t]
  OBVIOUS
<1>2. Sane(x) /\ TabShape(x) /\ x.page \in Nat /\ published \in Nat
      /\ published <= MaxEdition /\ x.page >= 1
  BY <1>1, TabSane, BoundsAssumption DEF TabShape, Editions, Inv, Rows
<1>3. PICK e \in x.page..published : Put(t, Mounted(x, e))
  BY <1>1 DEF Visit
<1>4. e \in Editions /\ e \in Nat /\ x.page <= e
  BY <1>2, <1>3, BoundsAssumption DEF Editions
<1>5. PICK m : m = Mounted(x, e)
  OBVIOUS
<1>6. /\ m.page = e /\ m.who = x.who /\ m.device = x.device
      /\ m.call = x.call /\ m.stray = x.stray /\ m.box.edition \in {0, e}
  BY <1>2, <1>4, <1>5, MountedFacts
<1>7. /\ m.box = x.box \/ (m.box.edition = 0 /\ x.box.edition # e)
      /\ \/ m.flight = Fresh(e) /\ ~(x.flight.open /\ x.flight.edition = e)
         \/ /\ x.flight.open /\ x.flight.edition = e
            /\ m.flight.open /\ m.flight.server = x.flight.server
            /\ m.flight.readDone = x.flight.readDone /\ m.flight.settled = x.flight.settled
  BY <1>2, <1>4, <1>5, MountedMore
<1>8. CASE m.flight = Fresh(e) /\ ~(x.flight.open /\ x.flight.edition = e)
  <2>1. ~Fresh(e).readDone /\ ~Fresh(e).settled
    BY DEF Fresh
  <2>2. x.page < e \/ x.call.at = "none"
    BY <1>2, <1>4, <1>8 DEF Sane, Awaits, Settings
  <2>3. m.call.at = "none" \/ (m.call = x.call /\ x.page < m.page)
    BY <1>6, <2>2
  <2>4. Bound(m, t, bk, ty)
    BY <1>1, <1>2, <1>4, <1>6, <1>7, <1>8, <2>1, <2>3, AnewBound
  <2> QED
    BY <1>3, <1>5, <2>4, PutIs
<1>9. CASE x.flight.open /\ x.flight.edition = e
  <2>1. e = x.page
    BY <1>2, <1>9 DEF Sane, Settings
  <2>2. Bound(m, t, bk, ty)
    BY <1>1, <1>2, <1>6, <1>7, <1>9, <2>1, AlikeBound
  <2> QED
    BY <1>3, <1>5, <2>2, PutIs
<1> QED
  BY <1>7, <1>8, <1>9

LEMMA ReloadBound ==
    ASSUME Inv, NEW t \in Tabs, NEW bk, NEW ty, Bound(tab[t], t, bk, ty), Reload(t)
    PROVE  Bound(tab'[t], t, bk, ty)
<1>1. PICK x : x = tab[t]
  OBVIOUS
<1>2. Sane(x) /\ TabShape(x) /\ x.page \in Nat /\ published \in Nat
      /\ published <= MaxEdition /\ x.page >= 1
  BY <1>1, TabSane, BoundsAssumption DEF TabShape, Editions, Inv, Rows
<1>3. PICK z : z = [x EXCEPT !.flight = NoFlight, !.call = NoCall, !.stray = NoCall]
  OBVIOUS
<1>4. /\ TabShape(z) /\ ~z.flight.open /\ z.call = NoCall /\ z.stray = NoCall
      /\ z.page = x.page /\ z.who = x.who /\ z.device = x.device /\ z.box = x.box
  BY <1>2, <1>3, NoFacts DEF TabShape
<1>5. PICK e \in x.page..published : Put(t, Mounted(z, e))
  BY <1>1, <1>3 DEF Reload
<1>6. e \in Editions /\ e \in Nat /\ x.page <= e
  BY <1>2, <1>5, BoundsAssumption DEF Editions
<1>7. PICK m : m = Mounted(z, e)
  OBVIOUS
<1>8. /\ m.page = e /\ m.who = x.who /\ m.device = x.device
      /\ m.call = NoCall /\ m.stray = NoCall /\ m.box.edition \in {0, e}
  BY <1>4, <1>6, <1>7, MountedFacts
<1>9. /\ m.box = x.box \/ m.box.edition = 0
      /\ m.flight = Fresh(e)
  BY <1>4, <1>6, <1>7, MountedMore
<1>10. ~Fresh(e).readDone /\ ~Fresh(e).settled /\ NoCall.at = "none"
  BY DEF Fresh, NoCall
<1>11. Bound(m, t, bk, ty)
  BY <1>1, <1>2, <1>6, <1>8, <1>9, <1>10, AnewBound
<1> QED
  BY <1>5, <1>7, <1>11, PutIs

LEMMA PlayerBound ==
    ASSUME Inv, NEW t \in Tabs, NEW bk, Bound(tab[t], t, bk, typed), Player(t)
    PROVE  Bound(tab'[t], t, bk, typed')
<1>1. CASE Type(t)
  BY <1>1, TypesBound
<1>2. CASE AskGiveUp(t) \/ Retry(t)
  <2>1. typed' = typed
    BY <1>2 DEF AskGiveUp, Retry
  <2> QED
    BY <1>2, <2>1, AskGiveUpBound
<1>3. CASE Visit(t)
  <2>1. typed' = typed
    BY <1>3 DEF Visit
  <2> QED
    BY <1>3, <2>1, VisitBound
<1>4. CASE Reload(t)
  <2>1. typed' = typed
    BY <1>4 DEF Reload
  <2> QED
    BY <1>4, <2>1, ReloadBound
<1>5. CASE Prune(t)
  <2>1. typed' = typed
    BY <1>5 DEF Prune
  <2> QED
    BY <1>5, <2>1, PruneBound
<1> QED
  BY <1>1, <1>2, <1>3, <1>4, <1>5 DEF Player

LEMMA MoveBound ==
    ASSUME Inv, NEW t \in Tabs, NEW bk, NEW ty, Bound(tab[t], t, bk, ty), Move(t)
    PROVE  Bound(tab'[t], t, bk, ty)
<1>1. PICK x : x = tab[t]
  OBVIOUS
<1>2. Sane(x) /\ x.page # 0 /\ x.device + 1 \in Nat
  BY <1>1, TabSane DEF TabShape, Editions
<1>3. PICK a \in Accounts : Put(t, Left(x, a, x.device + 1))
  BY <1>1 DEF Move
<1>4. PICK m : m = Left(x, a, x.device + 1)
  OBVIOUS
<1>5. /\ Blank(m) /\ m.page = x.page
      /\ m.box = NoBox /\ m.call = NoCall
      /\ m.stray = x.stray \/ m.stray = x.call
  BY <1>2, <1>4, LeftFacts
<1>6. Fair(m.stray, t, bk, ty)
  BY <1>1, <1>5 DEF Bound, Asks
<1>7. m.call.at = "none" /\ m.box.edition = 0 /\ (m.flight.open => ~m.flight.settled)
  BY <1>5, NoFacts DEF Blank
<1>8. Bound(m, t, bk, ty)
  BY <1>2, <1>5, <1>6, <1>7, NewBound
<1> QED
  BY <1>3, <1>4, <1>8, PutIs

(* A first identity typed nothing yet.                                     *)
LEMMA AcquireBound ==
    ASSUME Inv, TypedBefore, NEW t \in Tabs, NEW bk, Books(row, bk, typed), Bound(tab[t], t, bk, typed),
           Acquire(t)
    PROVE  Bound(tab'[t], t, bk, typed)
<1>1. PICK x : x = tab[t]
  OBVIOUS
<1>2. /\ Sane(x) /\ TabShape(x) /\ x.who = None /\ x.page \in Nat /\ x.page # 0 /\ x.device \in Nat
  BY <1>1, TabSane DEF Acquire, TabShape, Editions
<1>3. PICK a \in Accounts :
        \/ Put(t, Kicked([x EXCEPT !.who = a, !.device = @ + 1]))
        \/ Put(t, Rearmed([x EXCEPT !.who = a, !.device = @ + 1]))
  <2>1. PICK a \in Accounts :
        \/ Put(t, Kicked([tab[t] EXCEPT !.who = a, !.device = @ + 1]))
        \/ Put(t, Rearmed([tab[t] EXCEPT !.who = a, !.device = @ + 1]))
    BY Zenon DEF Acquire
  <2> QED
    BY <1>1, <2>1, Zenon
<1>4. PICK y : y = [x EXCEPT !.who = a, !.device = @ + 1]
  OBVIOUS
<1>5. /\ TabShape(y) /\ y.page = x.page /\ y.device = x.device + 1 /\ y.who = a
      /\ y.box = x.box /\ y.flight = x.flight /\ y.call = x.call /\ y.stray = x.stray
  BY <1>2, <1>4 DEF TabShape
<1>6. PICK m : Put(t, m) /\ m \in {Kicked(y), Rearmed(y)}
  BY <1>3, <1>4
<1>7. /\ m.page = x.page /\ m.who = a /\ m.device = x.device + 1
      /\ m.box = x.box /\ m.call = x.call /\ m.stray = x.stray
  <2>1. CASE m = Kicked(y)
    BY <1>5, <2>1 DEF Kicked, TabShape
  <2>2. CASE m = Rearmed(y)
    BY <1>5, <2>2 DEF Rearmed, Replied, TabShape
  <2> QED
    BY <1>6, <2>1, <2>2
<1>8. Spent(bk, t, a, x.device + 1, x.page) = {}
  <2>1. tab[t].device < x.device + 1 /\ x.device + 1 \in Nat
    BY <1>1, <1>2
  <2> QED
    BY <1>2, <2>1, NothingSpent
<1>9. /\ m.call.at = "none" /\ m.box.edition = 0 /\ Fair(m.stray, t, bk, typed)
      /\ Spent(bk, t, m.who, m.device, m.page) = {}
  BY <1>1, <1>2, <1>7, <1>8 DEF Sane, Settings, Bound, Tidy
<1>10. Bound(m, t, bk, typed)
  BY <1>2, <1>7, <1>9, NewBound
<1> QED
  BY <1>6, <1>10, PutIs

-----------------------------------------------------------------------------
(* What a request stores.                                                  *)

(* The row after a request holds what it did, or what it held of the       *)
(* request's edition and then the request's batch.                         *)
Same(r, s) == s.edition = r.edition /\ s.log = r.log

Before(r, e) == IF r.edition = e THEN r.log ELSE <<>>

Adds(c, r, s, said) ==
    /\ c.kind = "append"
    /\ s.edition = c.edition
    /\ s.log = Before(r, c.edition) \o c.batch
    /\ said.status = "ok" /\ said.state.log = s.log

LEMMA ServedAdds ==
    ASSUME Inv, NEW c, RequestShape(c), NEW s \in Served(c), NEW r, r = row[c.epoch[1]]
    PROVE  Same(r, s[1]) \/ Adds(c, r, s[1], s[2])
<1>1. PICK a : a = c.epoch[1]
  OBVIOUS
<1>2. a \in Accounts /\ r = row[a] /\ RowShape(r)
  BY <1>1 DEF RequestShape, Inv, Rows
<1>3. s[1] = r => Same(r, s[1])
  BY DEF Same
<1>4. CASE c.epoch \in revoked
  BY <1>1, <1>2, <1>3, <1>4 DEF Served
<1>5. CASE c.epoch \notin revoked /\ c.kind = "read"
  <2>1. s \in ServedRead(c)
    BY <1>5 DEF Served
  <2> QED
    BY <1>1, <1>2, <1>3, <2>1 DEF ServedRead
<1>6. CASE c.epoch \notin revoked /\ c.kind = "giveUp"
  <2>1. s \in ServedGiveUp(c)
    BY <1>6 DEF Served
  <2>2. PICK given : given = [row[a] EXCEPT !.gaveUp = TRUE]
    OBVIOUS
  <2>3. Same(r, given)
    BY <1>2, <2>2 DEF RowShape, Same
  <2>4. s[1] \in {r, given}
    BY <1>1, <1>2, <2>1, <2>2 DEF ServedGiveUp
  <2> QED
    BY <1>3, <2>3, <2>4
<1>7. CASE c.epoch \notin revoked /\ c.kind = "append"
  <2>1. s \in ServedAppend(c)
    BY <1>7 DEF Served
  <2>2. PICK before, log, after, said :
              /\ log = before \o c.batch /\ before \in Logs /\ log \in Logs
              /\ Stored(a, c.edition) => before = row[a].log
              /\ ~Stored(a, c.edition) => before = <<>>
              /\ after = [edition |-> c.edition, log |-> log, solved |-> Solves(log), gaveUp |-> FALSE]
              /\ said = [status |-> "ok", stored |-> TRUE,
                         state |-> [log |-> log, solved |-> after.solved, gaveUp |-> FALSE]]
              /\ \/ \E status \in {"puzzle_changed", "forbidden"} : s = <<row[a], Verdict(status)>>
                 \/ \E status \in {"refused", "too_fast"} : s = <<row[a], Says(status, a, c.edition)>>
                 \/ /\ s = <<after, said>>
                    /\ c.edition = published /\ Len(log) <= Cap
                    /\ Stored(a, c.edition) => ~row[a].solved /\ ~row[a].gaveUp
    <3>1. published \in Nat
      BY DEF Inv, Rows, Editions
    <3>2. a \in Accounts /\ RowShape(row[a]) /\ c.kind = "append" /\ a = c.epoch[1]
      BY <1>1, <1>2, <1>7
    <3> QED
      BY <2>1, <3>1, <3>2, ServedAppendIs
  <2>3. log = Before(r, c.edition) \o c.batch
    BY <1>2, <2>2 DEF Before, Stored
  <2>4. after.edition = c.edition /\ after.log = log /\ said.status = "ok" /\ said.state.log = log
    BY <2>2
  <2>5. Adds(c, r, after, said)
    BY <1>7, <2>3, <2>4 DEF Adds
  <2>6. s[1] = r \/ (s[1] = after /\ s[2] = said)
    <3>1. \A v : s = <<row[a], v>> => s[1] = r
      BY <1>2
    <3>2. s = <<after, said>> => s[1] = after /\ s[2] = said
      OBVIOUS
    <3> QED
      BY <2>2, <3>1, <3>2, Zenon
  <2> QED
    BY <1>3, <2>5, <2>6
<1> QED
  BY <1>4, <1>5, <1>6, <1>7 DEF RequestShape

(* A book in which n places of account a's row stay, and a batch of tab t  *)
(* follows them.                                                           *)
Rebooked(ck, bk, a, n, t, d, e, batch) ==
    /\ DOMAIN ck = Accounts
    /\ \A b \in Accounts : b # a => ck[b] = bk[b]
    /\ DOMAIN ck[a] = 1..n + Len(batch)
    /\ \A i \in 1..n : ck[a][i] = bk[a][i] /\ i \in DOMAIN bk[a]
    /\ \A j \in 1..Len(batch) : ck[a][n + j] = Entry(t, a, d, e, batch[j])

LEMMA Rebook ==
    ASSUME NEW bk, NEW a \in Accounts, NEW n \in Nat, \A i \in 1..n : i \in DOMAIN bk[a],
           NEW t, NEW d, NEW e, NEW batch \in Logs
    PROVE  \E ck : Rebooked(ck, bk, a, n, t, d, e, batch)
<1>1. Len(batch) \in Nat
  BY DEF Logs
<1>2. PICK pages : pages = [i \in 1..n + Len(batch) |->
                              IF i <= n THEN bk[a][i] ELSE Entry(t, a, d, e, batch[i - n])]
  OBVIOUS
<1>3. PICK ck : ck = [b \in Accounts |-> IF b = a THEN pages ELSE bk[b]]
  OBVIOUS
<1>4. ck[a] = pages /\ DOMAIN ck = Accounts /\ \A b \in Accounts : b # a => ck[b] = bk[b]
  BY <1>3
<1>5. DOMAIN pages = 1..n + Len(batch) /\ \A i \in 1..n : pages[i] = bk[a][i]
  BY <1>1, <1>2
<1>6. ASSUME NEW j \in 1..Len(batch)
      PROVE  pages[n + j] = Entry(t, a, d, e, batch[j])
  <2>1. n + j \in 1..n + Len(batch) /\ ~(n + j <= n) /\ (n + j) - n = j
    BY <1>1
  <2> QED
    BY <1>2, <2>1
<1> QED
  BY <1>4, <1>5, <1>6 DEF Rebooked

(* Only of that identity more is spent: what the batch holds.              *)
LEMMA RebookedSpent ==
    ASSUME NEW ck, NEW bk, NEW a \in Accounts, NEW n \in Nat, NEW t, NEW d, NEW e, NEW batch \in Logs,
           Rebooked(ck, bk, a, n, t, d, e, batch), NEW u, NEW b \in Accounts, NEW k, NEW f
    PROVE  /\ Spent(ck, u, b, k, f) \subseteq Spent(bk, u, b, k, f) \cup Identities(batch)
           /\ u # t \/ b # a \/ k # d \/ f # e => Spent(ck, u, b, k, f) \subseteq Spent(bk, u, b, k, f)
<1>1. Len(batch) \in Nat /\ DOMAIN batch = 1..Len(batch)
  BY DEF Logs
<1>2. CASE b # a
  BY <1>2 DEF Rebooked, Spent
<1>3. CASE b = a
  <2> SUFFICES ASSUME NEW i \in DOMAIN ck[a], ck[a][i].tab = u, ck[a][i].device = k, ck[a][i].edition = f
               PROVE  \/ Key[ck[a][i].guess] \in Spent(bk, u, a, k, f)
                      \/ Key[ck[a][i].guess] \in Identities(batch) /\ u = t /\ k = d /\ f = e
    BY <1>3 DEF Spent
  <2>1. CASE i \in 1..n
    <3>1. ck[a][i] = bk[a][i] /\ i \in DOMAIN bk[a]
      BY <2>1 DEF Rebooked
    <3> QED
      BY <3>1 DEF Spent
  <2>2. CASE i \notin 1..n
    <3>1. PICK j \in 1..Len(batch) : i = n + j
      <4>1. i \in 1..n + Len(batch)
        BY DEF Rebooked
      <4>2. i - n \in 1..Len(batch) /\ i = n + (i - n)
        BY <1>1, <2>2, <4>1
      <4> QED
        BY <4>2
    <3>2. ck[a][i] = Entry(t, a, d, e, batch[j])
      BY <3>1 DEF Rebooked
    <3>3. Key[batch[j]] \in Identities(batch)
      BY <1>1 DEF Identities
    <3> QED
      BY <3>2, <3>3 DEF Entry
  <2> QED
    BY <2>1, <2>2
<1> QED
  BY <1>2, <1>3

(* The book of the rows in which account a's has become s, of edition e,   *)
(* by a batch that was typed for edition p.                                *)
LEMMA RebookedBooks ==
    ASSUME Inv, NEW bk, NEW ty, Books(row, bk, ty), NEW a \in Accounts, NEW t, NEW d,
           NEW p, NEW e, p <= e, NEW batch \in Logs,
           Distinct(batch), WasTyped(batch, t, a, d, p, ty),
           Identities(batch) \cap Spent(bk, t, a, d, p) = {},
           NEW s, s.edition = e, s.log = Before(row[a], e) \o batch,
           NEW rw, rw = [row EXCEPT ![a] = s],
           NEW n, n = Len(Before(row[a], e)),
           NEW ck, Rebooked(ck, bk, a, n, t, d, p, batch)
    PROVE  Books(rw, ck, ty)
<1>1. PICK before : before = Before(row[a], e)
  OBVIOUS
<1>2. /\ before \in Logs /\ Len(batch) \in Nat /\ n \in Nat /\ n = Len(before) /\ DOMAIN batch = 1..Len(batch)
      /\ n > 0 => row[a].edition = e /\ before = row[a].log
  <2>1. row[a].log \in Logs /\ <<>> \in Logs /\ Len(<<>>) = 0
    BY DEF Inv, Rows, RowShape, Logs
  <2> QED
    BY <1>1, <2>1 DEF Before, Logs
<1>3. /\ DOMAIN s.log = 1..n + Len(batch)
      /\ \A i \in 1..n : s.log[i] = before[i]
      /\ \A j \in 1..Len(batch) : s.log[n + j] = batch[j]
  BY <1>1, <1>2 DEF Logs
<1>4. rw[a] = s /\ \A b \in Accounts : b # a => rw[b] = row[b]
  BY DEF Inv, Rows
<1>5. ASSUME NEW i \in 1..n + Len(batch), i \notin 1..n
      PROVE  \E j \in 1..Len(batch) : /\ i = n + j
                                      /\ ck[a][i] = Entry(t, a, d, p, batch[j]) /\ s.log[i] = batch[j]
                                      /\ ck[a][i].guess = batch[j] /\ ck[a][i].tab = t
                                      /\ ck[a][i].device = d /\ ck[a][i].edition = p /\ ck[a][i].who = a
  <2>1. PICK j \in 1..Len(batch) : i = n + j
    <3>1. i - n \in 1..Len(batch) /\ i = n + (i - n)
      BY <1>2, <1>5
    <3> QED
      BY <3>1
  <2>2. ck[a][i] = Entry(t, a, d, p, batch[j]) /\ s.log[i] = batch[j]
    BY <1>3, <2>1 DEF Rebooked
  <2>3. /\ ck[a][i].guess = batch[j] /\ ck[a][i].tab = t
        /\ ck[a][i].device = d /\ ck[a][i].edition = p /\ ck[a][i].who = a
    BY <2>2 DEF Entry
  <2> QED
    BY <2>1, <2>2, <2>3
<1>6. ASSUME NEW i \in 1..n
      PROVE  ck[a][i] = bk[a][i] /\ i \in DOMAIN bk[a] /\ s.log[i] = row[a].log[i] /\ row[a].edition = e
  BY <1>2, <1>3 DEF Rebooked
<1>7. ASSUME NEW i \in 1..n + Len(batch)
      PROVE  ck[a][i] \in ty /\ ck[a][i].who = a /\ ck[a][i].edition <= e /\ ck[a][i].guess = s.log[i]
  <2>1. CASE i \in 1..n
    <3>1. /\ ck[a][i] = bk[a][i] /\ i \in DOMAIN bk[a]
          /\ s.log[i] = row[a].log[i] /\ row[a].edition = e
      BY <1>6, <2>1
    <3>2. /\ bk[a][i] \in ty /\ bk[a][i].who = a
          /\ bk[a][i].edition <= row[a].edition /\ bk[a][i].guess = row[a].log[i]
      BY <3>1 DEF Books
    <3> QED
      BY <3>1, <3>2
  <2>2. CASE i \notin 1..n
    <3>1. PICK j \in 1..Len(batch) : /\ ck[a][i] = Entry(t, a, d, p, batch[j]) /\ s.log[i] = batch[j]
                                     /\ ck[a][i].guess = batch[j] /\ ck[a][i].edition = p /\ ck[a][i].who = a
      BY <1>5, <2>2
    <3>2. Entry(t, a, d, p, batch[j]) \in ty
      BY <1>2 DEF WasTyped
    <3> QED
      BY <3>1, <3>2
  <2> QED
    BY <2>1, <2>2
<1>8. ASSUME NEW i \in 1..n, NEW k \in 1..n + Len(batch), k \notin 1..n
      PROVE  ck[a][i] # ck[a][k]
  <2> SUFFICES ASSUME ck[a][i] = ck[a][k]
               PROVE  FALSE
    OBVIOUS
  <2>1. PICK j \in 1..Len(batch) : /\ ck[a][k].guess = batch[j] /\ ck[a][k].tab = t
                                   /\ ck[a][k].device = d /\ ck[a][k].edition = p
    BY <1>5, <1>8
  <2>2. /\ i \in DOMAIN bk[a] /\ bk[a][i].guess = batch[j] /\ bk[a][i].tab = t
        /\ bk[a][i].device = d /\ bk[a][i].edition = p
    BY <1>6, <2>1
  <2>3. Key[batch[j]] \in Spent(bk, t, a, d, p)
    BY <2>2 DEF Spent
  <2>4. Key[batch[j]] \in Identities(batch)
    BY <1>2 DEF Identities
  <2> QED
    BY <2>3, <2>4
<1>9. ASSUME NEW i \in 1..n + Len(batch), NEW k \in 1..n + Len(batch), ck[a][i] = ck[a][k]
      PROVE  i = k
  <2>1. CASE i \in 1..n /\ k \in 1..n
    BY <1>6, <1>9, <2>1 DEF Books
  <2>2. CASE i \notin 1..n /\ k \notin 1..n
    <3>1. PICK j \in 1..Len(batch) : i = n + j /\ ck[a][i].guess = batch[j]
      BY <1>5, <2>2
    <3>2. PICK l \in 1..Len(batch) : k = n + l /\ ck[a][k].guess = batch[l]
      BY <1>5, <2>2
    <3>3. j = l
      BY <1>2, <1>9, <3>1, <3>2 DEF Distinct
    <3> QED
      BY <3>1, <3>2, <3>3
  <2>3. CASE i \in 1..n /\ k \notin 1..n
    BY <1>8, <1>9, <2>3
  <2>4. CASE i \notin 1..n /\ k \in 1..n
    BY <1>8, <1>9, <2>4
  <2> QED
    BY <2>1, <2>2, <2>3, <2>4
<1>10. DOMAIN ck = Accounts /\ DOMAIN ck[a] = 1..n + Len(batch)
  BY DEF Rebooked
<1>11. ASSUME NEW b \in Accounts, b # a
       PROVE  ck[b] = bk[b] /\ rw[b] = row[b]
  BY <1>4, <1>11 DEF Rebooked
<1>12. ASSUME NEW b \in Accounts
       PROVE  /\ DOMAIN ck[b] = DOMAIN rw[b].log
              /\ \A i \in DOMAIN ck[b] :
                  /\ ck[b][i] \in ty
                  /\ ck[b][i].who = b /\ ck[b][i].edition <= rw[b].edition /\ ck[b][i].guess = rw[b].log[i]
              /\ \A i, j \in DOMAIN ck[b] : ck[b][i] = ck[b][j] => i = j
  <2>1. CASE b = a
    <3>1. DOMAIN ck[a] = 1..n + Len(batch) /\ DOMAIN ck[a] = DOMAIN rw[a].log
      BY <1>3, <1>4, <1>10
    <3>2. ASSUME NEW i \in DOMAIN ck[a]
          PROVE  /\ ck[a][i] \in ty
                 /\ ck[a][i].who = a /\ ck[a][i].edition <= rw[a].edition /\ ck[a][i].guess = rw[a].log[i]
      <4>1. i \in 1..n + Len(batch)
        BY <3>1, <3>2
      <4>2. ck[a][i] \in ty /\ ck[a][i].who = a /\ ck[a][i].edition <= e /\ ck[a][i].guess = s.log[i]
        BY <1>7, <4>1
      <4> QED
        BY <1>4, <4>2
    <3>3. \A i, j \in DOMAIN ck[a] : ck[a][i] = ck[a][j] => i = j
      <4> SUFFICES ASSUME NEW i \in DOMAIN ck[a], NEW j \in DOMAIN ck[a], ck[a][i] = ck[a][j]
                   PROVE  i = j
        OBVIOUS
      <4>1. i \in 1..n + Len(batch) /\ j \in 1..n + Len(batch)
        BY <3>1
      <4> QED
        BY <1>9, <4>1
    <3> QED
      BY <2>1, <3>1, <3>2, <3>3
  <2>2. CASE b # a
    BY <1>11, <2>2 DEF Books
  <2> QED
    BY <2>1, <2>2
<1> QED
  BY <1>10, <1>12 DEF Books

(* What a request of tab t that makes row r into s writes into the book.   *)
Writes(ck, bk, c, t, r, s, said) ==
    \/ Same(r, s) /\ ck = bk
    \/ /\ Adds(c, r, s, said)
       /\ \E n \in Nat : /\ n > 0 => r.edition = c.edition
                         /\ Rebooked(ck, bk, c.epoch[1], n, t, c.epoch[2], c.puzzle, c.batch)

LEMMA WritesSpent ==
    ASSUME NEW c, RequestShape(c), NEW ck, NEW bk, NEW t, NEW r, NEW s, NEW said,
           Writes(ck, bk, c, t, r, s, said), NEW u, NEW b \in Accounts, NEW k, NEW f
    PROVE  /\ Spent(ck, u, b, k, f) \subseteq Spent(bk, u, b, k, f) \cup Identities(c.batch)
           /\ u # t \/ b # c.epoch[1] \/ k # c.epoch[2] \/ f # c.puzzle \/ ~Adds(c, r, s, said) =>
                Spent(ck, u, b, k, f) \subseteq Spent(bk, u, b, k, f)
<1>1. CASE ck = bk
  BY <1>1
<1>2. CASE ck # bk
  <2>1. PICK n \in Nat : Rebooked(ck, bk, c.epoch[1], n, t, c.epoch[2], c.puzzle, c.batch)
    BY <1>2 DEF Writes
  <2>2. Adds(c, r, s, said)
    BY <1>2 DEF Writes
  <2>3. c.epoch[1] \in Accounts /\ c.batch \in Logs
    BY DEF RequestShape
  <2> QED
    BY <2>1, <2>2, <2>3, RebookedSpent
<1> QED
  BY <1>1, <1>2

LEMMA OtherSpent ==
    ASSUME NEW c, RequestShape(c), NEW ck, NEW bk, NEW t, NEW r, NEW s, NEW said,
           Writes(ck, bk, c, t, r, s, said), NEW u, NEW b \in Accounts, NEW k, NEW f,
           u # t \/ b # c.epoch[1] \/ k # c.epoch[2] \/ f # c.puzzle \/ ~Adds(c, r, s, said)
    PROVE  Spent(ck, u, b, k, f) \subseteq Spent(bk, u, b, k, f)
BY WritesSpent

(* The book after a request that is fair.                                  *)
LEMMA ServedBooks ==
    ASSUME Inv, NEW bk, NEW ty, Books(row, bk, ty), NEW t, NEW c, RequestShape(c), c.at = "sent",
           Fair(c, t, bk, ty), NEW s \in Served(c), NEW rw, rw = [row EXCEPT ![c.epoch[1]] = s[1]]
    PROVE  \E ck : Books(rw, ck, ty) /\ Writes(ck, bk, c, t, row[c.epoch[1]], s[1], s[2])
<1>1. PICK a, r, q, said : a = c.epoch[1] /\ r = row[c.epoch[1]] /\ q = s[1] /\ said = s[2]
  OBVIOUS
<1>2. /\ a \in Accounts /\ r = row[a] /\ rw = [row EXCEPT ![a] = q]
      /\ DOMAIN row = Accounts /\ r.log \in Logs
  BY <1>1 DEF RequestShape, Inv, Rows, RowShape
<1>3. rw[a] = q /\ \A b \in Accounts : b # a => rw[b] = row[b]
  BY <1>2
<1>4. CASE Same(r, q)
  <2>1. Books(rw, bk, ty)
    <3>1. ASSUME NEW b \in Accounts
          PROVE  rw[b].log = row[b].log /\ rw[b].edition = row[b].edition
      BY <1>1, <1>3, <1>4 DEF Same
    <3>2. ASSUME NEW b \in Accounts
          PROVE  /\ DOMAIN bk[b] = DOMAIN rw[b].log
                 /\ \A i \in DOMAIN bk[b] :
                     /\ bk[b][i] \in ty
                     /\ bk[b][i].who = b /\ bk[b][i].edition <= rw[b].edition /\ bk[b][i].guess = rw[b].log[i]
                 /\ \A i, j \in DOMAIN bk[b] : bk[b][i] = bk[b][j] => i = j
      BY <3>1 DEF Books
    <3> QED
      BY <3>2 DEF Books
  <2>2. Writes(bk, bk, c, t, r, q, said)
    BY <1>4 DEF Writes
  <2> QED
    BY <1>1, <2>1, <2>2
<1>5. CASE Adds(c, r, q, said)
  <2>1. PICK d, p, e, batch : d = c.epoch[2] /\ p = c.puzzle /\ e = c.edition /\ batch = c.batch
    OBVIOUS
  <2>2. /\ batch \in Logs /\ Distinct(batch) /\ WasTyped(batch, t, a, d, p, ty)
        /\ Identities(batch) \cap Spent(bk, t, a, d, p) = {} /\ p <= e
    BY <1>1, <1>5, <2>1 DEF Fair, Adds, RequestShape
  <2>3. q.edition = e /\ q.log = Before(row[a], e) \o batch
    BY <1>1, <1>5, <2>1 DEF Adds
  <2>4. PICK n \in Nat : /\ n = Len(Before(row[a], e)) /\ \A i \in 1..n : i \in DOMAIN bk[a]
                         /\ n > 0 => row[a].edition = e
    <3>1. CASE row[a].edition = e
      <4>1. Before(row[a], e) = row[a].log /\ DOMAIN row[a].log = 1..Len(row[a].log) /\ Len(row[a].log) \in Nat
        BY <1>1, <1>2, <3>1 DEF Before, Logs
      <4>2. DOMAIN bk[a] = DOMAIN row[a].log
        BY <1>2 DEF Books
      <4>3. \A i \in 1..Len(Before(row[a], e)) : i \in DOMAIN bk[a]
        BY <4>1, <4>2
      <4> QED
        BY <3>1, <4>1, <4>3
    <3>2. CASE row[a].edition # e
      <4>1. Len(Before(row[a], e)) = 0
        BY <3>2 DEF Before
      <4> QED
        BY <4>1
    <3> QED
      BY <3>1, <3>2
  <2>5. PICK ck : Rebooked(ck, bk, a, n, t, d, p, batch)
    BY <1>2, <2>2, <2>4, Rebook
  <2>6. Books(rw, ck, ty)
    BY <1>2, <2>2, <2>3, <2>4, <2>5, RebookedBooks
  <2>7. Writes(ck, bk, c, t, r, q, said)
    BY <1>1, <1>2, <1>5, <2>1, <2>4, <2>5 DEF Writes
  <2> QED
    BY <1>1, <2>6, <2>7
<1> QED
  BY <1>1, <1>4, <1>5, ServedAdds

NotAfter(e, page) == e \in Nat /\ page \in Nat /\ e <= page

(* A request rewrote the row of its account and the book.                  *)
Rewrote(c, ck, bk, t, rw, said) ==
    /\ RequestShape(c)
    /\ Writes(ck, bk, c, t, row[c.epoch[1]], rw[c.epoch[1]], said)
    /\ \A b \in Accounts : b # c.epoch[1] => rw[b] = row[b]

(* What is stored stays in the past of its tab.                            *)
LEMMA ServedPast ==
    ASSUME NEW c, NEW ck, NEW bk, NEW t, NEW rw, NEW said, Rewrote(c, ck, bk, t, rw, said),
           NEW u, NEW page, Past(row, bk, u, page), u = t => NotAfter(c.edition, page)
    PROVE  Past(rw, ck, u, page)
<1>1. PICK a, s : a = c.epoch[1] /\ s = rw[a] /\ Writes(ck, bk, c, t, row[a], s, said)
  BY DEF Rewrote
<1>2. /\ a \in Accounts /\ c.batch \in Logs /\ c.puzzle \in Nat /\ c.edition \in Nat
      /\ c.puzzle <= c.edition
  BY <1>1 DEF Rewrote, RequestShape, Editions
<1>3. rw[a] = s /\ \A b \in Accounts : b # a => rw[b] = row[b]
  BY <1>1 DEF Rewrote
<1>4. CASE Same(row[a], s) /\ ck = bk
  <2>1. ASSUME NEW b \in Accounts
        PROVE  rw[b].edition = row[b].edition
    BY <1>3, <1>4 DEF Same
  <2> QED
    BY <1>4, <2>1 DEF Past
<1>5. CASE ~(Same(row[a], s) /\ ck = bk)
  <2>1. PICK n \in Nat : /\ n > 0 => row[a].edition = c.edition
                         /\ Rebooked(ck, bk, a, n, t, c.epoch[2], c.puzzle, c.batch)
    BY <1>1, <1>5 DEF Writes
  <2>2. s.edition = c.edition
    BY <1>1, <1>5 DEF Adds, Writes
  <2> SUFFICES ASSUME NEW b \in Accounts, NEW i \in DOMAIN ck[b], ck[b][i].tab = u
               PROVE  ck[b][i].edition = rw[b].edition \/ ck[b][i].edition < page
    BY DEF Past
  <2>3. CASE b # a
    <3>1. ck[b] = bk[b] /\ rw[b] = row[b]
      BY <1>3, <2>1, <2>3 DEF Rebooked
    <3> QED
      BY <3>1 DEF Past
  <2>4. CASE b = a /\ i \in 1..n
    <3>1. ck[a][i] = bk[a][i] /\ i \in DOMAIN bk[a] /\ n > 0
      BY <2>1, <2>4 DEF Rebooked
    <3> QED
      BY <1>2, <1>3, <2>1, <2>2, <2>4, <3>1 DEF Past
  <2>5. CASE b = a /\ i \notin 1..n
    <3>1. PICK j \in 1..Len(c.batch) : i = n + j
      <4>1. i \in 1..n + Len(c.batch) /\ Len(c.batch) \in Nat
        BY <1>2, <2>1, <2>5 DEF Rebooked, Logs
      <4>2. i - n \in 1..Len(c.batch) /\ i = n + (i - n)
        BY <2>5, <4>1
      <4> QED
        BY <4>2
    <3>2. ck[a][i] = Entry(t, a, c.epoch[2], c.puzzle, c.batch[j])
      BY <2>1, <3>1 DEF Rebooked
    <3>3. ck[b][i].tab = t /\ ck[b][i].edition = c.puzzle
      BY <2>5, <3>2 DEF Entry
    <3> QED
      BY <1>2, <1>3, <2>2, <2>5, <3>3 DEF NotAfter
  <2> QED
    BY <2>3, <2>4, <2>5
<1> QED
  BY <1>4, <1>5

(* A tab whose requests are not the one that was served.                   *)
LEMMA OthersBound ==
    ASSUME NEW c, RequestShape(c), NEW ck, NEW bk, NEW t, NEW r, NEW s, NEW said,
           Writes(ck, bk, c, t, r, s, said),
           NEW x, TabShape(x), x.call.at = "answered" => x.who # None, NEW u, NEW ty, Bound(x, u, bk, ty),
           u # t \/ (/\ c.epoch[2] # x.device
                     /\ x.stray.at \notin {"token", "sent"})
    PROVE  Bound(x, u, ck, ty)
<1>1. x.who # None =>
        Spent(ck, u, x.who, x.device, x.page) \subseteq Spent(bk, u, x.who, x.device, x.page)
  <2>1. x.who # None => x.who \in Accounts
    BY DEF TabShape
  <2> QED
    BY <2>1, OtherSpent
<1>2. x.call.at # "none" =>
        Spent(ck, u, x.call.epoch[1], x.call.epoch[2], x.call.puzzle) \subseteq
          Spent(bk, u, x.call.epoch[1], x.call.epoch[2], x.call.puzzle)
  <2> SUFFICES ASSUME x.call.at # "none"
               PROVE  Spent(ck, u, x.call.epoch[1], x.call.epoch[2], x.call.puzzle) \subseteq
                        Spent(bk, u, x.call.epoch[1], x.call.epoch[2], x.call.puzzle)
    OBVIOUS
  <2>1. PICK b, k, f : b = x.call.epoch[1] /\ k = x.call.epoch[2] /\ f = x.call.puzzle
    OBVIOUS
  <2>2. b \in Accounts
    BY <2>1 DEF TabShape, CallShape, RequestShape
  <2>3. k = x.device
    BY <2>1 DEF Bound, Asks
  <2>4. Spent(ck, u, b, k, f) \subseteq Spent(bk, u, b, k, f)
    BY <2>2, <2>3, OtherSpent
  <2> QED
    BY <2>1, <2>4
<1>3. x.stray.at \in {"token", "sent"} =>
        Spent(ck, u, x.stray.epoch[1], x.stray.epoch[2], x.stray.puzzle) \subseteq
          Spent(bk, u, x.stray.epoch[1], x.stray.epoch[2], x.stray.puzzle)
  <2> SUFFICES ASSUME x.stray.at \in {"token", "sent"}
               PROVE  Spent(ck, u, x.stray.epoch[1], x.stray.epoch[2], x.stray.puzzle) \subseteq
                        Spent(bk, u, x.stray.epoch[1], x.stray.epoch[2], x.stray.puzzle)
    OBVIOUS
  <2>1. PICK b, k, f : b = x.stray.epoch[1] /\ k = x.stray.epoch[2] /\ f = x.stray.puzzle
    OBVIOUS
  <2>2. b \in Accounts
    BY <2>1 DEF TabShape, CallShape, RequestShape
  <2>3. Spent(ck, u, b, k, f) \subseteq Spent(bk, u, b, k, f)
    BY <2>2, OtherSpent
  <2> QED
    BY <2>1, <2>3
<1> QED
  BY <1>1, <1>2, <1>3, LessSpent

(* The tab whose request was served hears of all that is stored of its own *)
(* typing; it knows no more that what it owes is not stored.               *)
LEMMA ServedBound ==
    ASSUME Inv, NEW t \in Tabs, NEW x, x = tab[t], NEW c, c = x.call, c.at = "sent",
           NEW bk, NEW ty, Bound(x, t, bk, ty), NEW s \in Served(c),
           NEW rw, rw = [row EXCEPT ![c.epoch[1]] = s[1]],
           NEW ck, Books(rw, ck, ty), Past(rw, ck, t, x.page), Writes(ck, bk, c, t, row[c.epoch[1]], s[1], s[2]),
           NEW m, m.page = x.page, m.who = x.who, m.device = x.device, m.box = x.box, m.stray = x.stray,
           m.flight = x.flight, m.call.at = "answered", m.call.answer = s[2], m.call.kind = c.kind,
           m.call.puzzle = c.puzzle, m.call.epoch = c.epoch
    PROVE  Bound(m, t, ck, ty)
<1>1. PICK a, r, q, said : a = c.epoch[1] /\ r = row[c.epoch[1]] /\ q = s[1] /\ said = s[2]
  OBVIOUS
<1>2. Sane(x) /\ TabShape(x)
  BY TabSane
<1>3. RequestShape(c)
  BY <1>2 DEF TabShape, CallShape
<1>4. a \in Accounts /\ RowShape(q) /\ Truly(c, r, q, said) /\ (Same(r, q) \/ Adds(c, r, q, said))
  BY <1>1, <1>3, ServedFacts, ServedAdds
<1>5. c.epoch = <<x.who, x.device>> /\ x.who = a /\ c.epoch[2] = x.device
  <2>1. c.epoch = <<x.who, x.device>>
    BY DEF Bound, Asks
  <2> QED
    BY <1>1, <2>1
<1>6. rw[a] = q
  BY <1>1, <1>4 DEF Inv, Rows
<1>7. r.log \in Logs /\ q.log \in Logs /\ r = row[a]
  BY <1>1, <1>4 DEF Inv, Rows, RowShape
<1>8. PICK S : S = Spent(bk, t, a, x.device, x.page)
  OBVIOUS
<1>9. PICK K : K = Spent(ck, t, a, x.device, x.page)
  OBVIOUS
<1>10. K \subseteq S \cup Identities(c.batch) /\ (c.puzzle # x.page \/ ~Adds(c, r, q, said) => K \subseteq S)
  <2>1. Writes(ck, bk, c, t, r, q, said)
    BY <1>1
  <2>2. PICK d, e : d = x.device /\ e = x.page
    OBVIOUS
  <2>3. Spent(ck, t, a, d, e) \subseteq Spent(bk, t, a, d, e) \cup Identities(c.batch)
    BY <1>3, <1>4, <2>1, WritesSpent
  <2>4. CASE c.puzzle # e \/ ~Adds(c, r, q, said)
    <3>1. Spent(ck, t, a, d, e) \subseteq Spent(bk, t, a, d, e)
      BY <1>3, <1>4, <2>1, <2>4, OtherSpent
    <3> QED
      BY <1>8, <1>9, <2>2, <2>3, <3>1
  <2>5. CASE c.puzzle = e /\ Adds(c, r, q, said)
    BY <1>8, <1>9, <2>2, <2>3, <2>5
  <2> QED
    BY <2>4, <2>5
<1>11. K \subseteq Identities(q.log) /\ (q.edition # x.page => K = {})
  <2>1. PICK d, e : d = x.device /\ e = x.page
    OBVIOUS
  <2>2. Spent(ck, t, a, d, e) \subseteq Identities(rw[a].log)
    BY <1>4, SpentHeld
  <2>3. e \in Nat /\ Past(rw, ck, t, e)
    BY <1>2, <2>1 DEF TabShape, Editions
  <2>4. rw[a].edition # e => Spent(ck, t, a, d, e) = {}
    BY <1>4, <2>3, SpentPast
  <2> QED
    BY <1>6, <1>9, <2>1, <2>2, <2>4
<1>12. Tidy(m, t, ty)
  BY DEF Bound, Tidy
<1>13. c.puzzle = x.page =>
         /\ said.status \in Shown3 => K \subseteq Identities(said.state.log)
         /\ said.status = "not_found" => K = {}
  <2> SUFFICES ASSUME c.edition = x.page
               PROVE  /\ said.status \in Shown3 => K \subseteq Identities(said.state.log)
                      /\ said.status = "not_found" => K = {}
    BY <1>2, NamesNothingOlder
  <2>1. CASE Adds(c, r, q, said)
    BY <1>11, <2>1 DEF Adds
  <2>2. CASE Same(r, q) /\ q.edition # x.page
    BY <1>11, <2>2
  <2>3. CASE Same(r, q) /\ q.edition = x.page
    <3>1. r.edition = c.edition /\ r.log = q.log
      BY <2>3 DEF Same
    <3>2. said.status # "not_found"
      BY <1>4, <3>1 DEF Truly
    <3>3. ASSUME said.status \in Shown3
          PROVE  K \subseteq Identities(said.state.log)
      <4>1. IsPrefix(r.log, said.state.log) /\ said.state.log \in Logs
        BY <1>4, <3>1, <3>3 DEF Truly, Fits, Snapshots
      <4>2. Identities(r.log) \subseteq Identities(said.state.log)
        BY <1>7, <4>1, PrefixFacts
      <4> QED
        BY <1>11, <3>1, <4>2
    <3> QED
      BY <3>2, <3>3
  <2> QED
    BY <1>4, <2>1, <2>2, <2>3
<1>14. Asks(m, t, ck, ty)
  <2>1. Hears(m, t, ck)
    BY <1>1, <1>5, <1>9, <1>13 DEF Hears
  <2> QED
    BY <1>5, <2>1 DEF Asks, Fair, OwnAppend
<1>15. Fair(m.stray, t, ck, ty)
  <2> SUFFICES ASSUME x.stray.at \in {"token", "sent"}
               PROVE  Fair(x.stray, t, ck, ty)
    BY DEF Fair
  <2>1. PICK b, k, f : b = x.stray.epoch[1] /\ k = x.stray.epoch[2] /\ f = x.stray.puzzle
    OBVIOUS
  <2>2. b \in Accounts /\ k \in Nat /\ k < x.device /\ x.device \in Nat
    BY <1>2, <2>1 DEF TabShape, CallShape, RequestShape, Sane, Strays
  <2>3. k # c.epoch[2]
    BY <1>5, <2>2
  <2>4. Spent(ck, t, b, k, f) \subseteq Spent(bk, t, b, k, f)
    BY <1>1, <1>3, <2>2, <2>3, OtherSpent
  <2> QED
    BY <2>1, <2>4 DEF Bound, Fair
<1>16. Knows(m) => Owed(m.box, m.page) \cap K = {}
  <2> SUFFICES ASSUME Knows(m)
               PROVE  Owed(x.box, x.page) \cap K = {}
    OBVIOUS
  <2>1. Knows(x)
    BY DEF Knows, OwnAppend
  <2>2. c.puzzle # x.page \/ ~Adds(c, r, q, said)
    BY <1>1 DEF Knows, OwnAppend, Adds
  <2>3. Owed(x.box, x.page) \cap S = {}
    BY <1>5, <1>8, <2>1 DEF Bound, Square
  <2> QED
    BY <1>10, <2>2, <2>3
<1>17. m.flight.open /\ m.who # None /\ m.flight.settled /\ ~Over(m.flight.server) =>
         K \subseteq Identities(m.flight.server.log) \cup Owed(m.box, m.page)
  <2> SUFFICES ASSUME x.flight.open, x.who # None, x.flight.settled, ~Over(x.flight.server)
               PROVE  K \subseteq Identities(x.flight.server.log) \cup Owed(x.box, x.page)
    OBVIOUS
  <2>1. S \subseteq Identities(x.flight.server.log) \cup Owed(x.box, x.page)
    BY <1>5, <1>8 DEF Bound, Square
  <2>2. CASE c.puzzle # x.page \/ ~Adds(c, r, q, said)
    BY <1>10, <2>1, <2>2
  <2>3. CASE c.puzzle = x.page /\ Adds(c, r, q, said)
    <3>1. Identities(c.batch) \subseteq Owed(x.box, x.page)
      BY <2>3 DEF Bound, Asks, OwnAppend, Adds
    <3> QED
      BY <1>10, <2>1, <3>1
  <2> QED
    BY <2>2, <2>3
<1>18. Square(m, t, ck)
  BY <1>5, <1>9, <1>16, <1>17 DEF Square
<1> QED
  BY <1>12, <1>14, <1>15, <1>18 DEF Bound

-----------------------------------------------------------------------------
(* Every step where no request is delayed and no device changes.           *)

(* What a tab says of the book, and the book of its tab.                   *)
Traced(x, t, rw, bk, ty) == Bound(x, t, bk, ty) /\ Past(rw, bk, t, x.page)

Booked == \E bk : Books(row, bk, typed) /\ \A t \in Tabs : Traced(tab[t], t, row, bk, typed)

LEMMA ServeBooked ==
    ASSUME Inv, NEW bk, Books(row, bk, typed), \A u \in Tabs : Traced(tab[u], u, row, bk, typed),
           NEW t \in Tabs, Serve(t)
    PROVE  \E ck : Books(row', ck, typed) /\ \A u \in Tabs : Traced(tab'[u], u, row', ck, typed)
<1>1. PICK x : x = tab[t]
  OBVIOUS
<1>2. PICK c : c = x.call
  OBVIOUS
<1>3. Sane(x) /\ TabShape(x) /\ c.at = "sent"
  BY <1>1, <1>2, TabSane DEF Serve
<1>4. RequestShape(c)
  BY <1>2, <1>3 DEF TabShape, CallShape
<1>5. PICK s \in Served(c) :
        /\ row' = [row EXCEPT ![c.epoch[1]] = s[1]]
        /\ tab' = [tab EXCEPT ![t] = [x EXCEPT !.call.at = "answered", !.call.answer = s[2]]]
  <2>1. PICK s \in Served(tab[t].call) :
        /\ row' = [row EXCEPT ![tab[t].call.epoch[1]] = s[1]]
        /\ Put(t, [tab[t] EXCEPT !.call.at = "answered", !.call.answer = s[2]])
    BY Zenon DEF Serve
  <2>2. tab' = [tab EXCEPT ![t] = [x EXCEPT !.call.at = "answered", !.call.answer = s[2]]]
    BY <1>1, <2>1 DEF Put
  <2>3. s \in Served(c) /\ row' = [row EXCEPT ![c.epoch[1]] = s[1]]
    BY <1>1, <1>2, <2>1
  <2> QED
    BY <2>2, <2>3, Zenon
<1>6. PICK m : m = [x EXCEPT !.call.at = "answered", !.call.answer = s[2]]
  OBVIOUS
<1>7. /\ m.page = x.page /\ m.who = x.who /\ m.device = x.device /\ m.box = x.box /\ m.stray = x.stray
      /\ m.flight = x.flight /\ m.call.at = "answered" /\ m.call.answer = s[2] /\ m.call.kind = c.kind
      /\ m.call.puzzle = c.puzzle /\ m.call.epoch = c.epoch
  BY <1>2, <1>3, <1>4, <1>6 DEF TabShape, RequestShape
<1>8. tab'[t] = m /\ \A u \in Tabs : u # t => tab'[u] = tab[u]
  BY <1>5, <1>6 DEF Inv
<1>9. Fair(c, t, bk, typed) /\ Bound(x, t, bk, typed)
  BY <1>1, <1>2 DEF Traced, Bound, Asks
<1>10. PICK rw : rw = row'
  OBVIOUS
<1>11. rw = [row EXCEPT ![c.epoch[1]] = s[1]]
  BY <1>5, <1>10
<1>12. PICK ck : Books(rw, ck, typed) /\ Writes(ck, bk, c, t, row[c.epoch[1]], s[1], s[2])
  BY <1>3, <1>4, <1>9, <1>11, ServedBooks
<1>13. ASSUME NEW u \in Tabs
       PROVE  Past(rw, ck, u, tab[u].page)
  <2>1. PICK page : page = tab[u].page
    OBVIOUS
  <2>2. page \in Nat /\ Past(row, bk, u, page) /\ DOMAIN row = Accounts
    BY <2>1, TabSane DEF TabShape, Editions, Traced, Inv, Rows
  <2>3. u = t => NotAfter(c.edition, page)
    BY <1>1, <1>2, <1>3, <2>1, NamesNothingOlder DEF NotAfter
  <2>4. rw[c.epoch[1]] = s[1] /\ \A b \in Accounts : b # c.epoch[1] => rw[b] = row[b]
    BY <1>4, <1>11, <1>12, <2>2 DEF RequestShape
  <2>5. Rewrote(c, ck, bk, t, rw, s[2])
    BY <1>4, <1>12, <2>4 DEF Rewrote
  <2>6. Past(rw, ck, u, page)
    BY <2>2, <2>3, <2>5, ServedPast
  <2> QED
    BY <2>1, <2>6
<1>14. Bound(m, t, ck, typed)
  <2>1. Past(rw, ck, t, x.page)
    BY <1>1, <1>13
  <2> QED
    BY <1>1, <1>2, <1>3, <1>7, <1>9, <1>11, <1>12, <2>1, ServedBound
<1>15. ASSUME NEW u \in Tabs, u # t
       PROVE  Bound(tab[u], u, ck, typed)
  <2>1. PICK y : y = tab[u]
    OBVIOUS
  <2>2. TabShape(y) /\ (y.call.at = "answered" => y.who # None) /\ Bound(y, u, bk, typed)
    BY <2>1, TabSane DEF Sane, Settings, Traced
  <2>3. Bound(y, u, ck, typed)
    BY <1>4, <1>12, <1>15, <2>2, OthersBound
  <2> QED
    BY <2>1, <2>3
<1>16. \A u \in Tabs : Traced(tab'[u], u, rw, ck, typed)
  BY <1>1, <1>7, <1>8, <1>13, <1>14, <1>15 DEF Traced
<1> QED
  BY <1>10, <1>12, <1>16

LEMMA ServeStrayBooked ==
    ASSUME Inv, NEW bk, Books(row, bk, typed), \A u \in Tabs : Traced(tab[u], u, row, bk, typed),
           NEW t \in Tabs, ServeStray(t)
    PROVE  \E ck : Books(row', ck, typed) /\ \A u \in Tabs : Traced(tab'[u], u, row', ck, typed)
<1>1. PICK x : x = tab[t]
  OBVIOUS
<1>2. PICK c : c = x.stray
  OBVIOUS
<1>3. Sane(x) /\ TabShape(x) /\ c.at = "sent"
  BY <1>1, <1>2, TabSane DEF ServeStray
<1>4. RequestShape(c)
  BY <1>2, <1>3 DEF TabShape, CallShape
<1>5. PICK s \in Served(c) :
        /\ row' = [row EXCEPT ![c.epoch[1]] = s[1]]
        /\ tab' = [tab EXCEPT ![t] = [x EXCEPT !.stray.at = "answered", !.stray.answer = s[2]]]
  <2>1. PICK s \in Served(tab[t].stray) :
        /\ row' = [row EXCEPT ![tab[t].stray.epoch[1]] = s[1]]
        /\ Put(t, [tab[t] EXCEPT !.stray.at = "answered", !.stray.answer = s[2]])
    BY Zenon DEF ServeStray
  <2>2. tab' = [tab EXCEPT ![t] = [x EXCEPT !.stray.at = "answered", !.stray.answer = s[2]]]
    BY <1>1, <2>1 DEF Put
  <2>3. s \in Served(c) /\ row' = [row EXCEPT ![c.epoch[1]] = s[1]]
    BY <1>1, <1>2, <2>1
  <2> QED
    BY <2>2, <2>3, Zenon
<1>6. PICK m : m = tab'[t]
  OBVIOUS
<1>7. m = [x EXCEPT !.stray.at = "answered", !.stray.answer = s[2]] /\ \A u \in Tabs : u # t => tab'[u] = tab[u]
  BY <1>5, <1>6 DEF Inv
<1>8. /\ m.page = x.page /\ m.who = x.who /\ m.device = x.device /\ m.box = x.box /\ m.call = x.call
      /\ m.flight = x.flight /\ m.stray.at = "answered"
  BY <1>2, <1>3, <1>4, <1>7 DEF TabShape, RequestShape
<1>9. Fair(c, t, bk, typed) /\ Bound(x, t, bk, typed)
  BY <1>1, <1>2 DEF Traced, Bound
<1>10. Bound(m, t, bk, typed)
  BY <1>8, <1>9 DEF Bound, Tidy, Asks, Fair, OwnAppend, Hears, Square, Knows
<1>11. TabShape(m)
  <2>1. Inv'
    BY ServeStrayKeeps
  <2>2. Sane(tab[t])'
    BY <2>1 DEF Inv
  <2>3. TabShape(tab[t])'
    BY <2>2 DEF Sane
  <2> QED
    BY <1>6, <2>3 DEF TabShape
<1>12. (m.call.at = "answered" => m.who # None) /\ c.epoch[2] # m.device
  <2>1. c.epoch[2] \in Nat /\ x.device \in Nat /\ c.epoch[2] < x.device
    BY <1>2, <1>3, <1>4 DEF RequestShape, TabShape, Sane, Strays
  <2> QED
    BY <1>3, <1>8, <2>1 DEF Sane, Settings
<1>13. PICK rw : rw = row'
  OBVIOUS
<1>14. rw = [row EXCEPT ![c.epoch[1]] = s[1]]
  BY <1>5, <1>13
<1>15. PICK ck : Books(rw, ck, typed) /\ Writes(ck, bk, c, t, row[c.epoch[1]], s[1], s[2])
  BY <1>3, <1>4, <1>9, <1>14, ServedBooks
<1>16. Bound(m, t, ck, typed)
  BY <1>4, <1>8, <1>10, <1>11, <1>12, <1>15, OthersBound
<1>17. ASSUME NEW u \in Tabs, u # t
       PROVE  Bound(tab[u], u, ck, typed)
  <2>1. PICK y : y = tab[u]
    OBVIOUS
  <2>2. TabShape(y) /\ (y.call.at = "answered" => y.who # None) /\ Bound(y, u, bk, typed)
    BY <2>1, TabSane DEF Sane, Settings, Traced
  <2>3. Bound(y, u, ck, typed)
    BY <1>4, <1>15, <1>17, <2>2, OthersBound
  <2> QED
    BY <2>1, <2>3
<1>18. ASSUME NEW u \in Tabs
       PROVE  Past(rw, ck, u, tab[u].page)
  <2>1. PICK page : page = tab[u].page
    OBVIOUS
  <2>2. page \in Nat /\ Past(row, bk, u, page) /\ DOMAIN row = Accounts
    BY <2>1, TabSane DEF TabShape, Editions, Traced, Inv, Rows
  <2>3. u = t => NotAfter(c.edition, page)
    BY <1>1, <1>2, <1>3, <1>4, <2>1, <2>2 DEF Sane, Strays, NotAfter, RequestShape, Editions
  <2>4. rw[c.epoch[1]] = s[1] /\ \A b \in Accounts : b # c.epoch[1] => rw[b] = row[b]
    BY <1>4, <1>14, <1>15, <2>2 DEF RequestShape
  <2>5. Rewrote(c, ck, bk, t, rw, s[2])
    BY <1>4, <1>15, <2>4 DEF Rewrote
  <2>6. Past(rw, ck, u, page)
    BY <2>2, <2>3, <2>5, ServedPast
  <2> QED
    BY <2>1, <2>6
<1>19. ASSUME NEW u \in Tabs
       PROVE  Traced(tab'[u], u, rw, ck, typed)
  <2>1. CASE u = t
    <3>1. Past(rw, ck, t, m.page)
      BY <1>1, <1>8, <1>18
    <3> QED
      BY <2>1, <3>1, <1>6, <1>16 DEF Traced
  <2>2. CASE u # t
    BY <2>2, <1>7, <1>17, <1>18 DEF Traced
  <2> QED
    BY <2>1, <2>2
<1> QED
  BY <1>13, <1>15, <1>19

(* A step of one tab.                                                      *)
LEMMA TabBooked ==
    ASSUME Inv, TypedBefore, NEW bk, Books(row, bk, typed), \A u \in Tabs : Traced(tab[u], u, row, bk, typed),
           NEW t \in Tabs, UNCHANGED row, typed \subseteq typed',
           NEW m, Goes(tab[t], m), tab' = [tab EXCEPT ![t] = m], Bound(tab'[t], t, bk, typed')
    PROVE  Booked'
<1>1. PICK tz : tz = typed'
  OBVIOUS
<1>2. \A u \in Tabs : u # t => tab'[u] = tab[u]
  BY DEF Inv
<1>3. ASSUME NEW u \in Tabs
      PROVE  Bound(tab'[u], u, bk, tz)
  <2>1. CASE u = t
    BY <1>1, <2>1
  <2>2. CASE u # t
    <3>1. PICK y : y = tab[u]
      OBVIOUS
    <3>2. Bound(y, u, bk, tz)
      BY <1>1, <3>1, MoreTyped DEF Traced
    <3> QED
      BY <1>2, <2>2, <3>1, <3>2
  <2> QED
    BY <2>1, <2>2
<1>4. Books(row, bk, tz)
  BY <1>1 DEF Books
<1>5. ASSUME NEW u \in Tabs
      PROVE  Past(row, bk, u, tab'[u].page)
  <2>1. PICK page, n : page = tab[u].page /\ n = tab'[u].page
    OBVIOUS
  <2>2. Past(row, bk, u, page) /\ page \in Nat
    BY <2>1, TabSane DEF Traced, TabShape, Editions
  <2>3. n \in Nat /\ page <= n
    BY <1>2, <2>1, <2>2 DEF Goes, TabShape, Editions, Inv
  <2>4. ASSUME NEW a \in Accounts, NEW i \in DOMAIN bk[a], bk[a][i].edition < page
        PROVE  bk[a][i].edition < n
    <3>1. bk[a][i].edition \in Nat
      BY DEF Books, TypedBefore, Editions
    <3> QED
      BY <2>2, <2>3, <2>4, <3>1
  <2> QED
    BY <2>1, <2>2, <2>4 DEF Past
<1> QED
  BY <1>1, <1>3, <1>4, <1>5 DEF Booked, Traced

(* What a run begins with is in a book, and nothing is owed.               *)
LEMMA InitBooked ==
    ASSUME Init
    PROVE  Booked /\ late = {} /\ IsFiniteSet(typed)
<1>1. PICK s \in Starts :
        /\ row = s.row
        /\ tab = [t \in Tabs |->
                    [page |-> 1, who |-> s.who[t], device |-> 1, box |-> NoBox,
                     flight |-> IF s.on[t] THEN Fresh(1) ELSE NoFlight,
                     call |-> NoCall, stray |-> NoCall, on |-> s.on[t]]]
        /\ late = {}
        /\ typed = s.typed
  BY DEF Init
<1>2. Remembered(s)
  BY TypedAssumption
<1>3. PICK bk : bk = [a \in Accounts |-> CHOOSE f \in [DOMAIN s.row[a].log -> s.typed] : Remembers(f, s, a)]
  OBVIOUS
<1>4. ASSUME NEW a \in Accounts
      PROVE  bk[a] \in [DOMAIN row[a].log -> typed] /\ Remembers(bk[a], s, a)
  BY <1>1, <1>2, <1>3 DEF Remembered
<1>5. Books(row, bk, typed)
  <2>1. ASSUME NEW a \in Accounts
        PROVE  /\ DOMAIN bk[a] = DOMAIN row[a].log
               /\ \A i \in DOMAIN bk[a] :
                   /\ bk[a][i] \in typed
                   /\ bk[a][i].who = a /\ bk[a][i].edition <= row[a].edition /\ bk[a][i].guess = row[a].log[i]
               /\ \A i, j \in DOMAIN bk[a] : bk[a][i] = bk[a][j] => i = j
    <3>1. PICK f : f = bk[a]
      OBVIOUS
    <3>2. f \in [DOMAIN row[a].log -> typed] /\ Remembers(f, s, a) /\ s.row[a] = row[a]
      BY <1>1, <1>4, <3>1
    <3>3. /\ \A i \in DOMAIN f : f[i].who = a /\ f[i].edition = row[a].edition /\ f[i].guess = row[a].log[i]
          /\ \A i, j \in DOMAIN f : f[i] = f[j] => i = j
      BY <3>2 DEF Remembers
    <3>4. DOMAIN f = DOMAIN row[a].log /\ \A i \in DOMAIN f : f[i] \in typed
      BY <3>2
    <3>5. row[a].edition <= row[a].edition
      BY <1>1, StartsAssumption DEF Startable
    <3> QED
      BY <3>1, <3>3, <3>4, <3>5
  <2>2. DOMAIN bk = Accounts
    BY <1>3
  <2> QED
    BY <2>1, <2>2 DEF Books
<1>6. ASSUME NEW t \in Tabs
      PROVE  Traced(tab[t], t, row, bk, typed)
  <2>1. PICK f : f = IF s.on[t] THEN Fresh(1) ELSE NoFlight
    OBVIOUS
  <2>2. f.open => ~f.settled
    BY <2>1, FreshFacts, NoFacts, BoundsAssumption DEF Editions
  <2>3. PICK x : x = tab[t]
    OBVIOUS
  <2>4. x = [page |-> 1, who |-> s.who[t], device |-> 1, box |-> NoBox, flight |-> f,
             call |-> NoCall, stray |-> NoCall, on |-> s.on[t]]
    BY <1>1, <2>1, <2>3
  <2>5. /\ x.call.at = "none" /\ x.stray.at = "none" /\ x.box.edition = 0 /\ x.page # 0
        /\ x.flight.open => ~x.flight.settled
    BY <2>2, <2>4, NoFacts DEF NoCall, NoBox
  <2>6. Fair(x.stray, t, bk, typed)
    BY <2>5 DEF Fair
  <2>7. Bound(x, t, bk, typed)
    BY <2>5, <2>6, NewBound
  <2>8. Past(row, bk, t, x.page)
    BY <1>1, <1>4 DEF Past, Remembers
  <2> QED
    BY <2>3, <2>7, <2>8 DEF Traced
<1>7. IsFiniteSet(typed)
  BY <1>1, <1>2 DEF Remembered
<1> QED
  BY <1>1, <1>5, <1>6, <1>7 DEF Booked

(* No request that its caller gave up on reaches the server, and no device *)
(* changes under its account.                                              *)
Prompt == \A t \in Tabs : ~Delay(t) /\ ~ChangeDevice(t)

(* No guess is stored more often than it was typed.                        *)
StoredOnce ==
    \A a \in Accounts, g \in Guesses : Cardinality(Copies(a, g)) <= Cardinality(TypedOf(a, g))

(* Every step on which no request is delayed and no device changes.        *)
LEMMA BookedStep ==
    ASSUME Inv, TypedBefore, Booked, late = {}, [Next]_vars, [Prompt]_vars
    PROVE  Booked' /\ late' = {}
<1>1. PICK bk : Books(row, bk, typed) /\ \A u \in Tabs : Traced(tab[u], u, row, bk, typed)
  BY DEF Booked
<1>2. CASE UNCHANGED vars
  BY <1>2 DEF vars, Booked
<1>3. ASSUME NEW t \in Tabs, Client(t)
      PROVE  Booked' /\ late' = {}
  <2>1. UNCHANGED <<row, late, typed>>
    BY <1>3 DEF Client, Pump, Challenged, Land, StrayLands
  <2>2. PICK m : Goes(tab[t], m) /\ tab' = [tab EXCEPT ![t] = m]
    BY <1>3, PumpGoes, ChallengedGoes, LandGoes, StrayLandsGoes, Zenon DEF Client
  <2>3. Bound(tab'[t], t, bk, typed)
    BY <1>1, <1>3, ClientBound DEF Traced
  <2> QED
    BY <1>1, <2>1, <2>2, <2>3, TabBooked
<1>4. ASSUME NEW t \in Tabs, Player(t)
      PROVE  Booked' /\ late' = {}
  <2>1. UNCHANGED <<row, late>>
    <3>1. Type(t) => UNCHANGED <<row, late>>
      BY Zenon DEF Type
    <3>2. AskGiveUp(t) \/ Prune(t) \/ Retry(t) => UNCHANGED <<row, late>>
      BY Zenon DEF AskGiveUp, Prune, Retry
    <3>3. Visit(t) \/ Reload(t) => UNCHANGED <<row, late>>
      BY Zenon DEF Visit, Reload
    <3> QED
      BY <1>4, <3>1, <3>2, <3>3, Zenon DEF Player
  <2>2. typed \subseteq typed'
    <3>1. CASE Type(t)
      BY <3>1, Zenon DEF Type
    <3>2. CASE AskGiveUp(t) \/ Visit(t) \/ Reload(t) \/ Prune(t) \/ Retry(t)
      BY <3>2 DEF AskGiveUp, Visit, Reload, Prune, Retry
    <3> QED
      BY <1>4, <3>1, <3>2 DEF Player
  <2>3. PICK m : Goes(tab[t], m) /\ tab' = [tab EXCEPT ![t] = m]
    BY <1>4, TypeGoes, AskGiveUpGoes, VisitGoes, ReloadGoes, PruneGoes, RetryGoes, Zenon DEF Player
  <2>4. Bound(tab'[t], t, bk, typed')
    BY <1>1, <1>4, PlayerBound DEF Traced
  <2> QED
    BY <1>1, <2>1, <2>2, <2>3, <2>4, TabBooked
<1>5. ASSUME NEW t \in Tabs, Serve(t) \/ ServeStray(t)
      PROVE  Booked' /\ late' = {}
  <2>1. typed' = typed /\ late' = late
    BY <1>5 DEF Serve, ServeStray
  <2>2. \E ck : Books(row', ck, typed) /\ \A u \in Tabs : Traced(tab'[u], u, row', ck, typed)
    BY <1>1, <1>5, ServeBooked, ServeStrayBooked
  <2> QED
    BY <2>1, <2>2 DEF Booked
<1>6. ASSUME NEW t \in Tabs, World(t), ~Delay(t), ~ChangeDevice(t)
      PROVE  Booked' /\ late' = {}
  <2>1. CASE Revoke(t)
    BY <2>1 DEF Revoke, Booked
  <2>2. CASE Fail(t) \/ Move(t) \/ Acquire(t)
    <3>1. UNCHANGED <<row, late, typed>>
      <4>1. Fail(t) \/ Move(t) => UNCHANGED <<row, late, typed>>
        BY DEF Fail, Move
      <4>2. Acquire(t) => UNCHANGED <<row, late, typed>>
        BY Zenon DEF Acquire
      <4> QED
        BY <2>2, <4>1, <4>2
    <3>2. PICK m : Goes(tab[t], m) /\ tab' = [tab EXCEPT ![t] = m]
      BY <2>2, FailGoes, MoveGoes, AcquireGoes, Zenon
    <3>3. Bound(tab'[t], t, bk, typed)
      BY <1>1, <2>2, ChallengedBound, MoveBound, AcquireBound DEF Traced
    <3> QED
      BY <1>1, <3>1, <3>2, <3>3, TabBooked
  <2> QED
    BY <1>6, <2>1, <2>2 DEF World
<1>7. CASE Republish
  BY <1>7 DEF Republish, Booked
<1>8. ~ServeLate
  BY DEF ServeLate
<1>9. CASE Prompt /\ Next
  BY <1>3, <1>4, <1>5, <1>6, <1>7, <1>8, <1>9 DEF Prompt, Next
<1> QED
  BY <1>2, <1>9

LEMMA TypedFinite ==
    ASSUME Inv, [Next]_vars, IsFiniteSet(typed)
    PROVE  IsFiniteSet(typed)'
<1>1. TabStep \/ RowStep
  BY EveryStep
<1>2. UNCHANGED typed \/ \E w : typed' = typed \cup {w}
  <2>1. CASE RowStep
    BY <2>1 DEF RowStep
  <2>2. CASE TabStep
    BY <2>2, Zenon DEF TabStep
  <2> QED
    BY <1>1, <2>1, <2>2
<1> QED
  BY <1>2, FS_AddElement

(* As many places hold a guess as there are typings of it, at most.        *)
LEMMA BookedOnce ==
    ASSUME Inv, Booked, IsFiniteSet(typed)
    PROVE  StoredOnce
<1>1. PICK bk : Books(row, bk, typed)
  BY DEF Booked
<1> SUFFICES ASSUME NEW a \in Accounts, NEW g \in Guesses
             PROVE  Cardinality(Copies(a, g)) <= Cardinality(TypedOf(a, g))
  BY DEF StoredOnce
<1> DEFINE P == Copies(a, g)
           W == TypedOf(a, g)
           f == [i \in P |-> bk[a][i]]
<1>2. IsFiniteSet(W)
  BY FS_Subset DEF TypedOf
<1>3. \A i \in P : bk[a][i] \in W
  BY <1>1 DEF Books, Copies, TypedOf
<1>4. \A i, j \in P : bk[a][i] = bk[a][j] => i = j
  BY <1>1 DEF Books, Copies
<1>5. f \in Injection(P, W)
  <2> HIDE DEF P, W
  <2> QED
    BY <1>3, <1>4 DEF Injection, IsInjective
<1>6. Cardinality(P) <= Cardinality(W)
  <2> HIDE DEF P, W, f
  <2> QED
    BY <1>2, <1>5, FS_Injection
<1> QED
  BY <1>6

(* A typing was sent by the device it was typed on, if by no other.        *)
LEMMA OnceIsEnough ==
    ASSUME Inv, TypedBefore, StoredOnce, IsFiniteSet(typed)
    PROVE  NoGuessTwice
<1> SUFFICES ASSUME NEW a \in Accounts, NEW g \in Guesses
             PROVE  Cardinality(Copies(a, g))
                      <= Cardinality(UNION {{w} \X (w.device..tab[w.tab].device) : w \in TypedOf(a, g)})
  BY DEF NoGuessTwice
<1> DEFINE W == TypedOf(a, g)
           Sent(w) == {w} \X (w.device..tab[w.tab].device)
           U == UNION {Sent(w) : w \in W}
           f == [w \in W |-> <<w, w.device>>]
<1>1. IsFiniteSet(W)
  BY FS_Subset DEF TypedOf
<1>2. \A w \in W : w.tab \in Tabs /\ w.device \in Nat /\ w.device <= tab[w.tab].device
  BY DEF TypedOf, TypedBefore
<1>3. \A w \in W : tab[w.tab].device \in Nat
  BY <1>2 DEF Inv, Sane, TabShape
<1>4. \A w \in W : <<w, w.device>> \in Sent(w)
  BY <1>2, <1>3
<1>5. IsFiniteSet(U)
  <2>1. ASSUME NEW w \in W
        PROVE  IsFiniteSet(Sent(w))
    <3>1. IsFiniteSet({w})
      BY FS_Singleton
    <3>2. w.device \in Int /\ tab[w.tab].device \in Int
      BY <1>2, <1>3
    <3>3. IsFiniteSet(w.device..tab[w.tab].device)
      BY <3>2, FS_Interval
    <3> QED
      BY <3>1, <3>3, FS_Product
  <2>2. IsFiniteSet({Sent(w) : w \in W})
    <3> DEFINE h == [w \in W |-> Sent(w)]
               T == {Sent(w) : w \in W}
    <3>1. h \in Surjection(W, T)
      <4> HIDE DEF W, Sent
      <4> QED
        BY DEF Surjection
    <3> HIDE DEF W, T, h
    <3>2. IsFiniteSet(T)
      BY <1>1, <3>1, FS_Surjection
    <3> QED
      BY <3>2 DEF T
  <2>3. \A S \in {Sent(w) : w \in W} : IsFiniteSet(S)
    <3> HIDE DEF W, Sent
    <3> QED
      BY <2>1
  <2> HIDE DEF W, Sent
  <2> QED
    BY <2>2, <2>3, FS_UNION
<1>6. f \in Injection(W, U)
  <2>1. \A w \in W : f[w] \in U
    <3> HIDE DEF W, Sent
    <3> QED
      BY <1>4
  <2> HIDE DEF W, U
  <2> QED
    BY <2>1 DEF Injection, IsInjective
<1>7. Cardinality(W) <= Cardinality(U)
  <2> HIDE DEF W, U, f
  <2> QED
    BY <1>5, <1>6, FS_Injection
<1>8. IsFiniteSet(Copies(a, g))
  <2>1. DOMAIN row[a].log = 1..Len(row[a].log) /\ Len(row[a].log) \in Nat
    BY DEF Inv, Rows, RowShape
  <2>2. 1 \in Int /\ Len(row[a].log) \in Int
    BY <2>1
  <2>3. IsFiniteSet(1..Len(row[a].log))
    BY <2>2, FS_Interval
  <2>4. Copies(a, g) \subseteq 1..Len(row[a].log)
    BY <2>1 DEF Copies
  <2> QED
    BY <2>3, <2>4, FS_Subset
<1>9. Cardinality(Copies(a, g)) \in Nat /\ Cardinality(W) \in Nat /\ Cardinality(U) \in Nat
  <2> HIDE DEF W, U
  <2> QED
    BY <1>1, <1>5, <1>8, FS_CardinalityType
<1>10. Cardinality(Copies(a, g)) <= Cardinality(W)
  BY DEF StoredOnce
<1>11. Cardinality(Copies(a, g)) <= Cardinality(U)
  <2> HIDE DEF W, U
  <2> QED
    BY <1>7, <1>9, <1>10
<1> QED
  BY <1>11, Zenon

(* No guess is stored more often than it was typed, on every behaviour in  *)
(* which a request that its caller gave up on does not reach the server,   *)
(* and no device changes under its account: whatever else fails, is sent   *)
(* again, answered late or for an identity that was left (appendBatch,     *)
(* resync).                                                                *)
THEOREM TypedOnce == Spec /\ [][Prompt]_vars => [](StoredOnce /\ NoGuessTwice)
<1> DEFINE I == Inv /\ TypedBefore /\ Booked /\ late = {} /\ IsFiniteSet(typed)
<1>1. Init => I
  BY InitInv, InitBooked
<1>2. I /\ [Next]_vars /\ [Prompt]_vars => I'
  BY EveryStep, TypedBeforeStep, BookedStep, TypedFinite
<1>3. I => StoredOnce /\ NoGuessTwice
  BY BookedOnce, OnceIsEnough
<1> QED
  BY <1>1, <1>2, <1>3, PTL DEF Spec

=============================================================================
