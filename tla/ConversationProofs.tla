-------------------------- MODULE ConversationProofs -------------------------
(***************************************************************************)
(* Proofs about the conversation of the bot and its diary (Chat, Diary),   *)
(* for every number of messages, deliveries, jobs, versions and faults.    *)
(***************************************************************************)
EXTENDS Diary, TLAPS

-----------------------------------------------------------------------------
(* The diary                                                               *)

Processes == {"planned", "put", "rows", "done"}

JobShape ==
    /\ jobs = [k \in Jobs |-> jobs[k]]
    /\ \A k \in Jobs : jobs[k].pc \in Processes

(* What a process about to put knows of the version it read.               *)
ReadingHolds ==
    \A k \in Jobs : jobs[k].pc = "put" =>
        /\ jobs[k].read \in 0..Len(diary)
        /\ jobs[k].plan.kind = "fold" => Foldable(jobs[k].read, jobs[k].day)

IsHistory == \E S : diary \in Seq(S)

DiaryInv == JobShape /\ IsHistory /\ ReadingHolds /\ DiarySound

(* What may follow a version.                                              *)
Follows(was, is) ==
    /\ is.names \subseteq was.names \cup is.brought
    /\ is.kind # "afresh" => was.folded \subseteq is.folded
    /\ is.kind = "fold" => was.day < is.day

-----------------------------------------------------------------------------
LEMMA DiaryInit == Init => DiaryInv
<1> SUFFICES ASSUME NEW s \in Starts, InitDiary(s) PROVE DiaryInv
  BY DEF Init
<1>1. JobShape
  BY DEF InitDiary, JobShape, Jobs, Job, Processes
<1>2. /\ diary \in Seq({s.standing})
      /\ Len(diary) \in {0, 1}
  <2>1. CASE diary = <<>>
    BY <2>1
  <2>2. CASE diary = <<s.standing>>
    BY <2>2
  <2> QED
    BY <2>1, <2>2 DEF InitDiary
<1>3. ReadingHolds
  BY DEF InitDiary, ReadingHolds, Jobs, Job
<1>4. DiarySound
  BY <1>2 DEF DiarySound
<1> QED
  BY <1>1, <1>2, <1>3, <1>4 DEF DiaryInv, IsHistory

(* A version that follows the one that stands keeps the history sound, and *)
(* what was read of earlier versions stays true.                           *)
LEMMA Appended ==
    ASSUME IsHistory, DiarySound, NEW v,
           diary' = Append(diary, v),
           Len(diary) > 0 => Follows(diary[Len(diary)], v)
    PROVE  /\ IsHistory' /\ DiarySound'
           /\ Len(diary)' = Len(diary) + 1
           /\ \A i \in 1..Len(diary) : diary'[i] = diary[i]
           /\ Len(diary) \in Nat
<1>1. PICK S : diary \in Seq(S)
  BY DEF IsHistory
<1>2. diary' \in Seq(S \cup {v})
  <2>1. diary \in Seq(S \cup {v})
    BY <1>1
  <2> QED
    BY <2>1
<1>3. /\ Len(diary') = Len(diary) + 1
      /\ Len(diary) \in Nat
      /\ diary'[Len(diary) + 1] = v
      /\ \A i \in 1..Len(diary) : diary'[i] = diary[i]
  BY <1>1
<1>4. DiarySound'
  <2> SUFFICES ASSUME NEW i \in 1..Len(diary) PROVE Follows(diary'[i], diary'[i + 1])
    BY <1>3 DEF DiarySound, Follows
  <2>1. CASE i = Len(diary)
    BY <2>1, <1>3
  <2>2. CASE i # Len(diary)
    <3>1. i \in 1..(Len(diary) - 1) /\ i + 1 \in 1..Len(diary)
      BY <2>2, <1>3
    <3>2. Follows(diary[i], diary[i + 1])
      BY <3>1 DEF DiarySound, Follows
    <3> QED
      BY <3>1, <3>2, <1>3
  <2> QED
    BY <2>1, <2>2
<1> QED
  BY <1>2, <1>3, <1>4 DEF IsHistory

(* One process moves, and the diary stands or gains a version.             *)
LEMMA ProcessMoves ==
    ASSUME DiaryInv, NEW k \in Jobs, NEW pc \in Processes, NEW i, NEW day, NEW left,
           jobs' = [jobs EXCEPT ![k] = Job(jobs[k].plan, pc, i, day, left)],
           pc = "put" => /\ i \in 0..Len(diary)
                         /\ jobs[k].plan.kind = "fold" => Foldable(i, day),
           \/ diary' = diary
           \/ \E v : /\ diary' = Append(diary, v)
                     /\ Len(diary) > 0 => Follows(diary[Len(diary)], v)
    PROVE  DiaryInv'
<1>1. /\ IsHistory' /\ DiarySound'
      /\ Len(diary) \in Nat
      /\ Len(diary)' \in {Len(diary), Len(diary) + 1}
      /\ \A n \in 1..Len(diary) : diary'[n] = diary[n]
  <2>1. CASE diary' = diary
    BY <2>1 DEF DiaryInv, IsHistory, DiarySound
  <2>2. CASE diary' # diary
    <3>1. PICK v : /\ diary' = Append(diary, v)
                   /\ Len(diary) > 0 => Follows(diary[Len(diary)], v)
      BY <2>2
    <3> QED
      BY <3>1, Appended DEF DiaryInv
  <2> QED
    BY <2>1, <2>2
<1>2. /\ Jobs' = Jobs
      /\ jobs'[k] = Job(jobs[k].plan, pc, i, day, left)
      /\ \A j \in Jobs : j # k => jobs'[j] = jobs[j]
  BY DEF DiaryInv, JobShape, Jobs
<1>3. JobShape'
  BY <1>2 DEF DiaryInv, JobShape, Jobs, Job
<1>4. ReadingHolds'
  <2> SUFFICES ASSUME NEW j \in Jobs, jobs'[j].pc = "put"
               PROVE  /\ jobs'[j].read \in 0..Len(diary)'
                      /\ jobs'[j].plan.kind = "fold" =>
                            (jobs[j].read = 0 \/ Version(jobs[j].read).day < jobs[j].day)'
    BY <1>2 DEF ReadingHolds, Foldable
  <2>1. /\ jobs'[j].read \in 0..Len(diary)
        /\ jobs'[j].plan.kind = "fold" =>
              (jobs'[j].read = 0 \/ Version(jobs'[j].read).day < jobs'[j].day)
    BY <1>2 DEF DiaryInv, ReadingHolds, Foldable, Job
  <2>2. \A n \in 0..Len(diary) : Version(n)' = Version(n)
    BY <1>1 DEF Version
  <2> QED
    BY <2>1, <2>2, <1>1
<1> QED
  BY <1>1, <1>3, <1>4 DEF DiaryInv

(* A job that ends leaves the diary as it is.                              *)
LEMMA Ending ==
    ASSUME DiaryInv, NEW k \in Jobs, Ends(k)
    PROVE  DiaryInv'
<1>1. "done" \in Processes
  BY DEF Processes
<1> QED
  BY <1>1, ProcessMoves DEF Ends, Done, Became

LEMMA Reading ==
    ASSUME DiaryInv, NEW k \in Jobs, NEW i \in 0..Len(diary), NEW goesOn, NEW day, NEW left,
           ReadDiary(k, i, goesOn, day, left),
           goesOn /\ jobs[k].plan.kind = "fold" => Foldable(i, day)
    PROVE  DiaryInv'
<1> DEFINE pc == IF goesOn THEN "put" ELSE "done"
<1>1. pc \in Processes /\ (pc = "put" => goesOn)
  BY DEF Processes
<1>2. jobs' = [jobs EXCEPT ![k] = Job(jobs[k].plan, pc, i, day, left)] /\ diary' = diary
  BY DEF ReadDiary
<1> HIDE DEF pc
<1> QED
  BY <1>1, <1>2, ProcessMoves

(* A job puts a version that follows the one it read, or does not.         *)
LEMMA Putting ==
    ASSUME DiaryInv, NEW k \in Jobs, NEW v, NEW pc \in {"rows", "done"}, NEW left,
           jobs[k].pc = "put", Put(k, v, Became(k, pc, left)),
           jobs[k].read > 0 => Follows(diary[jobs[k].read], v)
    PROVE  DiaryInv'
<1>1. \/ diary' = diary
      \/ \E w : /\ diary' = Append(diary, w)
                /\ Len(diary) > 0 => Follows(diary[Len(diary)], w)
  BY DEF Put, Unmoved
<1>2. jobs' = [jobs EXCEPT ![k] = Became(k, pc, left)] \/ jobs' = [jobs EXCEPT ![k] = Done(k)]
  BY DEF Put
<1>3. /\ pc \in Processes /\ pc # "put"
      /\ "done" \in Processes
  BY DEF Processes
<1>4. CASE jobs' = [jobs EXCEPT ![k] = Became(k, pc, left)]
  BY <1>1, <1>3, <1>4, ProcessMoves DEF Became
<1>5. CASE jobs' = [jobs EXCEPT ![k] = Became(k, "done", {})]
  BY <1>1, <1>3, <1>5, ProcessMoves DEF Became
<1> QED
  BY <1>2, <1>4, <1>5 DEF Done

LEMMA RewrittenFollows ==
    ASSUME NEW kind, NEW previous, NEW days, NEW last, NEW speakers,
           NEW v \in Rewritten(kind, previous, days, last, speakers)
    PROVE  /\ v.kind = kind /\ v.day = last
           /\ v.names \subseteq previous.names \cup v.brought
           /\ previous.folded \subseteq v.folded
<1>1. PICK names \in SUBSET (previous.names \cup speakers) :
        v = [kind |-> kind, day |-> last, names |-> names,
             folded |-> previous.folded \cup days, brought |-> speakers]
  BY DEF Rewritten
<1> QED
  BY <1>1

-----------------------------------------------------------------------------
LEMMA FoldKeeps ==
    ASSUME DiaryInv, NEW k \in Jobs, FoldStart(k) \/ FoldPut(k)
    PROVE  DiaryInv'
<1>1. CASE FoldStart(k)
  <2> DEFINE day == IF jobs[k].plan.date = None THEN today - 1 ELSE jobs[k].plan.date
  <2>1. PICK i \in 0..Len(diary) : ReadDiary(k, i, Foldable(i, day), day, {})
    BY <1>1 DEF FoldStart
  <2> HIDE DEF day
  <2> QED
    BY <2>1, Reading
<1>2. CASE FoldPut(k)
  <2>1. jobs[k].plan.kind = "fold" /\ jobs[k].pc = "put"
    BY <1>2 DEF FoldPut
  <2>2. ASSUME NEW shown,
               NEW v \in Rewritten("fold", Version(jobs[k].read), {jobs[k].day}, jobs[k].day, Speakers(shown)),
               Put(k, v, Became(k, "done", {}))
        PROVE  DiaryInv'
    <3>1. /\ v.kind = "fold" /\ v.day = jobs[k].day
          /\ v.names \subseteq Version(jobs[k].read).names \cup v.brought
          /\ Version(jobs[k].read).folded \subseteq v.folded
      BY <2>2, RewrittenFollows
    <3>2. /\ jobs[k].read \in 0..Len(diary)
          /\ Foldable(jobs[k].read, jobs[k].day)
      BY <2>1 DEF DiaryInv, ReadingHolds
    <3>3. jobs[k].read > 0 => Follows(diary[jobs[k].read], v)
      BY <3>1, <3>2 DEF Foldable, Version, Follows
    <3> QED
      BY <2>1, <2>2, <3>3, Putting
  <2> QED
    BY <1>2, <2>2, Ending DEF FoldPut, Done
<1> QED
  BY <1>1, <1>2

LEMMA ForgetKeeps ==
    ASSUME DiaryInv, NEW k \in Jobs, ForgetStart(k) \/ ForgetPut(k)
    PROVE  DiaryInv'
<1>1. CASE ForgetStart(k)
  <2>1. PICK i \in 0..Len(diary) : ReadDiary(k, i, jobs[k].plan.who \in Version(i).names, 0, {})
    BY <1>1 DEF ForgetStart
  <2>2. jobs[k].plan.kind # "fold"
    BY <1>1 DEF ForgetStart
  <2> QED
    BY <2>1, <2>2, Reading
<1>2. CASE ForgetPut(k)
  <2> DEFINE v == [Version(jobs[k].read) EXCEPT !.kind = "forget", !.names = @ \ {jobs[k].plan.who}, !.brought = {}]
  <2>1. jobs[k].pc = "put"
    BY <1>2 DEF ForgetPut
  <2>2. Ends(k) \/ Put(k, v, Became(k, "done", {}))
    BY <1>2 DEF ForgetPut, Done
  <2>3. jobs[k].read > 0 => Follows(diary[jobs[k].read], v)
    BY DEF Version, Follows
  <2> HIDE DEF v
  <2> QED
    BY <2>1, <2>2, <2>3, Ending, Putting
<1> QED
  BY <1>1, <1>2

LEMMA SeedKeeps ==
    ASSUME DiaryInv, NEW k \in Jobs, SeedStart(k) \/ SeedPut(k) \/ SeedRow(k)
    PROVE  DiaryInv'
<1>1. CASE SeedStart(k)
  <2> DEFINE goes(i) == DaysOf(jobs[k].plan, today) # {} /\ (i = 0 \/ jobs[k].plan.force)
             left == {m \in jobs[k].plan.file : DayOf[m] = today}
  <2>1. PICK i \in 0..Len(diary) : ReadDiary(k, i, goes(i), today, left)
    BY <1>1 DEF SeedStart
  <2>2. jobs[k].plan.kind # "fold"
    BY <1>1 DEF SeedStart
  <2> HIDE DEF goes, left
  <2> QED
    BY <2>1, <2>2, Reading
<1>2. CASE SeedPut(k)
  <2> DEFINE plan == jobs[k].plan
             previous == IF plan.from = None THEN NoDiary ELSE Version(jobs[k].read)
             kind == IF plan.from = None THEN "afresh" ELSE "seed"
             pc == IF jobs[k].left = {} THEN "done" ELSE "rows"
             of(days) == {Sender[m] : m \in {x \in plan.file : DayOf[x] \in days}}
  <2>1. jobs[k].pc = "put" /\ pc \in {"rows", "done"}
    BY <1>2 DEF SeedPut
  <2>2. CASE jobs' = [jobs EXCEPT ![k] = Became(k, pc, jobs[k].left)] /\ diary' = diary
    <3>1. pc \in Processes /\ pc # "put"
      BY DEF Processes
    <3> HIDE DEF pc
    <3> QED
      BY <2>2, <3>1, ProcessMoves DEF Became
  <2>3. ASSUME NEW days, NEW v \in Rewritten(kind, previous, days, Max(days), of(days)),
               Put(k, v, Became(k, pc, jobs[k].left))
        PROVE  DiaryInv'
    <3>1. /\ v.kind = kind
          /\ v.names \subseteq previous.names \cup v.brought
          /\ previous.folded \subseteq v.folded
      <4> HIDE DEF kind, previous, of
      <4> QED
        BY <2>3, RewrittenFollows
    <3>2. jobs[k].read > 0 => Follows(diary[jobs[k].read], v)
      BY <3>1 DEF Version, Follows, NoDiary
    <3> HIDE DEF pc
    <3> QED
      BY <2>1, <2>3, <3>2, Putting
  <2> QED
    BY <1>2, <2>2, <2>3, Ending DEF SeedPut
<1>3. CASE SeedRow(k)
  <2>1. PICK pc, left : pc \in {"done", "rows"} /\ jobs' = [jobs EXCEPT ![k] = Became(k, pc, left)]
    BY <1>3 DEF SeedRow, Done
  <2>2. diary' = diary
    BY <1>3 DEF SeedRow
  <2>3. pc \in Processes /\ pc # "put"
    BY <2>1 DEF Processes
  <2> QED
    BY <2>1, <2>2, <2>3, ProcessMoves DEF Became
<1> QED
  BY <1>1, <1>2, <1>3

LEMMA DiaryStep == DiaryInv /\ [BothNext]_<<vars, diaryVars>> => DiaryInv'
<1> SUFFICES ASSUME DiaryInv, [BothNext]_<<vars, diaryVars>> PROVE DiaryInv'
  OBVIOUS
<1>1. CASE UNCHANGED diaryVars
  BY <1>1 DEF diaryVars, DiaryInv, JobShape, Jobs, IsHistory, ReadingHolds, DiarySound, Foldable, Version
<1>2. CASE Work
  BY <1>2, FoldKeeps, ForgetKeeps, SeedKeeps DEF Work
<1> QED
  BY <1>1, <1>2 DEF BothNext, diaryVars

(* A person forgotten is named again only by a rewrite that was shown      *)
(* turns of theirs, no folded day is lost and none is folded twice by the  *)
(* nightly job (diary.ts, put).                                            *)
THEOREM DiaryIsSound == Spec => []DiarySound
<1>1. DiaryInv => DiarySound
  BY DEF DiaryInv
<1> QED
  BY DiaryInit, DiaryStep, <1>1, PTL DEF Spec

-----------------------------------------------------------------------------
(* The section of the group and the budget of the exchange                 *)

Section == {"charge", "round", "queue", "close"}
Waiting == {"turn"} \cup Section
Seated == {"hung"} \cup Waiting
Places == {"unborn", "keep", "ingest", "done"} \cup Seated

Exchanges == [unasked : Nat, spoke : Nat \cup {None}]

Handlers ==
    [pc : Places, acked : BOOLEAN, seen : Exchanges, outcome : {"none", "reply", "react"},
     round : Nat, retried : BOOLEAN]

ChatTypes ==
    /\ asked \subseteq Messages \X Nat
    /\ call \in [asked -> Handlers]
    /\ turns \in Seq(asked) /\ said \in Seq(asked)
    /\ exchange \in Exchanges

(* Whoever waits stands in the row once, nobody else does but who hangs,   *)
(* and only its first is inside.                                           *)
Orderly ==
    /\ \A i, j \in 1..Len(turns) : turns[i] = turns[j] => i = j
    /\ \A c \in asked : call[c].pc \in Waiting => \E i \in 1..Len(turns) : turns[i] = c
    /\ \A i \in 1..Len(turns) : call[turns[i]].pc \in Seated
    /\ \A c \in asked : call[c].pc \in Section => turns[1] = c

(* Inside, the exchange is still the one that was read.                    *)
SeenHolds ==
    \A c \in asked : call[c].pc \in {"charge", "round", "queue"} =>
        /\ call[c].seen = exchange
        /\ Ambient(c) => MayVolunteer(exchange, At[c[1]])

(* The exchange counts the unasked answers in a row that end with the last *)
(* answer.                                                                 *)
Counted ==
    /\ exchange.unasked <= MaxUnasked
    /\ said = <<>> => exchange = NewExchange
    /\ said # <<>> => exchange.spoke = At[said[Len(said)][1]]
    /\ \A i \in 1..Len(said) : InARow(i, Len(said)) => Len(said) - i + 1 <= exchange.unasked

ChatInv == ChatTypes /\ Orderly /\ SeenHolds /\ Counted /\ UnaskedBounded

LEMMA ChatInit == Init => ChatInv
<1> SUFFICES ASSUME NEW s \in Starts, InitWith(s) PROVE ChatInv
  BY DEF Init
<1>1. /\ asked = s.asked /\ call = [c \in s.asked |-> Unborn]
      /\ turns = <<>> /\ said = <<>> /\ exchange = NewExchange
  BY DEF InitWith
<1>2. NewExchange \in Exchanges
  BY DEF NewExchange, Exchanges
<1>3. Unborn \in Handlers /\ Unborn.pc = "unborn"
  BY <1>2 DEF Unborn, Handlers, Places, Seated, Waiting, Section
<1>4. ChatTypes
  BY <1>1, <1>2, <1>3, StartsAssumption DEF ChatTypes
<1>5. Orderly /\ SeenHolds
  BY <1>1, <1>3 DEF Orderly, SeenHolds, Waiting, Section
<1>6. Counted /\ UnaskedBounded
  BY <1>1, MessagesAssumption DEF Counted, UnaskedBounded, NewExchange
<1> QED
  BY <1>4, <1>5, <1>6 DEF ChatInv

(* What was said and how it is counted stand still together.               *)
LEMMA CountedStands ==
    ASSUME ChatInv, UNCHANGED <<exchange, said>>
    PROVE  Counted' /\ UnaskedBounded'
  BY DEF ChatInv, Counted, UnaskedBounded, InARow

(* A handler that is not in the row moves, and stays out of it.            *)
LEMMA MovesOutside ==
    ASSUME ChatInv, NEW c \in asked, NEW r \in Handlers, Become(c, r),
           call[c].pc \notin Seated, r.pc \notin Waiting,
           UNCHANGED <<asked, turns, exchange, said>>
    PROVE  ChatInv'
<1>1. ChatTypes'
  BY DEF ChatInv, ChatTypes, Become
<1>2. call'[c] = r /\ \A d \in asked : d # c => call'[d] = call[d]
  BY DEF ChatInv, ChatTypes, Become
<1>3. Orderly'
  <2>1. \A i \in 1..Len(turns) : turns[i] \in asked /\ turns[i] # c
    BY DEF ChatInv, ChatTypes, Orderly
  <2> QED
    BY <1>2, <2>1 DEF ChatInv, Orderly, Waiting
<1>4. SeenHolds'
  BY <1>2 DEF ChatInv, SeenHolds, Waiting, Section
<1> QED
  BY <1>1, <1>3, <1>4, CountedStands DEF ChatInv

LEMMA EntersRow ==
    ASSUME ChatInv, NEW c \in asked, NEW r \in Handlers, Become(c, r),
           call[c].pc \notin Seated, r.pc = "turn", turns' = Append(turns, c),
           UNCHANGED <<asked, exchange, said>>
    PROVE  ChatInv'
<1>1. ChatTypes'
  BY DEF ChatInv, ChatTypes, Become
<1>2. call'[c] = r /\ \A d \in asked : d # c => call'[d] = call[d]
  BY DEF ChatInv, ChatTypes, Become
<1>3. /\ Len(turns) \in Nat /\ Len(turns') = Len(turns) + 1
      /\ turns'[Len(turns) + 1] = c
      /\ \A i \in 1..Len(turns) : turns'[i] = turns[i] /\ turns[i] \in asked
  BY DEF ChatInv, ChatTypes
<1>4. \A i \in 1..Len(turns) : turns[i] # c
  BY DEF ChatInv, Orderly
<1>5. Orderly'
  <2>1. \A i, j \in 1..(Len(turns) + 1) : turns'[i] = turns'[j] => i = j
    BY <1>3, <1>4 DEF ChatInv, Orderly
  <2>2. ASSUME NEW d \in asked, call'[d].pc \in Waiting
        PROVE  \E i \in 1..(Len(turns) + 1) : turns'[i] = d
    <3>1. CASE d = c
      BY <3>1, <1>3
    <3>2. CASE d # c
      BY <2>2, <3>2, <1>2, <1>3 DEF ChatInv, Orderly
    <3> QED
      BY <3>1, <3>2
  <2>4. ASSUME NEW i \in 1..(Len(turns) + 1)
        PROVE  call'[turns'[i]].pc \in Seated
    <3>1. CASE i = Len(turns) + 1
      BY <3>1, <1>2, <1>3 DEF Seated, Waiting
    <3>2. CASE i # Len(turns) + 1
      <4>1. i \in 1..Len(turns)
        BY <3>2, <1>3
      <4> QED
        BY <4>1, <1>2, <1>3, <1>4 DEF ChatInv, Orderly
    <3> QED
      BY <3>1, <3>2
  <2>3. ASSUME NEW d \in asked, call'[d].pc \in Section
        PROVE  turns'[1] = d
    <3>1. d # c
      BY <2>3, <1>2 DEF Section
    <3>2. call[d].pc \in Section /\ call[d].pc \in Waiting
      BY <3>1, <2>3, <1>2 DEF Waiting
    <3>3. Len(turns) > 0 /\ turns[1] = d
      BY <3>2, <1>3 DEF ChatInv, Orderly
    <3> QED
      BY <3>3, <1>3
  <2> QED
    BY <2>1, <2>2, <2>3, <2>4, <1>3 DEF Orderly
<1>6. SeenHolds'
  BY <1>2 DEF ChatInv, SeenHolds
<1> QED
  BY <1>1, <1>5, <1>6, CountedStands DEF ChatInv

(* The first of the row goes on, inside, having seen the exchange.         *)
LEMMA GoesOn ==
    ASSUME ChatInv, NEW c \in asked, NEW r \in Handlers, Become(c, r),
           call[c].pc \in Waiting, turns[1] = c, r.pc \in Section,
           r.pc \in {"charge", "round", "queue"} =>
             r.seen = exchange /\ (Ambient(c) => MayVolunteer(exchange, At[c[1]])),
           UNCHANGED <<asked, turns, exchange, said>>
    PROVE  ChatInv'
<1>1. ChatTypes'
  BY DEF ChatInv, ChatTypes, Become
<1>2. call'[c] = r /\ \A d \in asked : d # c => call'[d] = call[d]
  BY DEF ChatInv, ChatTypes, Become
<1>3. r.pc \in Waiting /\ r.pc \in Seated
  BY DEF Waiting, Seated
<1>4. Orderly'
  <2>1. \A i \in 1..Len(turns) : turns[i] \in asked
    BY DEF ChatInv, ChatTypes
  <2> QED
    BY <1>2, <1>3, <2>1 DEF ChatInv, Orderly
<1>5. SeenHolds'
  BY <1>2 DEF ChatInv, SeenHolds, Ambient, MayVolunteer, Current, NewExchange
<1> QED
  BY <1>1, <1>4, <1>5, CountedStands DEF ChatInv

(* The first of the row leaves it.                                         *)
LEMMA LeavesRow ==
    ASSUME ChatInv, NEW c \in asked, NEW r \in Handlers, Become(c, r),
           call[c].pc \in Waiting, turns[1] = c, r.pc \notin Waiting, turns' = Tail(turns),
           UNCHANGED <<asked, exchange, said>>
    PROVE  ChatInv'
<1>1. Len(turns) \in Nat /\ Len(turns) > 0
  BY DEF ChatInv, ChatTypes, Orderly
<1>2. turns' \in Seq(asked)
  BY <1>1 DEF ChatInv, ChatTypes
<1>3. ChatTypes'
  BY <1>2 DEF ChatInv, ChatTypes, Become
<1>4. call'[c] = r /\ \A d \in asked : d # c => call'[d] = call[d]
  BY DEF ChatInv, ChatTypes, Become
<1>5. /\ Len(turns') = Len(turns) - 1
      /\ \A i \in 1..(Len(turns) - 1) : turns'[i] = turns[i + 1]
  BY <1>1 DEF ChatInv, ChatTypes
<1>6. \A i \in 2..Len(turns) : turns[i] # c
  BY <1>1 DEF ChatInv, Orderly
<1>7. Orderly'
  <2>1. ASSUME NEW i \in 1..(Len(turns) - 1), NEW j \in 1..(Len(turns) - 1), turns'[i] = turns'[j]
        PROVE  i = j
    <3>1. i + 1 \in 1..Len(turns) /\ j + 1 \in 1..Len(turns)
      BY <1>1
    <3>2. i + 1 = j + 1
      BY <2>1, <3>1, <1>5 DEF ChatInv, Orderly
    <3> QED
      BY <3>2
  <2>2. ASSUME NEW d \in asked, call'[d].pc \in Waiting
        PROVE  \E i \in 1..(Len(turns) - 1) : turns'[i] = d
    <3>1. d # c /\ call[d].pc \in Waiting
      BY <2>2, <1>4
    <3>2. PICK i \in 1..Len(turns) : turns[i] = d
      BY <3>1 DEF ChatInv, Orderly
    <3>3. i # 1
      BY <3>1, <3>2
    <3>4. i - 1 \in 1..(Len(turns) - 1) /\ (i - 1) + 1 = i
      BY <3>3, <1>1
    <3> QED
      BY <3>2, <3>4, <1>5
  <2>4. ASSUME NEW i \in 1..(Len(turns) - 1)
        PROVE  call'[turns'[i]].pc \in Seated
    <3>1. i + 1 \in 2..Len(turns) /\ i + 1 \in 1..Len(turns)
      BY <1>1
    <3>2. turns[i + 1] \in asked /\ turns[i + 1] # c /\ turns'[i] = turns[i + 1]
      BY <3>1, <1>5, <1>6 DEF ChatInv, ChatTypes
    <3> QED
      BY <3>1, <3>2, <1>4 DEF ChatInv, Orderly
  <2>3. ASSUME NEW d \in asked, call'[d].pc \in Section
        PROVE  FALSE
    <3>1. d # c
      BY <2>3, <1>4 DEF Waiting
    <3>2. turns[1] = d
      BY <3>1, <2>3, <1>4 DEF ChatInv, Orderly
    <3> QED
      BY <3>1, <3>2
  <2> QED
    BY <2>1, <2>2, <2>3, <2>4, <1>5 DEF Orderly
<1>8. SeenHolds'
  BY <1>4 DEF ChatInv, SeenHolds, Waiting, Section, Ambient, MayVolunteer, Current, NewExchange
<1> QED
  BY <1>3, <1>7, <1>8, CountedStands DEF ChatInv

(* Nothing of the handlers moves.                                          *)
LEMMA StandsStill ==
    ASSUME ChatInv, UNCHANGED <<asked, call, turns, exchange, said>>
    PROVE  ChatInv'
  BY DEF ChatInv, ChatTypes, Orderly, SeenHolds, Counted, UnaskedBounded, InARow,
         Ambient, MayVolunteer, Current, NewExchange

(* An answer that is said moves the exchange, which counts it.             *)
LEMMA CountsAnswer ==
    ASSUME ChatInv, NEW c \in asked, call[c].pc = "queue",
           exchange' = AfterAnswer(c), said' = Append(said, c), UNCHANGED asked
    PROVE  Counted' /\ UnaskedBounded' /\ exchange' \in Exchanges /\ said' \in Seq(asked)
<1> DEFINE L == Len(said)
           m == c[1]
<1>1. /\ L \in Nat /\ said' \in Seq(asked) /\ Len(said') = L + 1
      /\ said'[L + 1] = c
      /\ \A i \in 1..L : said'[i] = said[i] /\ said[i] \in asked
  BY DEF ChatInv, ChatTypes
<1>2. /\ At[m] \in Nat /\ At[m] # None
      /\ \A i \in 1..L : At[said[i][1]] \in Nat /\ At[said[i][1]] # None
      /\ Gap \in Nat /\ MaxUnasked \in Nat
  BY <1>1, MessagesAssumption DEF ChatInv, ChatTypes
<1>3. call[c].seen = exchange /\ (Ambient(c) => MayVolunteer(exchange, At[m]))
  BY DEF ChatInv, SeenHolds
<1>4. /\ exchange'.spoke = At[m]
      /\ exchange'.unasked = IF Ambient(c) THEN Current(exchange, At[m]).unasked + 1 ELSE 0
      /\ exchange' = [unasked |-> exchange'.unasked, spoke |-> exchange'.spoke]
  BY <1>3 DEF AfterAnswer
<1>5. Current(exchange, At[m]).unasked \in Nat
  BY DEF ChatInv, ChatTypes, Exchanges, Current, NewExchange
<1>6. exchange'.unasked \in Nat /\ exchange'.unasked <= MaxUnasked
  BY <1>2, <1>3, <1>4, <1>5 DEF MayVolunteer
<1>7. exchange' \in Exchanges
  BY <1>2, <1>4, <1>6 DEF Exchanges
<1>8. ASSUME NEW i \in 1..(L + 1), NEW j, j = L + 1, InARow(i, j)'
      PROVE  j - i + 1 <= exchange'.unasked
  <2>1. Ambient(c)
    <3>1. j \in i..j /\ said'[j] = c
      BY <1>1, <1>8
    <3> QED
      BY <3>1, <1>8 DEF InARow, Ambient
  <2>2. CASE i = L + 1
    BY <2>1, <2>2, <1>1, <1>4, <1>5, <1>8
  <2>3. CASE i # L + 1
    <3>1. i \in 1..L /\ L \in 1..L /\ L \in i..(j - 1)
      BY <2>3, <1>1, <1>8
    <3>2. At[m] <= At[said[L][1]] + Gap
      BY <3>1, <1>1, <1>8 DEF InARow
    <3>3. InARow(i, L)
      <4>1. \A k \in i..L : k \in i..j /\ k \in 1..L
        BY <3>1, <1>1, <1>8
      <4>2. \A k \in i..(L - 1) : k \in i..(j - 1) /\ k \in 1..L /\ k + 1 \in 1..L
        BY <3>1, <1>1, <1>8
      <4>3. \A k \in i..L : Ambient(said[k])
        BY <4>1, <1>1, <1>8 DEF InARow, Ambient
      <4>4. ASSUME NEW k \in i..(L - 1)
            PROVE  At[said[k + 1][1]] <= At[said[k][1]] + Gap
        <5>1. k \in i..(j - 1) /\ k \in 1..L /\ k + 1 \in 1..L
          BY <4>2
        <5>2. said'[k] = said[k] /\ said'[k + 1] = said[k + 1]
          BY <5>1, <1>1
        <5>3. At[said'[k + 1][1]] <= At[said'[k][1]] + Gap
          BY <5>1, <1>8 DEF InARow
        <5> QED
          BY <5>2, <5>3
      <4> QED
        BY <4>3, <4>4 DEF InARow
    <3>4. exchange.spoke = At[said[L][1]]
      BY <3>1, <1>1 DEF ChatInv, Counted
    <3>5. Current(exchange, At[m]) = exchange
      BY <3>1, <3>2, <3>4, <1>2 DEF Current
    <3>6. L - i + 1 <= exchange.unasked
      BY <3>1, <3>3 DEF ChatInv, Counted
    <3>7. exchange.unasked \in Nat
      BY DEF ChatInv, ChatTypes, Exchanges
    <3> QED
      BY <2>1, <3>1, <3>5, <3>6, <3>7, <1>1, <1>4, <1>8
  <2> QED
    BY <2>2, <2>3
<1>9. Counted'
  <2>1. Len(said') = L + 1 /\ said' # <<>> /\ said'[Len(said')] = c
    BY <1>1
  <2>2. exchange'.spoke = At[said'[Len(said')][1]]
    BY <2>1, <1>4
  <2>3. ASSUME NEW i \in 1..(L + 1), InARow(i, Len(said))'
        PROVE  Len(said') - i + 1 <= exchange'.unasked
    <3>1. PICK j : j = L + 1
      OBVIOUS
    <3>2. InARow(i, j)'
      BY <3>1, <2>1, <2>3 DEF InARow
    <3> QED
      BY <3>1, <3>2, <2>1, <1>8
  <2> QED
    BY <2>1, <2>2, <2>3, <1>6 DEF Counted
<1>10. UnaskedBounded'
  <2> SUFFICES ASSUME NEW i \in 1..(L + 1), NEW j \in 1..(L + 1), i <= j, InARow(i, j)'
               PROVE  j - i + 1 <= MaxUnasked
    BY <1>1 DEF UnaskedBounded
  <2>1. CASE j = L + 1
    <3>1. j - i + 1 <= exchange'.unasked
      BY <2>1, <1>8
    <3> QED
      BY <3>1, <1>1, <1>2, <1>6
  <2>2. CASE j # L + 1
    <3>1. i \in 1..L /\ j \in 1..L
      BY <2>2, <1>1
    <3>2. \A k \in i..j : k \in 1..L
      BY <3>1, <1>1
    <3>3. \A k \in i..(j - 1) : k \in 1..L /\ k + 1 \in 1..L
      BY <3>1, <1>1
    <3>4. InARow(i, j)
      BY <3>2, <3>3, <1>1 DEF InARow, Ambient
    <3> QED
      BY <3>1, <3>4 DEF ChatInv, UnaskedBounded
  <2> QED
    BY <2>1, <2>2
<1> QED
  BY <1>1, <1>7, <1>9, <1>10

LEMMA Says ==
    ASSUME ChatInv, NEW c \in asked, NEW r \in Handlers, Become(c, r),
           call[c].pc = "queue", r.pc = "close",
           exchange' = AfterAnswer(c), said' = Append(said, c), UNCHANGED <<asked, turns>>
    PROVE  ChatInv'
<1>1. Counted' /\ UnaskedBounded' /\ exchange' \in Exchanges /\ said' \in Seq(asked)
  BY CountsAnswer
<1>2. call'[c] = r /\ \A d \in asked : d # c => call'[d] = call[d]
  BY DEF ChatInv, ChatTypes, Become
<1>3. ChatTypes'
  BY <1>1 DEF ChatInv, ChatTypes, Become
<1>4. call[c].pc \in Section /\ call[c].pc \in Waiting /\ r.pc \in Section /\ r.pc \in Seated
  BY DEF Section, Waiting, Seated
<1>5. Orderly'
  <2>1. \A i \in 1..Len(turns) : turns[i] \in asked
    BY DEF ChatInv, ChatTypes
  <2> QED
    BY <1>2, <1>4, <2>1 DEF ChatInv, Orderly, Seated
<1>6. ASSUME NEW d \in asked, call'[d].pc \in {"charge", "round", "queue"}
      PROVE  FALSE
  <2>1. d # c
    BY <1>2, <1>6
  <2>2. call[d].pc \in Section
    BY <2>1, <1>2, <1>6 DEF Section
  <2>3. turns[1] = d /\ turns[1] = c
    BY <2>2, <1>4 DEF ChatInv, Orderly
  <2> QED
    BY <2>1, <2>3
<1>7. SeenHolds'
  BY <1>6 DEF SeenHolds
<1> QED
  BY <1>1, <1>3, <1>5, <1>7 DEF ChatInv

(* A crash ends every handler that was under way, and forgets the row, the *)
(* exchange and what was said.                                             *)
LEMMA CrashKeeps == ChatInv /\ Crash => ChatInv'
<1> SUFFICES ASSUME ChatInv, Crash PROVE ChatInv'
  OBVIOUS
<1>1. /\ turns' = <<>> /\ said' = <<>> /\ exchange' = NewExchange /\ asked' = asked
      /\ call' = [c \in asked |-> IF call[c].pc \in {"unborn", "done"} THEN call[c]
                                  ELSE [Unborn EXCEPT !.pc = "done"]]
  BY DEF Crash
<1>2. NewExchange \in Exchanges
  BY DEF NewExchange, Exchanges
<1>3. [Unborn EXCEPT !.pc = "done"] \in Handlers
  BY <1>2 DEF Unborn, Handlers, Places, Seated, Waiting, Section
<1>4. \A c \in asked : call'[c] \in Handlers /\ call'[c].pc \in {"unborn", "done"}
  BY <1>1, <1>3 DEF ChatInv, ChatTypes, Unborn
<1>5. ChatTypes'
  <2>1. call' = [c \in asked |-> call'[c]]
    BY <1>1
  <2>2. call' \in [asked -> Handlers]
    BY <2>1, <1>4
  <2>3. <<>> \in Seq(asked)
    OBVIOUS
  <2>4. asked \subseteq Messages \X Nat
    BY DEF ChatInv, ChatTypes
  <2> QED
    BY <2>2, <2>3, <2>4, <1>1, <1>2 DEF ChatTypes
<1>6. Orderly' /\ SeenHolds'
  BY <1>1, <1>4 DEF Orderly, SeenHolds, Waiting, Section
<1>7. Counted' /\ UnaskedBounded'
  BY <1>1, MessagesAssumption DEF Counted, UnaskedBounded, NewExchange
<1> QED
  BY <1>5, <1>6, <1>7 DEF ChatInv

(* How a step of the section ends: its call goes on, or leaves.            *)
LEMMA Inside ==
    ASSUME ChatInv, NEW c \in asked, call[c].pc \in Section
    PROVE  /\ call[c] \in Handlers /\ call[c].pc \in Waiting
           /\ turns[1] = c
           /\ call[c].pc # "close" =>
                call[c].seen = exchange /\ (Ambient(c) => MayVolunteer(exchange, At[c[1]]))
  BY DEF ChatInv, ChatTypes, Orderly, SeenHolds, Waiting, Section

LEMMA LeaveKeeps ==
    ASSUME ChatInv, NEW c \in asked, call[c].pc \in Waiting, turns[1] = c, Leave(c),
           UNCHANGED <<asked, exchange, said>>
    PROVE  ChatInv'
<1>1. [call[c] EXCEPT !.pc = "done"] \in Handlers /\ [call[c] EXCEPT !.pc = "done"].pc = "done"
  BY ZenonT(60) DEF ChatInv, ChatTypes, Handlers, Places
<1>2. "done" \notin Waiting
  BY DEF Waiting, Section
<1> QED
  BY <1>1, <1>2, LeavesRow DEF Leave

LEMMA ThrowKeeps ==
    ASSUME ChatInv, NEW c \in asked, call[c].pc \in Section, Throw(c),
           UNCHANGED <<asked, exchange, said>>
    PROVE  ChatInv'
<1>1. Leave(c)
  BY DEF Throw, AfterThrow, Leave
<1> QED
  BY <1>1, Inside, LeaveKeeps

(* The steps, one by one.                                                  *)
LEMMA DeliverKeeps ==
    ASSUME ChatInv, NEW c \in asked, Deliver(c)
    PROVE  ChatInv'
<1>1. PICK r : /\ r \in Handlers /\ Become(c, r) /\ r.pc \notin Waiting
  <2>1. Unborn \in Handlers
    BY DEF Unborn, Handlers, Places, Seated, Waiting, Section, Exchanges, NewExchange
  <2>2. \A p \in {"keep", "ingest"} :
            [Unborn EXCEPT !.pc = p] \in Handlers /\ [Unborn EXCEPT !.pc = p].pc \notin Waiting
    BY <2>1 DEF Handlers, Places, Seated, Waiting, Section
  <2> QED
    BY <2>2 DEF Deliver
<1>2. call[c].pc \notin Seated
  BY DEF Deliver, Unborn, Seated, Waiting, Section
<1>3. UNCHANGED <<asked, turns, exchange, said>>
  BY DEF Deliver, history
<1> QED
  BY <1>1, <1>2, <1>3, MovesOutside

LEMMA KeptKeeps ==
    ASSUME ChatInv, NEW c \in asked, Kept(c)
    PROVE  ChatInv'
<1>1. /\ [call[c] EXCEPT !.pc = "ingest"] \in Handlers
      /\ [call[c] EXCEPT !.pc = "ingest"].pc = "ingest"
  BY DEF ChatInv, ChatTypes, Handlers, Places
<1>2. call[c].pc \notin Seated /\ "ingest" \notin Waiting
  BY DEF Kept, Seated, Waiting, Section
<1>3. UNCHANGED <<asked, turns, exchange, said>>
  BY DEF Kept, history
<1> QED
  BY <1>1, <1>2, <1>3, MovesOutside DEF Kept

LEMMA IngestKeeps ==
    ASSUME ChatInv, NEW c \in asked, Ingest(c)
    PROVE  ChatInv'
<1>1. PICK r : r \in Handlers /\ WaitInTurn(c, r)
  <2>1. call[c] \in Handlers /\ [call[c] EXCEPT !.acked = TRUE] \in Handlers
    BY DEF ChatInv, ChatTypes, Handlers
  <2> QED
    BY <2>1 DEF Ingest
<1>2. [r EXCEPT !.pc = "turn"] \in Handlers /\ [r EXCEPT !.pc = "turn"].pc = "turn"
  BY <1>1 DEF Handlers, Places, Seated, Waiting
<1>3. call[c].pc \notin Seated
  BY DEF Ingest, Seated, Waiting, Section
<1>4. UNCHANGED <<asked, exchange, said>>
  BY DEF Ingest
<1> QED
  BY <1>1, <1>2, <1>3, <1>4, EntersRow DEF WaitInTurn

LEMMA OfferKeeps ==
    ASSUME ChatInv, NEW c \in asked, Offer(c)
    PROVE  ChatInv'
<1>1. call[c].pc \in Waiting
  BY DEF Offer, Waiting
<1>2. turns[1] = c
  BY DEF Offer, MayEnter
<1>3. UNCHANGED <<asked, exchange, said>>
  BY DEF Offer, history
<1>4. CASE Leave(c)
  BY <1>1, <1>2, <1>3, <1>4, LeaveKeeps
<1>5. CASE ~Leave(c)
  <2> DEFINE r == [call[c] EXCEPT !.pc = IF Ambient(c) THEN "round" ELSE "charge", !.seen = exchange]
  <2>1. Become(c, r) /\ UNCHANGED turns /\ (Ambient(c) => MayVolunteer(exchange, At[c[1]]))
    BY <1>5 DEF Offer
  <2>2. r \in Handlers
    <3>1. call[c] \in Handlers /\ exchange \in Exchanges
      BY DEF ChatInv, ChatTypes
    <3>2. (IF Ambient(c) THEN "round" ELSE "charge") \in Places
      BY DEF Places, Seated, Waiting, Section
    <3> QED
      BY <3>1, <3>2 DEF Handlers
  <2>3. r.pc \in Section /\ r.seen = exchange
    BY DEF ChatInv, ChatTypes, Handlers, Section
  <2> HIDE DEF r
  <2> QED
    BY <1>1, <1>2, <1>3, <2>1, <2>2, <2>3, GoesOn
<1> QED
  BY <1>4, <1>5

LEMMA ChargeKeeps ==
    ASSUME ChatInv, NEW c \in asked, Charge(c)
    PROVE  ChatInv'
<1>1. call[c].pc = "charge" /\ call[c].pc \in Section /\ UNCHANGED <<asked, exchange, said>>
  BY DEF Charge, Section, history
<1>2. CASE Leave(c)
  BY <1>1, <1>2, Inside, LeaveKeeps
<1>3. CASE Throw(c)
  BY <1>1, <1>3, ThrowKeeps
<1>4. CASE ~Leave(c) /\ ~Throw(c)
  <2> DEFINE p == IF call[c].outcome = "none" THEN "round" ELSE "queue"
  <2>1. p \in Section /\ p \in Places
    BY DEF Section, Places, Seated, Waiting
  <2>2. Become(c, [call[c] EXCEPT !.pc = p]) /\ UNCHANGED turns
    BY <1>4 DEF Charge, TakeThrows
  <2>3. /\ [call[c] EXCEPT !.pc = p] \in Handlers
        /\ [call[c] EXCEPT !.pc = p].pc = p
        /\ [call[c] EXCEPT !.pc = p].seen = call[c].seen
    BY <2>1, <1>1, Inside DEF Handlers
  <2> HIDE DEF p
  <2> QED
    BY <1>1, <2>1, <2>2, <2>3, Inside, GoesOn
<1> QED
  BY <1>2, <1>3, <1>4

LEMMA RoundKeeps ==
    ASSUME ChatInv, NEW c \in asked, Round(c)
    PROVE  ChatInv'
<1>1. call[c].pc = "round" /\ call[c].pc \in Section /\ UNCHANGED <<asked, exchange, said>>
  BY DEF Round, Section, history
<1>2. CASE Leave(c)
  BY <1>1, <1>2, Inside, LeaveKeeps
<1>3. CASE Throw(c)
  BY <1>1, <1>3, ThrowKeeps
<1>4. CASE ~Leave(c) /\ ~Throw(c)
  <2>1. Answered(c)
    BY <1>4 DEF Round, TakeThrows
  <2>2. PICK r : /\ r \in Handlers /\ r.pc \in Section /\ r.seen = call[c].seen
                 /\ Become(c, r) /\ UNCHANGED turns
    <3>1. call[c] \in Handlers
      BY DEF ChatInv, ChatTypes
    <3>2. CASE Become(c, [call[c] EXCEPT !.round = @ + 1]) /\ UNCHANGED turns
      BY <3>1, <3>2, <1>1 DEF Handlers
    <3>3. CASE Become(c, [call[c] EXCEPT !.retried = TRUE]) /\ UNCHANGED turns
      BY <3>1, <3>3, <1>1 DEF Handlers
    <3>4. ASSUME NEW o \in {"reply", "react"}, NEW p \in {"charge", "queue"},
                 Become(c, [call[c] EXCEPT !.outcome = o, !.pc = p]), UNCHANGED turns
          PROVE  \E r : /\ r \in Handlers /\ r.pc \in Section /\ r.seen = call[c].seen
                        /\ Become(c, r) /\ UNCHANGED turns
      <4>1. /\ [call[c] EXCEPT !.outcome = o, !.pc = p] \in Handlers
            /\ [call[c] EXCEPT !.outcome = o, !.pc = p].pc \in Section
            /\ [call[c] EXCEPT !.outcome = o, !.pc = p].seen = call[c].seen
        BY <3>1 DEF Handlers, Places, Seated, Waiting, Section
      <4> QED
        BY <4>1, <3>4
    <3> QED
      BY <2>1, <1>4, <3>2, <3>3, <3>4 DEF Answered
  <2> QED
    BY <1>1, <2>2, Inside, GoesOn
<1> QED
  BY <1>2, <1>3, <1>4

LEMMA QueueKeeps ==
    ASSUME ChatInv, NEW c \in asked, Queue(c)
    PROVE  ChatInv'
<1>1. call[c].pc = "queue" /\ call[c].pc \in Section /\ UNCHANGED asked
  BY DEF Queue, Section
<1>2. /\ [call[c] EXCEPT !.pc = "close"] \in Handlers
      /\ [call[c] EXCEPT !.pc = "close"].pc = "close"
  BY DEF ChatInv, ChatTypes, Handlers, Places, Seated, Waiting, Section
<1>3. "close" \in Section
  BY DEF Section
<1>4. CASE Leave(c) /\ WhenRefused(c) /\ UNCHANGED said
  BY <1>1, <1>4, Inside, LeaveKeeps DEF WhenRefused
<1>5. CASE /\ Become(c, [call[c] EXCEPT !.pc = "close"]) /\ UNCHANGED turns
           /\ Accepted(c) /\ exchange' = AfterAnswer(c)
  BY <1>1, <1>2, <1>5, Says DEF Accepted
<1>6. CASE /\ Become(c, [call[c] EXCEPT !.pc = "close"]) /\ UNCHANGED turns
           /\ Refused /\ UNCHANGED exchange
  BY <1>1, <1>2, <1>3, <1>6, Inside, GoesOn DEF Refused
<1> QED
  BY <1>4, <1>5, <1>6 DEF Queue

LEMMA CloseKeeps ==
    ASSUME ChatInv, NEW c \in asked, Close(c)
    PROVE  ChatInv'
<1>1. call[c].pc \in Section /\ UNCHANGED <<asked, exchange, said>>
  BY DEF Close, Section, history
<1> QED
  BY <1>1, Inside, LeaveKeeps DEF Close

(* A handler that hangs stays where it stood.                              *)
LEMMA HangKeeps ==
    ASSUME ChatInv, NEW c \in asked, Hang(c)
    PROVE  ChatInv'
<1> DEFINE r == [call[c] EXCEPT !.pc = "hung"]
<1>1. /\ Become(c, r) /\ UNCHANGED <<asked, turns, exchange, said>>
      /\ call[c].pc \in {"keep", "ingest"} \cup Section
  BY DEF Hang, Awaiting, Section
<1>2. r \in Handlers /\ r.pc = "hung"
  BY DEF ChatInv, ChatTypes, Handlers, Places, Seated
<1>3. "hung" \in Seated /\ "hung" \notin Waiting
  BY DEF Seated, Waiting, Section
<1> HIDE DEF r
<1>4. CASE call[c].pc \in {"keep", "ingest"}
  <2>1. call[c].pc \notin Seated
    BY <1>4 DEF Seated, Waiting, Section
  <2> QED
    BY <1>1, <1>2, <1>3, <2>1, MovesOutside
<1>5. CASE call[c].pc \in Section
  <2>1. call'[c] = r /\ \A d \in asked : d # c => call'[d] = call[d]
    BY <1>1 DEF ChatInv, ChatTypes, Become
  <2>2. ChatTypes'
    BY <1>1, <1>2 DEF ChatInv, ChatTypes, Become
  <2>3. Orderly'
    <3>1. \A i \in 1..Len(turns) : turns[i] \in asked
      BY DEF ChatInv, ChatTypes
    <3> QED
      BY <1>1, <1>2, <1>3, <2>1, <3>1 DEF ChatInv, Orderly, Waiting
  <2>4. SeenHolds'
    BY <1>1, <1>2, <2>1 DEF ChatInv, SeenHolds, Ambient, MayVolunteer, Current, NewExchange
  <2> QED
    BY <1>1, <2>2, <2>3, <2>4, CountedStands DEF ChatInv
<1> QED
  BY <1>1, <1>4, <1>5

LEMMA ChatStep == ChatInv /\ [BothNext]_<<vars, diaryVars>> => ChatInv'
<1> SUFFICES ASSUME ChatInv, [BothNext]_<<vars, diaryVars>> PROVE ChatInv'
  OBVIOUS
<1>1. CASE Handle
  BY <1>1, DeliverKeeps, KeptKeeps, IngestKeeps, OfferKeeps, ChargeKeeps, RoundKeeps,
     QueueKeeps, CloseKeeps DEF Handle
<1>2. CASE Crash
  BY <1>2, CrashKeeps
<1>3. CASE Land
  BY <1>3, StandsStill DEF Land, history
<1>4. CASE Flip
  BY <1>4, StandsStill DEF Flip, history
<1>5. CASE Boot
  BY <1>5, StandsStill DEF Boot
<1>6. ASSUME NEW line \in Lines, ComesBack(line)
      PROVE  ChatInv'
  BY <1>6, StandsStill DEF ComesBack
<1>7. CASE Work
  <2>1. UNCHANGED <<asked, call, turns, exchange, said>>
    BY <1>7 DEF Work, FoldStart, FoldPut, ForgetStart, ForgetPut, SeedStart, SeedPut, SeedRow,
       ReadDiary, Others, history
  <2> QED
    BY <2>1, StandsStill
<1>8. ASSUME NEW c \in asked, Hang(c)
      PROVE  ChatInv'
  BY <1>8, HangKeeps
<1>9. CASE UNCHANGED <<vars, diaryVars>>
  BY <1>9, StandsStill DEF vars, history
<1> QED
  BY <1>1, <1>2, <1>3, <1>4, <1>5, <1>6, <1>7, <1>8, <1>9 DEF BothNext, Next

(* Within one life of the task, of the answers it knows to be queued: the  *)
(* bot never gives more unasked in a row than its budget, whatever the     *)
(* messages, their order and their times are, however their handlers       *)
(* interleave, fail and hang, for the handlers of a burst decide and speak *)
(* one after the other in the section of the group (serial.ts, trigger.ts  *)
(* mayVolunteer and afterAnswer).  A restart forgets the budget, and an    *)
(* answer whose enqueue threw after it was taken is not counted.           *)
THEOREM UnaskedIsBounded == Spec => []UnaskedBounded
<1>1. ChatInv => UnaskedBounded
  BY DEF ChatInv
<1> QED
  BY ChatInit, ChatStep, <1>1, PTL DEF Spec

-----------------------------------------------------------------------------
(* What the copy in memory holds                                           *)

(* A turn of the log has the day of its message, none after today, and if  *)
(* it is a line of the bot then the queue may have it.                     *)
Proper(t) ==
    /\ t.day \in Nat \ {0} /\ t.day <= today
    /\ \A m \in Messages : t.id \in {Said(m), Reply(m)} => t.day = DayOf[m]
    /\ \A line \in Lines : t.id \in {line, Echo(line)} => line \in queued

TurnsProper ==
    /\ today \in Nat \ {0}
    /\ \A t \in memory \cup storing : Proper(t)
    /\ \A t \in stored : Seeded(t) \/ Proper(t)

(* A task that is down holds nothing.                                      *)
DownIsEmpty ==
    ~up => /\ memory = {} /\ storing = {} /\ said = <<>> /\ echoed = {}
           /\ \A c \in asked : ~InHand(c)

AnswersKnown == \A i \in 1..Len(said) : NotTooOld(DayOf[said[i][1]]) => Known(Reply(said[i][1]))

EchoesKnown ==
    /\ echoed \subseteq Lines
    /\ \A line \in echoed : Known(line) \/ Known(Echo(line)) \/ ~NotTooOld(1)

(* Each message in hand is of the past, and known if it holds words; none  *)
(* is answered that holds none.                                            *)
Deciding == {"charge", "round", "queue"}

MessagesKnown ==
    \A c \in asked :
        /\ InHand(c) => DayOf[c[1]] <= today
        /\ InHand(c) /\ Shape[c[1]] # "wordless" /\ NotTooOld(DayOf[c[1]]) => Known(Said(c[1]))
        /\ call[c].pc \in Deciding => Shape[c[1]] # "wordless"

(* What is stored, or about to be, of the days since the task booted, but  *)
(* for the rows that the load was not shown.                               *)
StoredKnown ==
    up /\ booted # None =>
        \A t \in (stored \cup storing) \ missed :
            ~Seeded(t) /\ t.day >= booted /\ NotTooOld(t.day) => t \in memory

MemoryInv ==
    /\ TurnsProper /\ DownIsEmpty
    /\ AnswersKnown /\ EchoesKnown /\ MessagesKnown /\ StoredKnown

(* How the copy changes: it forgets nothing but what has become too old,   *)
(* and nothing is on its way to the table that it does not hold.           *)
Remains ==
    /\ \A day \in Nat : NotTooOld(day)' => NotTooOld(day)
    /\ \A t \in memory : NotTooOld(t.day)' => t \in memory'
    /\ storing' \subseteq storing \cup memory'

TakenIn(c) == DayOf[c[1]] <= today /\ (Shape[c[1]] = "wordless" \/ Known(Said(c[1]))')

LEMMA MemorySaysIt == MemoryInv => LinesRemembered
<1> SUFFICES ASSUME MemoryInv PROVE LinesRemembered
  OBVIOUS
<1>1. NothingMadeUp
  <2> SUFFICES ASSUME NEW line \in Lines, NEW t \in memory \cup stored \cup storing, t.id \in {line, Echo(line)}
               PROVE  line \in queued
    BY DEF NothingMadeUp
  <2>1. ~Seeded(t)
    BY DEF Lines, Reply, Ack, Echo, Seeded
  <2> QED
    BY <2>1 DEF MemoryInv, TurnsProper, Proper
<1>2. Remembers
  BY DEF MemoryInv, AnswersKnown, EchoesKnown, MessagesKnown, Remembers, InHand, Deciding
<1>3. Restored
  BY DEF MemoryInv, StoredKnown, Restored, Lasting
<1> QED
  BY <1>1, <1>2, <1>3 DEF LinesRemembered

LEMMA MemoryInit == Init => MemoryInv
<1> SUFFICES ASSUME NEW s \in Starts, InitWith(s) PROVE MemoryInv
  BY DEF Init
<1>1. /\ today = s.today /\ booted = s.today /\ up
      /\ memory = s.rows /\ stored = s.rows /\ storing = {}
      /\ queued = {} /\ said = <<>> /\ echoed = {}
      /\ asked = s.asked /\ \A c \in asked : call[c].pc = "unborn"
  BY DEF InitWith, Unborn
<1>2. today \in Nat \ {0}
  BY <1>1, StartsAssumption
<1>3. ASSUME NEW t \in memory
      PROVE  Proper(t)
  <2>1. PICK m \in Messages : t = Turn(Said(m), DayOf[m]) /\ DayOf[m] <= s.today
    BY <1>1, <1>3, StartsAssumption
  <2>2. t.id = <<"said", m>> /\ t.day = DayOf[m] /\ t.day \in Nat \ {0} /\ t.day <= today
    BY <2>1, <1>1, MessagesAssumption DEF Turn, Said
  <2>3. \A n \in Messages : t.id \in {Said(n), Reply(n)} => n = m
    BY <2>2 DEF Said, Reply
  <2>4. \A line \in Lines : t.id \notin {line, Echo(line)}
    BY <2>2 DEF Lines, Reply, Ack, Echo
  <2> QED
    BY <2>2, <2>3, <2>4 DEF Proper
<1>4. TurnsProper
  BY <1>1, <1>2, <1>3 DEF TurnsProper
<1>5. DownIsEmpty /\ AnswersKnown /\ EchoesKnown /\ StoredKnown
  BY <1>1 DEF DownIsEmpty, AnswersKnown, EchoesKnown, StoredKnown
<1>6. MessagesKnown
  BY <1>1 DEF MessagesKnown, InHand, Deciding
<1> QED
  BY <1>4, <1>5, <1>6 DEF MemoryInv

LEMMA KeepRemains ==
    ASSUME TurnsProper, NEW t, t.day \in Nat, Keep(t)
    PROVE  /\ Remains /\ Known(t.id)'
           /\ memory' \subseteq memory \cup {t} /\ storing' \subseteq storing \cup {t}
<1>1. \A x \in memory : x.day \in Nat
  BY DEF TurnsProper, Proper
<1>2. CASE Known(t.id)
  BY <1>2 DEF Keep, Known, Remains, NotTooOld
<1>3. CASE ~Known(t.id)
  <2>1. /\ memory' = {x \in memory \cup {t} : x.day + 1 >= t.day}
        /\ storing' = storing \cup {t}
    BY <1>3 DEF Keep
  <2>2. t \in memory'
    BY <2>1
  <2>3. ASSUME NEW day \in Nat, NotTooOld(day)'
        PROVE  NotTooOld(day)
    <3>1. t.day <= day + 1
      BY <2>2, <2>3 DEF NotTooOld
    <3>2. ASSUME NEW x \in memory
          PROVE  x.day <= day + 1
      <4>1. CASE x \in memory'
        BY <4>1, <2>3 DEF NotTooOld
      <4>2. CASE x \notin memory'
        BY <4>2, <2>1, <3>1, <1>1
      <4> QED
        BY <4>1, <4>2
    <3> QED
      BY <3>2 DEF NotTooOld
  <2>4. ASSUME NEW x \in memory, NotTooOld(x.day)'
        PROVE  x \in memory'
    <3>1. t.day <= x.day + 1
      BY <2>2, <2>4 DEF NotTooOld
    <3> QED
      BY <3>1, <2>1, <1>1
  <2> QED
    BY <2>1, <2>2, <2>3, <2>4 DEF Remains, Known
<1> QED
  BY <1>2, <1>3

LEMMA StillRemains == UNCHANGED <<memory, storing>> => Remains
  BY DEF Remains, NotTooOld

(* One step of a task that keeps its memory: what it newly says, hears or  *)
(* takes in hand, it knows.                                                *)
LEMMA MemoryHolds ==
    ASSUME MemoryInv, ChatTypes, Remains,
           UNCHANGED <<asked, up, booted, missed>>,
           today' \in Nat, today <= today', queued \subseteq queued',
           \A t \in memory' \cup storing' : t \in memory \cup storing \/ Proper(t)',
           \A t \in stored' : t \in stored \cup storing \/ Seeded(t),
           said' = said \/ \E c \in asked : said' = Append(said, c) /\ Known(Reply(c[1]))',
           echoed' \subseteq Lines,
           \A line \in echoed' : line \in echoed \/ Known(line)' \/ Known(Echo(line))',
           \A c \in asked :
             /\ InHand(c)' => InHand(c) \/ TakenIn(c)
             /\ call'[c].pc \in Deciding => call[c].pc \in Deciding \/ Shape[c[1]] # "wordless",
           ~up => /\ UNCHANGED <<memory, storing, said, echoed>>
                  /\ \A c \in asked : ~InHand(c)'
    PROVE  MemoryInv'
<1>1. \A t : Proper(t) => Proper(t)'
  BY DEF MemoryInv, TurnsProper, Proper
<1>2. TurnsProper'
  <2>1. today' \in Nat \ {0}
    BY DEF MemoryInv, TurnsProper
  <2>2. \A t \in memory' \cup storing' : Proper(t)'
    BY <1>1 DEF MemoryInv, TurnsProper
  <2>3. \A t \in stored' : Seeded(t) \/ Proper(t)'
    BY <1>1 DEF MemoryInv, TurnsProper
  <2> QED
    BY <2>1, <2>2, <2>3 DEF TurnsProper, Seeded
<1>3. \A t \in memory : NotTooOld(t.day)' => t \in memory'
  BY DEF Remains
<1>4. ASSUME NEW m \in Messages, NEW id \in {Said(m), Reply(m)}, NotTooOld(DayOf[m])',
             NotTooOld(DayOf[m]) => Known(id)
      PROVE  Known(id)'
  <2>1. NotTooOld(DayOf[m])
    BY <1>4, MessagesAssumption DEF Remains
  <2>2. PICK t \in memory : t.id = id
    BY <2>1, <1>4 DEF Known
  <2>3. t.day = DayOf[m]
    BY <2>2 DEF MemoryInv, TurnsProper, Proper
  <2> QED
    BY <2>2, <2>3, <1>3, <1>4 DEF Known
<1>5. \A c \in asked : c[1] \in Messages
  BY DEF ChatTypes
<1>6. AnswersKnown'
  <2> SUFFICES ASSUME NEW i \in 1..Len(said'), NEW c \in asked, c = said'[i], NotTooOld(DayOf[c[1]])'
               PROVE  Known(Reply(c[1]))'
    <3>1. \A j \in 1..Len(said') : said'[j] \in asked
      <4>1. \A d \in asked : Append(said, d) \in Seq(asked)
        BY DEF ChatTypes
      <4>2. said' \in Seq(asked)
        BY <4>1 DEF ChatTypes
      <4> QED
        BY <4>2
    <3>2. SUFFICES ASSUME NEW i \in 1..Len(said'), NotTooOld(DayOf[said[i][1]])'
                   PROVE  Known(Reply(said[i][1]))'
      BY DEF AnswersKnown
    <3>3. PICK d \in asked : d = said'[i]
      BY <3>1
    <3>4. NotTooOld(DayOf[d[1]])'
      BY <3>2, <3>3 DEF NotTooOld
    <3>5. Known(Reply(d[1]))'
      BY <3>3, <3>4
    <3> QED
      BY <3>3, <3>5 DEF Known, Reply
  <2>1. ASSUME i \in 1..Len(said), c = said[i]
        PROVE  Known(Reply(c[1]))'
    BY <2>1, <1>4, <1>5 DEF MemoryInv, AnswersKnown
  <2>2. CASE said' = said
    BY <2>1, <2>2
  <2>3. ASSUME NEW d \in asked, said' = Append(said, d), Known(Reply(d[1]))'
        PROVE  Known(Reply(c[1]))'
    <3>1. /\ Len(said) \in Nat /\ Len(said') = Len(said) + 1
          /\ said'[Len(said) + 1] = d
          /\ \A j \in 1..Len(said) : said'[j] = said[j]
      BY <2>3 DEF ChatTypes
    <3>2. CASE i = Len(said) + 1
      <4>1. c = d
        BY <3>1, <3>2
      <4> QED
        BY <4>1, <2>3
    <3>3. CASE i # Len(said) + 1
      BY <3>1, <3>3, <2>1
    <3> QED
      BY <3>2, <3>3
  <2> QED
    BY <2>2, <2>3
<1>7. EchoesKnown'
  <2> SUFFICES ASSUME NEW line \in echoed, NotTooOld(1)'
               PROVE  Known(line)' \/ Known(Echo(line))'
    BY DEF EchoesKnown
  <2>1. NotTooOld(1)
    BY DEF Remains
  <2>2. PICK t \in memory : t.id \in {line, Echo(line)}
    BY <2>1 DEF MemoryInv, EchoesKnown, Known
  <2>3. t.day \in Nat \ {0}
    BY DEF MemoryInv, TurnsProper, Proper
  <2>4. \A x \in memory' : x.day \in Nat
    BY <1>2 DEF TurnsProper, Proper
  <2>5. NotTooOld(t.day)'
    BY <2>3, <2>4 DEF NotTooOld
  <2> QED
    BY <2>2, <2>5, <1>3 DEF Known
<1>8. MessagesKnown'
  <2> SUFFICES ASSUME NEW c \in asked
               PROVE  /\ InHand(c)' => DayOf[c[1]] <= today'
                      /\ InHand(c)' /\ Shape[c[1]] # "wordless" /\ NotTooOld(DayOf[c[1]])' => Known(Said(c[1]))'
                      /\ call'[c].pc \in Deciding => Shape[c[1]] # "wordless"
    BY DEF MessagesKnown, InHand
  <2>1. DayOf[c[1]] \in Nat /\ today \in Nat
    BY <1>5, MessagesAssumption DEF MemoryInv, TurnsProper
  <2>2. InHand(c)' => DayOf[c[1]] <= today
    BY DEF MemoryInv, MessagesKnown, TakenIn
  <2>3. ASSUME InHand(c)', Shape[c[1]] # "wordless", NotTooOld(DayOf[c[1]])'
        PROVE  Known(Said(c[1]))'
    BY <2>3, <1>4, <1>5 DEF MemoryInv, MessagesKnown, TakenIn
  <2> QED
    BY <2>1, <2>2, <2>3 DEF MemoryInv, MessagesKnown
<1>9. StoredKnown'
  <2> SUFFICES ASSUME up, booted # None, NEW t \in (stored' \cup storing') \ missed,
                      ~Seeded(t), t.day >= booted, NotTooOld(t.day)'
               PROVE  t \in memory'
    BY DEF StoredKnown, Seeded
  <2>1. CASE t \in stored \cup storing
    <3>1. t.day \in Nat
      BY <2>1 DEF MemoryInv, TurnsProper, Proper
    <3>2. NotTooOld(t.day)
      BY <3>1 DEF Remains
    <3> QED
      BY <2>1, <3>2, <1>3 DEF MemoryInv, StoredKnown
  <2>2. CASE t \notin stored \cup storing
    BY <2>2 DEF Remains
  <2> QED
    BY <2>1, <2>2
<1>10. DownIsEmpty'
  BY DEF MemoryInv, DownIsEmpty, InHand
<1> QED
  BY <1>2, <1>6, <1>7, <1>8, <1>9, <1>10 DEF MemoryInv

(* One handler moves, and may keep a turn.                                 *)
LEMMA HandlerKeeps ==
    ASSUME MemoryInv, ChatTypes, NEW c \in asked, NEW r, Become(c, r), up, Remains,
           \A t \in memory' \cup storing' : t \in memory \cup storing \/ Proper(t)',
           queued \subseteq queued',
           said' = said \/ (said' = Append(said, c) /\ Known(Reply(c[1]))'),
           r.pc \notin {"unborn", "done"} => InHand(c) \/ TakenIn(c),
           r.pc \in Deciding => call[c].pc \in Deciding \/ Shape[c[1]] # "wordless",
           UNCHANGED <<asked, today, up, booted, missed, stored, echoed>>
    PROVE  MemoryInv'
<1>1. call'[c] = r /\ \A d \in asked : d # c => call'[d] = call[d]
  BY DEF ChatTypes, Become
<1>2. \A d \in asked :
        /\ InHand(d)' => InHand(d) \/ TakenIn(d)
        /\ call'[d].pc \in Deciding => call[d].pc \in Deciding \/ Shape[d[1]] # "wordless"
  BY <1>1 DEF InHand
<1>3. today \in Nat
  BY DEF MemoryInv, TurnsProper
<1>4. echoed' \subseteq Lines
  BY DEF MemoryInv, EchoesKnown
<1> QED
  BY <1>2, <1>3, <1>4, MemoryHolds

LEMMA HandlerMoves ==
    ASSUME MemoryInv, ChatTypes, NEW c \in asked, NEW r, Become(c, r), InHand(c),
           r.pc \in Deciding => call[c].pc \in Deciding \/ Shape[c[1]] # "wordless",
           UNCHANGED <<asked, today, up, log, history>>
    PROVE  MemoryInv'
<1>1. up
  BY DEF MemoryInv, DownIsEmpty
<1>2. UNCHANGED <<memory, storing, stored, booted, missed, queued, said, echoed>>
  BY DEF log, history, load
<1>3. Remains
  BY <1>2, StillRemains
<1>4. /\ \A t \in memory' \cup storing' : t \in memory \cup storing \/ Proper(t)'
      /\ queued \subseteq queued' /\ said' = said
  BY <1>2
<1> QED
  BY <1>1, <1>2, <1>3, <1>4, HandlerKeeps

(* A message that is kept is a proper turn.                                *)
LEMMA MessageIsProper ==
    ASSUME today \in Nat, NEW m \in Messages, DayOf[m] <= today
    PROVE  Proper(Turn(Said(m), DayOf[m]))
<1>1. DayOf[m] \in Nat \ {0}
  BY MessagesAssumption
<1>2. \A line \in Lines : Said(m) \notin {line, Echo(line)}
  BY DEF Lines, Said, Reply, Ack, Echo
<1>3. \A k \in Messages : Said(m) \in {Said(k), Reply(k)} => k = m
  BY DEF Said, Reply
<1> QED
  BY <1>1, <1>2, <1>3 DEF Proper, Turn

LEMMA DeliverRemembers ==
    ASSUME MemoryInv, ChatTypes, NEW c \in asked, Deliver(c)
    PROVE  MemoryInv'
<1> DEFINE t == Turn(Said(c[1]), DayOf[c[1]])
<1>1. /\ c[1] \in Messages /\ DayOf[c[1]] \in Nat /\ DayOf[c[1]] <= today
      /\ t.day = DayOf[c[1]] /\ t.id = Said(c[1])
      /\ TurnsProper /\ today \in Nat
  BY MessagesAssumption DEF ChatTypes, Deliver, Turn, MemoryInv, TurnsProper
<1>2. /\ up /\ UNCHANGED <<asked, today, up, booted, missed, stored, echoed, queued, said>>
  BY DEF Deliver, history, load
<1>3. PICK r : /\ Become(c, r) /\ r.pc \notin Deciding
  BY DEF Deliver, Unborn, Deciding
<1>4. Proper(t)'
  <2>1. Proper(t)
    BY <1>1, MessageIsProper
  <2> QED
    BY <2>1, <1>2 DEF Proper, Turn, Said
<1>5. CASE Shape[c[1]] = "wordless"
  <2>1. UNCHANGED <<memory, storing>>
    BY <1>5 DEF Deliver
  <2> QED
    BY <2>1, <1>1, <1>2, <1>3, <1>5, StillRemains, HandlerKeeps DEF TakenIn
<1>6. CASE Shape[c[1]] # "wordless"
  <2>1. Keep(t)
    BY <1>6 DEF Deliver
  <2> HIDE DEF t
  <2>2. /\ Remains /\ Known(Said(c[1]))'
        /\ memory' \subseteq memory \cup {t} /\ storing' \subseteq storing \cup {t}
    BY <2>1, <1>1, KeepRemains
  <2> QED
    BY <2>2, <1>1, <1>2, <1>3, <1>4, HandlerKeeps DEF TakenIn
<1> QED
  BY <1>5, <1>6

(* An acknowledgement is kept, of which the queue knows.                   *)
LEMMA AckRemembers ==
    ASSUME MemoryInv, ChatTypes, NEW c \in asked, InHand(c), NEW r, Become(c, r), r.pc \notin Deciding,
           Keep(Turn(Ack(c[1]), today)), queued' = queued \cup {Ack(c[1])},
           UNCHANGED <<asked, today, up, booted, missed, stored, echoed, said>>
    PROVE  MemoryInv'
<1>1. PICK t : t = Turn(Ack(c[1]), today)
  OBVIOUS
<1>2. /\ TurnsProper /\ today \in Nat \ {0} /\ t.day = today /\ t.id = Ack(c[1]) /\ up
  BY <1>1 DEF MemoryInv, TurnsProper, Turn, DownIsEmpty
<1>3. /\ Remains
      /\ memory' \subseteq memory \cup {t} /\ storing' \subseteq storing \cup {t}
  BY <1>1, <1>2, KeepRemains
<1>4. Proper(t)'
  <2>1. \A m \in Messages : t.id \notin {Said(m), Reply(m)}
    BY <1>2 DEF Ack, Said, Reply
  <2>2. \A line \in Lines : t.id \in {line, Echo(line)} => line = Ack(c[1])
    BY <1>2 DEF Ack, Echo, Lines, Reply
  <2> QED
    BY <1>2, <2>1, <2>2 DEF Proper
<1> QED
  BY <1>2, <1>3, <1>4, HandlerKeeps

LEMMA IngestRemembers ==
    ASSUME MemoryInv, ChatTypes, NEW c \in asked, Ingest(c)
    PROVE  MemoryInv'
<1>1. /\ InHand(c) /\ UNCHANGED <<asked, today, up, booted, missed, stored, echoed, said>>
  BY DEF Ingest, InHand, load
<1>2. up
  BY <1>1 DEF MemoryInv, DownIsEmpty
<1>3. PICK r : Become(c, r) /\ r.pc = "turn"
  <2>1. call[c].pc = "ingest" /\ call[c] \in Handlers
    BY DEF Ingest, ChatTypes
  <2>2. /\ [call[c] EXCEPT !.pc = "turn"].pc = "turn"
        /\ [[call[c] EXCEPT !.acked = TRUE] EXCEPT !.pc = "turn"].pc = "turn"
    BY <2>1 DEF Handlers
  <2> QED
    BY <2>2 DEF Ingest, WaitInTurn
<1>4. r.pc \notin Deciding
  BY <1>3 DEF Deciding
<1>5. CASE UNCHANGED <<memory, storing, queued>>
  BY <1>1, <1>2, <1>3, <1>4, <1>5, StillRemains, HandlerKeeps
<1>6. CASE Keep(Turn(Ack(c[1]), today)) /\ queued' = queued \cup {Ack(c[1])}
  BY <1>1, <1>3, <1>4, <1>6, AckRemembers
<1> QED
  BY <1>5, <1>6 DEF Ingest

(* A call that is never answered took effect or did not.                   *)
LEMMA HangRemembers ==
    ASSUME MemoryInv, ChatTypes, NEW c \in asked, Hang(c)
    PROVE  MemoryInv'
<1> DEFINE r == [call[c] EXCEPT !.pc = "hung"]
<1>1. /\ InHand(c) /\ Become(c, r)
      /\ UNCHANGED <<asked, today, up, booted, missed, stored, echoed, said>>
  BY DEF Hang, Awaiting, InHand, load
<1>2. up /\ r.pc \notin Deciding
  BY <1>1 DEF MemoryInv, DownIsEmpty, ChatTypes, Handlers, Deciding
<1> HIDE DEF r
<1>3. CASE UNCHANGED <<memory, storing>> /\ queued \subseteq queued'
  BY <1>1, <1>2, <1>3, StillRemains, HandlerKeeps
<1>4. CASE Keep(Turn(Ack(c[1]), today)) /\ queued' = queued \cup {Ack(c[1])}
  BY <1>1, <1>2, <1>4, AckRemembers
<1> QED
  BY <1>3, <1>4 DEF Hang, Effect

LEMMA OfferRemembers ==
    ASSUME MemoryInv, ChatTypes, NEW c \in asked, Offer(c)
    PROVE  MemoryInv'
<1>1. InHand(c) /\ call[c] \in Handlers
  BY DEF Offer, InHand, ChatTypes
<1>2. PICK r : Become(c, r) /\ (r.pc \in Deciding => Shape[c[1]] # "wordless")
  <2>1. [call[c] EXCEPT !.pc = "done"].pc \notin Deciding
    BY <1>1 DEF Handlers, Deciding
  <2>2. CASE Leave(c)
    BY <2>1, <2>2 DEF Leave
  <2>3. CASE ~Leave(c)
    <3>1. Shape[c[1]] # "wordless"
      BY <2>3 DEF Offer, Ambient
    <3> QED
      BY <3>1, <2>3 DEF Offer
  <2> QED
    BY <2>2, <2>3
<1>3. UNCHANGED <<asked, today, up, log, history>>
  BY DEF Offer
<1> QED
  BY <1>1, <1>2, <1>3, HandlerMoves

LEMMA LeaveRemembers ==
    ASSUME MemoryInv, ChatTypes, NEW c \in asked, InHand(c), Leave(c) \/ Throw(c),
           UNCHANGED <<asked, today, up, log, history>>
    PROVE  MemoryInv'
<1>1. Become(c, [call[c] EXCEPT !.pc = "done"])
  BY DEF Leave, Throw
<1>2. [call[c] EXCEPT !.pc = "done"].pc \notin Deciding
  BY DEF ChatTypes, Handlers, Deciding
<1> QED
  BY <1>1, <1>2, HandlerMoves

(* What a handler in the section decides concerns a message that holds     *)
(* words.                                                                  *)
LEMMA DecidingRemembers ==
    ASSUME MemoryInv, ChatTypes, NEW c \in asked, call[c].pc \in Deciding,
           NEW r, Become(c, r), UNCHANGED <<asked, today, up, log, history>>
    PROVE  MemoryInv'
<1>1. InHand(c)
  BY DEF InHand, Deciding
<1> QED
  BY <1>1, HandlerMoves

LEMMA QueueRemembers ==
    ASSUME MemoryInv, ChatTypes, NEW c \in asked, Queue(c)
    PROVE  MemoryInv'
<1>1. /\ call[c].pc \in Deciding /\ InHand(c) /\ c[1] \in Messages /\ TurnsProper
      /\ UNCHANGED <<asked, today, up, booted, missed, stored, echoed>>
  BY DEF Queue, Deciding, InHand, ChatTypes, MemoryInv, load
<1>2. up
  BY <1>1 DEF MemoryInv, DownIsEmpty
<1>3. PICK r : Become(c, r) /\ (r.pc \in Deciding => call[c].pc \in Deciding)
  BY <1>1 DEF Queue, Leave
<1>4. CASE Leave(c) /\ WhenRefused(c) /\ UNCHANGED said /\ queued \subseteq queued'
  BY <1>4, <1>1, <1>2, <1>3, StillRemains, HandlerKeeps DEF WhenRefused
<1>5. ASSUME NEW id \in {Reply(c[1]), <<"react", c[1]>>}, Keep(Turn(id, DayOf[c[1]])),
             queued \subseteq queued',
             id = Reply(c[1]) => id \in queued',
             said' = said \/ (said' = Append(said, c) /\ id = Reply(c[1]))
      PROVE  MemoryInv'
  <2>1. PICK t : t = Turn(id, DayOf[c[1]])
    OBVIOUS
  <2>2. t.id = id /\ t.day = DayOf[c[1]] /\ t.day \in Nat
    BY <2>1, <1>1, MessagesAssumption DEF Turn
  <2>3. /\ Remains /\ Known(id)'
        /\ memory' \subseteq memory \cup {t} /\ storing' \subseteq storing \cup {t}
    BY <2>1, <2>2, <1>1, <1>5, KeepRemains
  <2>4. /\ t.day \in Nat \ {0} /\ t.day <= today'
        /\ \A m \in Messages : t.id \in {Said(m), Reply(m)} => t.day = DayOf[m]
        /\ \A line \in Lines : t.id \in {line, Echo(line)} => line \in queued'
    <3>1. t.day <= today'
      BY <1>1, <2>2 DEF MemoryInv, MessagesKnown
    <3>2. t.day \in Nat \ {0}
      BY <1>1, <2>2, MessagesAssumption
    <3>3. ASSUME NEW m \in Messages, t.id \in {Said(m), Reply(m)}
          PROVE  t.day = DayOf[m]
      BY <2>2, <3>3 DEF Said, Reply
    <3>4. ASSUME NEW line \in Lines, t.id \in {line, Echo(line)}
          PROVE  line \in queued'
      <4>1. t.id = line /\ id = Reply(c[1])
        BY <2>2, <3>4 DEF Lines, Echo, Reply, Ack
      <4> QED
        BY <4>1, <2>2, <1>5
    <3> QED
      BY <3>1, <3>2, <3>3, <3>4
  <2>5. Proper(t)'
    BY <2>4 DEF Proper
  <2>6. said' = said \/ (said' = Append(said, c) /\ Known(Reply(c[1]))')
    BY <1>5, <2>3
  <2> QED
    BY <2>3, <2>5, <2>6, <1>1, <1>2, <1>3, <1>5, HandlerKeeps
<1>6. CASE call[c].outcome = "reply" /\ Accepted(c) /\ Keep(Turn(Reply(c[1]), DayOf[c[1]]))
  BY <1>5, <1>6 DEF Accepted
<1>7. CASE Refused /\ Keep(Turn(<<"react", c[1]>>, DayOf[c[1]]))
  <2>1. <<"react", c[1]>> # Reply(c[1])
    BY DEF Reply
  <2> QED
    BY <1>5, <1>7, <2>1 DEF Refused
<1> QED
  BY <1>4, <1>6, <1>7 DEF Queue

LEMMA HandleRemembers == MemoryInv /\ ChatTypes /\ Handle => MemoryInv'
<1> SUFFICES ASSUME MemoryInv, ChatTypes, NEW c \in asked,
                    \/ Deliver(c) \/ Kept(c) \/ Ingest(c)
                    \/ Offer(c) \/ Charge(c) \/ Round(c) \/ Queue(c) \/ Close(c)
             PROVE  MemoryInv'
  BY DEF Handle
<1>1. CASE Kept(c)
  <2>1. InHand(c) /\ [call[c] EXCEPT !.pc = "ingest"].pc \notin Deciding
    BY <1>1 DEF Kept, InHand, ChatTypes, Handlers, Deciding
  <2> QED
    BY <1>1, <2>1, HandlerMoves DEF Kept
<1>2. CASE Charge(c)
  <2>1. call[c].pc \in Deciding /\ InHand(c)
    BY <1>2 DEF Charge, Deciding, InHand
  <2>2. UNCHANGED <<asked, today, up, log, history>> /\ \E r : Become(c, r)
    BY <1>2 DEF Charge, Leave, TakeThrows, Throw
  <2> QED
    BY <2>1, <2>2, DecidingRemembers
<1>3. CASE Round(c)
  <2>1. call[c].pc \in Deciding /\ InHand(c)
    BY <1>3 DEF Round, Deciding, InHand
  <2>2. UNCHANGED <<asked, today, up, log, history>> /\ \E r : Become(c, r)
    BY <1>3 DEF Round, Answered, Leave, TakeThrows, Throw
  <2> QED
    BY <2>1, <2>2, DecidingRemembers
<1>4. CASE Close(c)
  BY <1>4, LeaveRemembers DEF Close, InHand
<1> QED
  BY <1>1, <1>2, <1>3, <1>4, DeliverRemembers, IngestRemembers, OfferRemembers, QueueRemembers

LEMMA EchoRemembers ==
    ASSUME MemoryInv, ChatTypes, NEW line \in Lines, ComesBack(line)
    PROVE  MemoryInv'
<1>1. /\ up /\ line \in queued /\ echoed' = echoed \cup {line}
      /\ UNCHANGED <<asked, today, up, booted, missed, stored, queued, said, call>>
      /\ TurnsProper /\ today \in Nat \ {0}
  BY DEF ComesBack, MemoryInv, TurnsProper, load
<1>2. PICK t : t = Turn(Echo(line), today)
  OBVIOUS
<1>3. t.id = Echo(line) /\ t.day = today
  BY <1>2 DEF Turn
<1>4. Proper(t)'
  <2>1. \A m \in Messages : t.id \notin {Said(m), Reply(m)}
    BY <1>3 DEF Said, Reply, Echo
  <2>2. \A other \in Lines : t.id \in {other, Echo(other)} => other = line
    BY <1>3 DEF Lines, Echo, Reply, Ack
  <2> QED
    BY <1>1, <1>3, <2>1, <2>2 DEF Proper
<1>5. /\ Remains
      /\ Known(line)' \/ Known(Echo(line))'
      /\ memory' \subseteq memory \cup {t} /\ storing' \subseteq storing \cup {t}
  <2>1. CASE Heard(line, today)
    <3>1. UNCHANGED <<memory, storing>>
      BY <2>1 DEF ComesBack
    <3>2. Known(line) \/ Known(Echo(line))
      <4>1. Turn(line, today).id = line /\ Turn(Echo(line), today).id = Echo(line)
        BY DEF Turn
      <4> QED
        BY <2>1, <4>1 DEF Heard, Known
    <3> QED
      BY <3>1, <3>2, StillRemains DEF Known
  <2>2. CASE ~Heard(line, today)
    <3>1. Keep(t)
      BY <2>2, <1>2 DEF ComesBack
    <3> QED
      BY <3>1, <1>1, <1>3, KeepRemains
  <2> QED
    BY <2>1, <2>2
<1>6. \A c \in asked : InHand(c)' = InHand(c) /\ call'[c] = call[c]
  BY <1>1 DEF InHand
<1>7. \A other \in echoed' : other \in echoed \/ Known(other)' \/ Known(Echo(other))'
  BY <1>1, <1>5
<1>8. echoed' \subseteq Lines
  BY <1>1 DEF MemoryInv, EchoesKnown
<1> QED
  BY <1>1, <1>4, <1>5, <1>6, <1>7, <1>8, MemoryHolds

(* The writes and the jobs of others change the table alone.               *)
LEMMA TableRemembers ==
    ASSUME MemoryInv, ChatTypes, UNCHANGED <<asked, up, booted, missed, memory, queued, said, echoed, call>>,
           today' \in Nat, today <= today', storing' \subseteq storing,
           \A t \in stored' : t \in stored \cup storing \/ Seeded(t)
    PROVE  MemoryInv'
<1>1. Remains
  BY DEF Remains, NotTooOld
<1>2. ~up => storing' = storing
  BY DEF MemoryInv, DownIsEmpty
<1>3. \A c \in asked : InHand(c)' = InHand(c) /\ call'[c] = call[c]
  BY DEF InHand
<1>4. ~up => \A c \in asked : ~InHand(c)'
  BY <1>3 DEF MemoryInv, DownIsEmpty
<1>5. echoed' \subseteq Lines
  BY DEF MemoryInv, EchoesKnown
<1> QED
  BY <1>1, <1>2, <1>3, <1>4, <1>5, MemoryHolds

(* A write under way landed or did not; the rest of the task is gone.      *)
LEMMA CrashRemembers == MemoryInv /\ ChatTypes /\ Crash => MemoryInv'
<1> SUFFICES ASSUME MemoryInv, ChatTypes, Crash PROVE MemoryInv'
  OBVIOUS
<1>1. /\ up' = FALSE /\ memory' = {} /\ storing' = {} /\ said' = <<>> /\ echoed' = {}
      /\ UNCHANGED <<asked, today, queued>>
      /\ stored' \subseteq stored \cup storing
  BY DEF Crash
<1>2. \A c \in asked : call'[c].pc \in {"unborn", "done"}
  BY DEF Crash, Unborn
<1>3. TurnsProper'
  <2>1. \A t : Proper(t) => Proper(t)'
    BY <1>1 DEF Proper
  <2> QED
    BY <2>1, <1>1 DEF MemoryInv, TurnsProper, Seeded
<1>4. DownIsEmpty' /\ StoredKnown'
  BY <1>1, <1>2 DEF DownIsEmpty, StoredKnown, InHand
<1>5. AnswersKnown' /\ EchoesKnown'
  BY <1>1 DEF AnswersKnown, EchoesKnown
<1>6. MessagesKnown'
  BY <1>1, <1>2 DEF MessagesKnown, InHand, Deciding
<1> QED
  BY <1>3, <1>4, <1>5, <1>6 DEF MemoryInv

(* Nothing that was said is of a later day than the one the task boots in. *)
LEMMA BootRemembers == MemoryInv /\ ChatTypes /\ Boot => MemoryInv'
<1> SUFFICES ASSUME MemoryInv, ChatTypes, Boot PROVE MemoryInv'
  OBVIOUS
<1>1. /\ ~up /\ up' = TRUE /\ memory' \subseteq RowsToday
      /\ booted' \in {today, None} /\ missed' = RowsToday \ memory'
      /\ UNCHANGED <<asked, today, stored, storing, call, queued, said, echoed>>
  BY DEF Boot, Reloaded
<1>2. storing = {} /\ said = <<>> /\ echoed = {} /\ \A c \in asked : ~InHand(c)
  BY <1>1 DEF MemoryInv, DownIsEmpty
<1>3. \A t : Proper(t) => Proper(t)'
  BY <1>1 DEF Proper
<1>4. ASSUME NEW t \in RowsToday
      PROVE  Proper(t)
  <2>1. t \in stored /\ t.day = today /\ today \in Nat \ {0}
    BY <1>4 DEF RowsToday, MemoryInv, TurnsProper
  <2>2. CASE Seeded(t)
    <3>1. \A m \in Messages : t.id \notin {Said(m), Reply(m)}
      BY <2>2 DEF Seeded, Said, Reply
    <3>2. \A line \in Lines : t.id \notin {line, Echo(line)}
      BY <2>2 DEF Seeded, Lines, Reply, Ack, Echo
    <3> QED
      BY <2>1, <3>1, <3>2 DEF Proper
  <2>3. CASE ~Seeded(t)
    BY <2>1, <2>3 DEF MemoryInv, TurnsProper
  <2> QED
    BY <2>2, <2>3
<1>5. TurnsProper'
  BY <1>1, <1>2, <1>3, <1>4 DEF MemoryInv, TurnsProper, Seeded
<1>6. AnswersKnown' /\ EchoesKnown' /\ DownIsEmpty'
  BY <1>1, <1>2 DEF AnswersKnown, EchoesKnown, DownIsEmpty
<1>7. MessagesKnown'
  BY <1>1, <1>2 DEF MessagesKnown, InHand, Deciding
<1>8. StoredKnown'
  <2> SUFFICES ASSUME booted' = today, NEW t \in stored, t \notin missed', ~Seeded(t), t.day >= today
               PROVE  t \in memory'
    BY <1>1, <1>2 DEF StoredKnown, Seeded
  <2>1. t.day \in Nat /\ t.day <= today /\ today \in Nat
    BY DEF MemoryInv, TurnsProper, Proper
  <2> QED
    BY <1>1, <2>1 DEF RowsToday
<1> QED
  BY <1>5, <1>6, <1>7, <1>8 DEF MemoryInv

LEMMA WorkRemembers == MemoryInv /\ ChatTypes /\ Work => MemoryInv'
<1> SUFFICES ASSUME MemoryInv, ChatTypes, Work PROVE MemoryInv'
  OBVIOUS
<1>1. UNCHANGED <<asked, up, booted, missed, memory, queued, said, echoed, call, today, storing>>
  BY DEF Work, FoldStart, FoldPut, ForgetStart, ForgetPut, SeedStart, SeedPut, SeedRow,
     ReadDiary, Others, history, load
<1>2. \A t \in stored' : t \in stored \/ Seeded(t)
  <2>1. CASE stored' = stored
    BY <2>1
  <2>2. CASE stored' # stored
    <3>1. PICK m : stored' \subseteq stored \cup {Turn(<<"seed", m>>, DayOf[m])}
      BY <2>2 DEF Work, FoldStart, FoldPut, ForgetStart, ForgetPut, SeedStart, SeedPut, SeedRow, ReadDiary
    <3>2. Seeded(Turn(<<"seed", m>>, DayOf[m]))
      BY DEF Seeded, Turn
    <3> QED
      BY <3>1, <3>2
  <2> QED
    BY <2>1, <2>2
<1>3. today' \in Nat /\ today <= today'
  BY <1>1 DEF MemoryInv, TurnsProper
<1> QED
  BY <1>1, <1>2, <1>3, TableRemembers

LEMMA MemoryStep == MemoryInv /\ ChatInv /\ [BothNext]_<<vars, diaryVars>> => MemoryInv'
<1> SUFFICES ASSUME MemoryInv, ChatTypes, [BothNext]_<<vars, diaryVars>> PROVE MemoryInv'
  BY DEF ChatInv
<1>1. today \in Nat
  BY DEF MemoryInv, TurnsProper
<1>2. CASE Land
  <2>1. UNCHANGED <<asked, up, booted, missed, memory, queued, said, echoed, call, today>>
    BY <1>2 DEF Land, history, load
  <2>2. storing' \subseteq storing /\ stored' \subseteq stored \cup storing
    BY <1>2 DEF Land
  <2> QED
    BY <2>1, <2>2, <1>1, TableRemembers
<1>3. CASE Flip
  <2>1. UNCHANGED <<asked, up, booted, missed, memory, queued, said, echoed, call, storing, stored>>
    BY <1>3 DEF Flip, history, load, log
  <2>2. today' = today + 1
    BY <1>3 DEF Flip
  <2> QED
    BY <2>1, <2>2, <1>1, TableRemembers
<1>4. CASE UNCHANGED <<vars, diaryVars>>
  <2>1. UNCHANGED <<asked, up, booted, missed, memory, queued, said, echoed, call, storing, stored, today>>
    BY <1>4 DEF vars, history, load, log
  <2> QED
    BY <2>1, <1>1, TableRemembers
<1> QED
  BY <1>2, <1>3, <1>4, HandleRemembers, EchoRemembers, CrashRemembers, BootRemembers, HangRemembers, WorkRemembers
     DEF BothNext, Next

(* Whatever fails, crashes or comes late, the bot's copy of the day makes  *)
(* up no line, holds every answer the task knows to be queued, every line  *)
(* that came back and every message it is answering, and after a restart   *)
(* all that is stored since the day it began in but the rows the load was  *)
(* not shown: memory before the table, nothing kept of an answer before    *)
(* the queue has it (main.ts, dayLog.ts append, load and appendUnlessSaid). *)
THEOREM NothingSaidIsForgotten == Spec => []LinesRemembered
<1>1. Init => ChatInv /\ MemoryInv
  BY ChatInit, MemoryInit
<1>2. ChatInv /\ MemoryInv /\ [BothNext]_<<vars, diaryVars>> => (ChatInv /\ MemoryInv)'
  BY ChatStep, MemoryStep
<1> QED
  BY <1>1, <1>2, MemorySaysIt, PTL DEF Spec

=============================================================================
