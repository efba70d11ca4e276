-------------------------------- MODULE Diary -------------------------------
(***************************************************************************)
(* The diary of a group beside its conversation: the row the bot reads in  *)
(* every prompt, and the processes that rewrite it.  The nightly job folds *)
(* the day that is over (podiumJob.ts), the operator has a person          *)
(* forgotten (cli.ts) or seeds the diary from an export of the chat        *)
(* (diarySeed.ts).  Each reads the row, has the model write for a minute,  *)
(* and puts the row only if it is still the one it read (diary.ts).        *)
(*                                                                         *)
(* A version of the row is what the properties tell apart of a text: whom  *)
(* it names and which days are folded into it.  Two versions never carry   *)
(* the same stamp.  A read may be of any earlier version; what the model   *)
(* writes names nobody the diary and the turns it was shown do not.        *)
(***************************************************************************)
EXTENDS Chat, FiniteSetsExt

CONSTANT Sender   \* [Messages -> who sent it]; Starts also plan the jobs and the diary that stands

VARIABLES
    diary,   \* history: the versions of the row, the last one stands
    jobs     \* the processes, planned at the start

diaryVars == <<diary, jobs>>

Jobs == DOMAIN jobs

(* A planned job: a fold of a date, None for the day that is over; a       *)
(* forget of a person; a seed of a file of messages, from a day on or      *)
(* afresh.                                                                 *)
Fold(date) == [kind |-> "fold", date |-> date]
Forget(person) == [kind |-> "forget", who |-> person]
Seed(file, from, force) == [kind |-> "seed", file |-> file, from |-> from, force |-> force]

Job(plan, pc, i, day, left) ==
    [plan |-> plan, pc |-> pc, read |-> i, day |-> day, left |-> left]

InitDiary(s) ==
    /\ diary = IF s.standing = None THEN <<>> ELSE <<s.standing>>
    /\ jobs = [k \in DOMAIN s.jobs |-> Job(s.jobs[k], "planned", 0, 0, {})]

-----------------------------------------------------------------------------
(* The row                                                                 *)

NoDiary == [kind |-> "none", day |-> 0, names |-> {}, folded |-> {}, brought |-> {}]

Version(i) == IF i = 0 THEN NoDiary ELSE diary[i]

(* Mutant: the day alone is compared.                                      *)
Unmoved_DayOnly(i) == Version(i).day = Version(Len(diary)).day

(* The row is still the one that was read, by its day and its stamp.       *)
Unmoved(i) == i = Len(diary)

Became(k, pc, left) == Job(jobs[k].plan, pc, jobs[k].read, jobs[k].day, left)

Done(k) == Became(k, "done", {})

(* Refused when the row moved; thrown before or after it was written.      *)
Put(k, version, next) ==
    \/ /\ Unmoved(jobs[k].read)
       /\ diary' = Append(diary, version)
       /\ jobs' = [jobs EXCEPT ![k] = next] /\ UNCHANGED faults
    \/ /\ ~Unmoved(jobs[k].read)
       /\ UNCHANGED <<diary, faults>>
       /\ jobs' = [jobs EXCEPT ![k] = Done(k)]
    \/ /\ Fault
       /\ \/ UNCHANGED diary
          \/ Unmoved(jobs[k].read) /\ diary' = Append(diary, version)
       /\ jobs' = [jobs EXCEPT ![k] = Done(k)]

Ends(k) ==
    /\ jobs' = [jobs EXCEPT ![k] = Done(k)]
    /\ UNCHANGED <<diary, faults>>

-----------------------------------------------------------------------------
(* The jobs                                                                *)

Others == <<asked, today, up, memory, storing, exchange, turns, call, spent, history>>

Speakers(ids) == {Sender[id[2]] : id \in {x \in ids : x[1] \in {"said", "seed"}}}

RowsOf(day) == {t.id : t \in {x \in stored : x.day = day}}

(* A rewrite of a version with the days and the turns it is shown.         *)
Rewritten(kind, previous, days, last, speakers) ==
    {[kind |-> kind, day |-> last, names |-> names,
      folded |-> previous.folded \cup days, brought |-> speakers] :
        names \in SUBSET (previous.names \cup speakers)}

(* A job that reads version i, and then goes on or has nothing to do.  One  *)
(* whose read throws, or that finds no model, ends before it puts.         *)
ReadDiary(k, i, goesOn, day, left) ==
    /\ jobs[k].pc = "planned"
    /\ jobs' = [jobs EXCEPT ![k] = Job(jobs[k].plan, IF goesOn THEN "put" ELSE "done", i, day, left)]
    /\ UNCHANGED <<diary, faults, stored, Others>>

(* A day that is in the diary, or before one that is, is not folded.       *)
Foldable(i, day) == i = 0 \/ Version(i).day < day

FoldStart(k) ==
    LET p == jobs[k].plan
        day == IF p.date = None THEN today - 1 ELSE p.date
    IN  /\ p.kind = "fold"
        /\ \E i \in 0..Len(diary) :
            ReadDiary(k, i, Foldable(i, day), day, {})

(* An empty day, or a model that does not answer, leaves it as it was; the *)
(* rows are read from a replica that may lack some.                        *)
FoldPut(k) ==
    LET j == jobs[k]
    IN  /\ j.plan.kind = "fold" /\ j.pc = "put"
        /\ \/ Ends(k)
           \/ \E shown \in SUBSET RowsOf(j.day) \ {{}} :
                \E v \in Rewritten("fold", Version(j.read), {j.day}, j.day, Speakers(shown)) :
                    Put(k, v, Done(k))
        /\ UNCHANGED <<stored, Others>>

ForgetStart(k) ==
    /\ jobs[k].plan.kind = "forget"
    /\ \E i \in 0..Len(diary) :
        ReadDiary(k, i, jobs[k].plan.who \in Version(i).names, 0, {})

(* The same day under another stamp; nothing is put when the model fails   *)
(* or its text still names the person.                                     *)
ForgetPut(k) ==
    LET j == jobs[k]
        previous == Version(j.read)
    IN  /\ j.plan.kind = "forget" /\ j.pc = "put"
        /\ \/ Ends(k)
           \/ Put(k, [previous EXCEPT !.kind = "forget", !.names = @ \ {j.plan.who}, !.brought = {}], Done(k))
        /\ UNCHANGED <<stored, Others>>

DaysOf(p, day) == {d \in {DayOf[m] : m \in p.file} : d < day /\ (p.from # None => d >= p.from)}

(* Refused without --force when a diary stands.                            *)
SeedStart(k) ==
    LET p == jobs[k].plan
    IN  /\ p.kind = "seed"
        /\ \E i \in 0..Len(diary) :
            ReadDiary(k, i, DaysOf(p, today) # {} /\ (i = 0 \/ p.force), today,
                      {m \in p.file : DayOf[m] = today})

(* The complete days one after the other, from the standing diary or from  *)
(* none; a day that fails is left out.  Then the turns of today.           *)
SeedPut(k) ==
    LET j == jobs[k]
        p == j.plan
        previous == IF p.from = None THEN NoDiary ELSE Version(j.read)
        next == Became(k, IF j.left = {} THEN "done" ELSE "rows", j.left)
        kind == IF p.from = None THEN "afresh" ELSE "seed"
    IN  /\ p.kind = "seed" /\ j.pc = "put"
        /\ \/ Ends(k)
           \/ /\ p.from # None /\ j.read > 0 /\ Unmoved(j.read)
              /\ jobs' = [jobs EXCEPT ![k] = next]
              /\ UNCHANGED <<diary, faults>>
           \/ \E days \in SUBSET DaysOf(p, j.day) \ {{}} :
                \E v \in Rewritten(kind, previous, days, Max(days), {Sender[m] : m \in {x \in p.file : DayOf[x] \in days}}) :
                    Put(k, v, next)
        /\ UNCHANGED <<stored, Others>>

SeedRow(k) ==
    LET j == jobs[k]
    IN  /\ j.pc = "rows"
        /\ \E m \in j.left :
            /\ \/ stored' = stored \cup {Turn(<<"seed", m>>, DayOf[m])}
                  /\ jobs' = [jobs EXCEPT ![k] = Became(k, IF j.left = {m} THEN "done" ELSE "rows", j.left \ {m})]
                  /\ UNCHANGED faults
               \/ /\ Fault
                  /\ stored' \in {stored, stored \cup {Turn(<<"seed", m>>, DayOf[m])}}
                  /\ jobs' = [jobs EXCEPT ![k] = Done(k)]
        /\ UNCHANGED <<diary, Others>>

Work ==
    \E k \in Jobs :
        \/ FoldStart(k) \/ FoldPut(k)
        \/ ForgetStart(k) \/ ForgetPut(k)
        \/ SeedStart(k) \/ SeedPut(k) \/ SeedRow(k)

-----------------------------------------------------------------------------
(* The two together                                                        *)

Init == \E s \in Starts : InitWith(s) /\ InitDiary(s)

BothNext == (Next /\ UNCHANGED diaryVars) \/ Work

Spec == Init /\ [][BothNext]_<<vars, diaryVars>>

(* A promise that is not hung settles: the model and the stores answer or  *)
(* fail, and the task is started again.                                    *)
FairSpec ==
    /\ Spec
    /\ WF_vars(Handle /\ UNCHANGED diaryVars)
    /\ WF_vars(Land /\ UNCHANGED diaryVars)
    /\ WF_vars(Boot /\ UNCHANGED diaryVars)

-----------------------------------------------------------------------------
(* Properties                                                              *)

(* What one process took out of the diary no other brings back: a person   *)
(* forgotten is named again only by a rewrite that was shown turns of      *)
(* theirs, no day that was folded is lost, and the nightly job folds a day *)
(* once, though it may read an old row, be retried, and put what it wrote  *)
(* a minute ago while the row moved (diary.ts, put; podiumJob.ts 251).     *)
DiarySound ==
    \A i \in 1..(Len(diary) - 1) :
        LET was == diary[i]
            is == diary[i + 1]
        IN  /\ is.names \subseteq was.names \cup is.brought
            /\ is.kind # "afresh" => was.folded \subseteq is.folded
            /\ is.kind = "fold" => was.day < is.day

=============================================================================
