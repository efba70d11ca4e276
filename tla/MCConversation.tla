--------------------------- MODULE MCConversation --------------------------
(* One group on three days, and what happens to its bot and its diary: a   *)
(* few messages, a few jobs, a fault or two, as the plans say.             *)
EXTENDS Diary

Days_ == 1..3
Messages_ == 1..9
Shape_ == <<"ambient", "ambient", "ambient", "addressed", "share", "tap", "wordless", "ambient", "addressed">>
At_ == <<1, 2, 3, 3, 2, 3, 4, 20, 22>>
DayOf_ == <<2, 2, 2, 2, 2, 2, 2, 3, 3>>
Sender_ == <<"ana", "ben", "ana", "ben", "ana", "ana", "ben", "ben", "ana">>

Once(ms) == {<<m, 1>> : m \in ms}
Twice(ms) == ms \X {1, 2}
Row(m) == Turn(Said(m), DayOf[m])
Rows(ms) == {Row(m) : m \in ms}

First(day, names) == [kind |-> "fold", day |-> day, names |-> names, folded |-> {day}, brought |-> names]

Talk(day, asked_, rows_, spent_, faults_) ==
    [today |-> day, asked |-> asked_, rows |-> rows_, spent |-> spent_, faults |-> faults_,
     standing |-> None, jobs |-> <<>>]

(* Plans of messages: bursts of ambient talk, every shape, a message       *)
(* delivered twice, a day that flips under a restart, limits nearly spent. *)
Talks ==
    {Talk(2, Once({1, 2}), {}, 0, 1),
     Talk(2, Once({2, 4}), {}, 0, 1),
     Talk(2, Once({2, 5}), {}, 1, 1),
     Talk(2, Once({3, 6, 7}), {}, 0, 0),
     Talk(2, Twice({4}), {}, 0, 1),
     Talk(2, Once({4, 8}), Rows({1}), 1, 1),
     Talk(3, Once({9}), Rows({8}), 2, 2)}

Rewrite(rows_, standing_, jobs_) ==
    [today |-> 3, asked |-> {}, rows |-> rows_, spent |-> 0, faults |-> 1,
     standing |-> standing_, jobs |-> jobs_]

(* Plans of jobs over the rows of the days: retried folds, people          *)
(* forgotten meanwhile, seeds over a diary that stands or not.             *)
Both == {"ana", "ben"}

Rewrites ==
    {Rewrite(Rows({1, 2}), None, <<Fold(None), Fold(None), Forget("ana")>>),
     Rewrite(Rows({1}), First(1, Both), <<Fold(None), Fold(2), Forget("ben")>>),
     Rewrite(Rows({1, 8}), First(1, Both), <<Fold(3), Forget("ana"), Forget("ben")>>),
     Rewrite({}, First(2, {"ana"}), <<Fold(None), Seed({1, 8, 9}, None, TRUE), Forget("ana")>>),
     Rewrite({}, First(1, {"ana"}), <<Seed({2, 8}, 2, TRUE), Seed({1}, None, FALSE)>>)}

(* A message and the night's job together, over the flip of the day.       *)
Nights ==
    {[Talk(2, Once({4}), Rows({1}), 0, 0) EXCEPT
        !.standing = First(1, Both), !.jobs = <<Fold(None), Seed({1}, None, TRUE)>>]}

Starts_ == Talks \cup Rewrites \cup Nights
=============================================================================
