---------------------------- MODULE MCEmailQueue ----------------------------
(* EmailQueue with e1 urgent and scheduled for the end of time, e2 ordinary. *)
EXTENDS EmailQueue, TLC

CONSTANTS e1, e2

AtEnd == [e \in Emails |-> MaxTime]
Urgent == [e \in Emails |-> IF e = e1 THEN 1 ELSE 0]

(* Memory store: two workers after the same email; one worker with both emails;
   a queue that is started again while an earlier Stop waits or has given up.
   Redis: a dependable one; one that fails while processes die and emails get
   cancelled; one on which every command may fail. *)
MemoryTwo == [store |-> "memory", workers |-> 2, emails |-> {e2}, cancelled |-> {e2},
              faults |-> {}, starts |-> 1, crashes |-> FALSE, stops |-> TRUE]
MemoryOne == [store |-> "memory", workers |-> 1, emails |-> {e1, e2}, cancelled |-> {e1},
              faults |-> {}, starts |-> 1, crashes |-> FALSE, stops |-> TRUE]
Restarted == [store |-> "memory", workers |-> 1, emails |-> {e2}, cancelled |-> {},
              faults |-> {}, starts |-> 2, crashes |-> FALSE, stops |-> TRUE]
RedisGood == [store |-> "redis", workers |-> 1, emails |-> {e1, e2}, cancelled |-> {},
              faults |-> {}, starts |-> 1, crashes |-> FALSE, stops |-> FALSE]
RedisBad == [store |-> "redis", workers |-> 1, emails |-> {e2}, cancelled |-> {e2},
             faults |-> {"get", "set", "zadd"}, starts |-> 2, crashes |-> TRUE, stops |-> FALSE]
RedisWorse == [store |-> "redis", workers |-> 1, emails |-> {e2}, cancelled |-> {},
               faults |-> Commands, starts |-> 1, crashes |-> FALSE, stops |-> FALSE]

Various == {MemoryTwo, MemoryOne, Restarted, RedisGood, RedisBad, RedisWorse}
TwoWorkers == {MemoryTwo}
=============================================================================
