----------------------------- MODULE JobHistory -----------------------------
(* pantry/jobs: the history of scheduled jobs, in memory (one lock) or in Redis
   (one command at a time, shared by all instances).  The scheduler ignores
   what RecordStart returns and records the end of an execution all the same.
   In Redis the records and the statistics have a ttl and the list has none. *)
EXTENDS Integers, Sequences, SequencesExt, FiniteSets

CONSTANTS Execs,        \* executions of one job; jobs do not share anything
          MaxPerJob, MaxRedisFaults

ASSUME HistoryAssumption == MaxPerJob \in Nat

VARIABLES hKind,        \* "memory" or "redis"
          hPc,          \* execution -> "new", "set", "push", "trim", "count", "expire", "running",
                        \* "endSet", "endCount", "over"
          hEnd,         \* execution -> "" or its final status
          hList,        \* the job's executions, oldest first
          hById,        \* execution -> recorded status: byID, or the exec keys
          hStats,       \* [total, successful, failed, skipped]
          hLease,       \* Redis: the statistics have a ttl
          hExpired,     \* executions whose record has expired since it was last set
          hReset,       \* history: the statistics have expired once
          hFaults

redisVars == <<hLease, hExpired, hReset>>
historyVars == <<hKind, hPc, hEnd, hList, hById, hStats, hFaults, redisVars>>

Ends == {"completed", "failed", "skipped"}
Field == [completed |-> "successful", failed |-> "failed", skipped |-> "skipped"]
NoStats == [total |-> 0, successful |-> 0, failed |-> 0, skipped |-> 0]

HistoryTypeOK ==
    /\ hList \in Seq(Execs) /\ DOMAIN hById \subseteq Execs
    /\ hKind = "memory" => Len(hList) <= MaxPerJob

HistoryInit ==
    /\ hKind \in {"memory", "redis"} /\ hPc = [e \in Execs |-> "new"] /\ hEnd = [e \in Execs |-> ""]
    /\ hList = << >> /\ hById = << >>
    /\ hStats = NoStats /\ hLease = FALSE /\ hExpired = {} /\ hReset = FALSE
    /\ hFaults = 0

Record(e, s) == [x \in DOMAIN hById \cup {e} |-> IF x = e THEN s ELSE hById[x]]
DropRecords(f, es) == [x \in DOMAIN f \ es |-> f[x]]
Count(field) == [hStats EXCEPT ![field] = @ + 1]
HistoryGoto(e, pc) == hPc' = [hPc EXCEPT ![e] = pc]

-----------------------------------------------------------------------------
(* MemoryHistoryStore.RecordStart: append, drop the oldest over the limit. *)
MemoryStart(e) ==
    /\ hKind = "memory" /\ hPc[e] = "new" /\ HistoryGoto(e, "running")
    /\ LET l == Append(hList, e)
           over == Len(l) > MaxPerJob
       IN /\ hList' = IF over THEN Tail(l) ELSE l
          /\ hById' = DropRecords(Record(e, "running"), IF over THEN {Head(l)} ELSE {})
    /\ hStats' = Count("total")
    /\ UNCHANGED <<hKind, hEnd, hFaults, redisVars>>

(* RecordComplete: the record may be gone, the statistics count it anyway. *)
MemoryComplete(e, s) ==
    /\ hKind = "memory" /\ hPc[e] = "running" /\ HistoryGoto(e, "over") /\ hEnd' = [hEnd EXCEPT ![e] = s]
    /\ hById' = IF e \in DOMAIN hById THEN Record(e, s) ELSE hById
    /\ hStats' = Count(Field[s])
    /\ UNCHANGED <<hKind, hList, hFaults, redisVars>>

(* Cleanup drops what was started before the cutoff, running or not: a loop over
   the list that keeps the others. *)
Retained(list, old) ==
    LET kept[i \in 0 .. Len(list)] == IF i = 0 THEN << >>
                                      ELSE IF list[i] \in old THEN kept[i - 1] ELSE Append(kept[i - 1], list[i])
    IN  kept[Len(list)]
CleanupHistory(old) ==
    /\ hKind = "memory" /\ old # {} /\ old \subseteq DOMAIN hById
    /\ hList' = Retained(hList, old)
    /\ hById' = DropRecords(hById, old)
    /\ UNCHANGED <<hKind, hPc, hEnd, hStats, hFaults, redisVars>>

(* Mutant: the index is written before the record. *)
CommandPushFirst(e) ==
    /\ \/ hPc[e] = "set" /\ hList' = Append(hList, e) /\ UNCHANGED <<hById, hExpired>>
       \/ hPc[e] = "push" /\ hById' = Record(e, "running") /\ UNCHANGED <<hList, hExpired>>
    /\ UNCHANGED <<hStats, hLease>>
(* What the command does that RedisHistoryStore sends next: SET, LPUSH, LTRIM,
   HINCRBY and EXPIRE for a start, SET and HINCRBY for an end.  A SET gives the
   record a new ttl; EXPIRE needs a hash; HINCRBY makes one, without a ttl. *)
Command(e) ==
    \/ /\ hPc[e] \in {"set", "endSet"} /\ hById' = Record(e, IF hPc[e] = "set" THEN "running" ELSE hEnd[e])
       /\ hExpired' = hExpired \ {e} /\ UNCHANGED <<hList, hStats, hLease>>
    \/ hPc[e] = "push" /\ hList' = Append(hList, e) /\ UNCHANGED <<hById, hExpired, hStats, hLease>>
    \/ /\ hPc[e] = "trim"
       /\ hList' = SubSeq(hList, IF Len(hList) > MaxPerJob THEN Len(hList) - MaxPerJob + 1 ELSE 1, Len(hList))
       /\ UNCHANGED <<hById, hExpired, hStats, hLease>>
    \/ /\ hPc[e] \in {"count", "endCount"} /\ hStats' = Count(IF hPc[e] = "count" THEN "total" ELSE Field[hEnd[e]])
       /\ UNCHANGED <<hList, hById, hExpired, hLease>>
    \/ hPc[e] = "expire" /\ hLease' = (hLease \/ hStats # NoStats) /\ UNCHANGED <<hList, hById, hExpired, hStats>>

RedisStart(e) ==
    /\ hKind = "redis" /\ hPc[e] = "new" /\ HistoryGoto(e, "set")
    /\ UNCHANGED <<hKind, hEnd, hList, hById, hStats, hFaults, redisVars>>
RedisComplete(e, s) ==
    /\ hKind = "redis" /\ hPc[e] = "running" /\ HistoryGoto(e, "endSet") /\ hEnd' = [hEnd EXCEPT ![e] = s]
    /\ UNCHANGED <<hKind, hList, hById, hStats, hFaults, redisVars>>

Then == [set |-> "push", push |-> "trim", trim |-> "count", count |-> "expire", expire |-> "running",
         endSet |-> "endCount", endCount |-> "over"]
RedisCommand(e) ==
    /\ hKind = "redis" /\ hPc[e] \in DOMAIN Then /\ Command(e) /\ HistoryGoto(e, Then[hPc[e]])
    /\ UNCHANGED <<hKind, hEnd, hReset, hFaults>>

(* An error ends RecordStart and RecordComplete, except that of the statistics'
   commands, which nobody looks at.  Only the answer may have been lost. *)
OnError == [set |-> "running", push |-> "running", trim |-> "running", count |-> "expire", expire |-> "running",
            endSet |-> "over", endCount |-> "over"]
RedisFails(e) ==
    /\ hKind = "redis" /\ hPc[e] \in DOMAIN OnError /\ hFaults < MaxRedisFaults
    /\ Command(e) \/ UNCHANGED <<hList, hById, hExpired, hStats, hLease>>
    /\ HistoryGoto(e, OnError[hPc[e]]) /\ hFaults' = hFaults + 1
    /\ UNCHANGED <<hKind, hEnd, hReset>>

(* External: Redis drops a record, or the statistics, whose ttl is over.  An end
   that is counted later makes a new hash, which lives until the next start. *)
RecordExpires(e) ==
    /\ hKind = "redis" /\ e \in DOMAIN hById
    /\ hById' = DropRecords(hById, {e}) /\ hExpired' = hExpired \cup {e}
    /\ UNCHANGED <<hKind, hPc, hEnd, hList, hStats, hLease, hReset, hFaults>>
StatsExpire ==
    /\ hLease /\ hStats' = NoStats /\ hLease' = FALSE /\ hReset' = TRUE
    /\ UNCHANGED <<hKind, hPc, hEnd, hList, hById, hExpired, hFaults>>

HistoryNext ==
    \/ \E e \in Execs : \/ MemoryStart(e) \/ RedisStart(e) \/ RedisCommand(e) \/ RedisFails(e) \/ RecordExpires(e)
                        \/ \E s \in Ends : MemoryComplete(e, s) \/ RedisComplete(e, s)
    \/ \E old \in SUBSET Execs : CleanupHistory(old)
    \/ StatsExpire

HistorySpec == HistoryInit /\ [][HistoryNext]_historyVars

-----------------------------------------------------------------------------
(* The job's list, its records and its statistics agree.  The list names no
   execution that was not recorded, between any two Redis commands too; GetExecutions
   passes over the ones whose record has expired since.  In memory a record that
   is in no list any more is gone.  Without a failed command the record of an
   execution that is over says how it ended, and the ends never outnumber the
   starts unless the statistics have expired: an end is then counted in a hash
   that has not seen its start. *)
HistoryAgrees ==
    /\ Range(hList) \subseteq DOMAIN hById \cup hExpired
    /\ hKind = "memory" => DOMAIN hById = Range(hList) /\ hExpired = {}
    /\ hFaults = 0 => /\ \A e \in DOMAIN hById : hPc[e] = "over" => hById[e] = hEnd[e]
                      /\ ~hReset => hStats.successful + hStats.failed + hStats.skipped <= hStats.total
=============================================================================
