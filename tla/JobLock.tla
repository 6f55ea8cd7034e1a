------------------------------ MODULE JobLock ------------------------------
(***************************************************************************)
(* Executions of one job guarded by a lock with a time to live: the        *)
(* lockers of pantry/jobs/lock.go and their two kinds of users, executeJob *)
(* of pantry/jobs/scheduler.go and WithLock / WithLockWait / Lock.         *)
(*                                                                         *)
(* The application has configured one of the two lockers and, whatever the *)
(* locker, one of the two history stores or none.  With a Redis locker an  *)
(* execution runs on an instance, whose executions share its owner id; a   *)
(* memory locker lives in one process and has one owner id for everybody.  *)
(* A scheduled execution has a context whose deadline is the lock's ttl;   *)
(* commands sent to Redis with an expired context fail.  Handlers may run  *)
(* longer than that.  Time is counted in ticks.                            *)
(***************************************************************************)
EXTENDS Integers, FiniteSets

CONSTANTS Runs,         \* executions
          Instances,    \* processes, each with one locker
          InstanceOf,   \* where each execution runs
          Scheduled,    \* executions started by executeJob
          Waiters,      \* executions that use AcquireWait
          TTL,          \* ttl of the lock, timeout of a scheduled execution
          Process,      \* owner id of a memory locker
          None          \* no owner

ASSUME LockAssumption ==
    /\ InstanceOf \in [Runs -> Instances]
    /\ Scheduled \subseteq Runs /\ Waiters \subseteq Runs \ Scheduled
    /\ TTL \in Nat \ {0}
    /\ None \notin Instances \cup Runs \cup {Process}

VARIABLES locker,   \* the configured Locker: "redis" or "memory"
          history,  \* the configured HistoryStore: "redis", "memory" or "none"
          owner,    \* owner id stored under the key, or None
          ttl,      \* time the entry still lives; 0 is expired
          lockRun,  \* history: the execution that created or renewed the entry
          pc,       \* where each execution is
          age,      \* time since its context was made or, unscheduled, since it got the lock
          record,   \* its entry in the history store
          lost      \* history: executions whose RecordComplete failed in time

recordVars == <<record, lost>>
vars == <<locker, history, owner, ttl, lockRun, pc, age, recordVars>>

Phases == {"idle", "locking", "holding", "releasing", "done", "crashed"}

TypeOK ==
    /\ locker \in {"redis", "memory"} /\ history \in {"redis", "memory", "none"}
    /\ owner \in Instances \cup {Process, None}
    /\ ttl \in 0..TTL
    /\ lockRun \in Runs \cup {None}
    /\ pc \in [Runs -> Phases]
    /\ age \in [Runs -> 0..TTL]
    /\ record \in [Runs -> {"none", "running", "completed", "failed", "skipped"}]
    /\ lost \subseteq Runs

Init ==
    /\ locker \in {"redis", "memory"} /\ history \in {"redis", "memory", "none"}
    /\ owner = None
    /\ ttl = 0
    /\ lockRun = None
    /\ pc = [e \in Runs |-> "idle"]
    /\ age = [e \in Runs |-> 0]
    /\ record = [e \in Runs |-> "none"]
    /\ lost = {}

----------------------------------------------------------------------------
Goto(e, to) == pc' = [pc EXCEPT ![e] = to]

OwnerId(e) == IF locker = "redis" THEN InstanceOf[e] ELSE Process

(* Commands to Redis fail with the execution's context; the memory locker and the
   memory history store ignore it. *)
Overdue(e) == e \in Scheduled /\ age[e] >= TTL
ctxExpired(e) == locker = "redis" /\ Overdue(e)

(* recordComplete, with the context of the execution; the scheduler ignores what
   RecordComplete returns. *)
recordComplete(e, status) ==
    \/ /\ e \in Scheduled /\ history # "none" /\ ~(history = "redis" /\ Overdue(e))
       /\ record' = [record EXCEPT ![e] = status] /\ UNCHANGED lost
    \/ /\ e \in Scheduled /\ history = "redis"
       /\ lost' = (IF Overdue(e) THEN lost ELSE lost \cup {e}) /\ UNCHANGED record
    \/ (e \notin Scheduled \/ history = "none") /\ UNCHANGED recordVars

(* executeJob makes the context and records the start, or fails to. *)
Begin(e) ==
    /\ pc[e] = "idle"
    /\ Goto(e, "locking")
    /\ age' = [age EXCEPT ![e] = 0]
    /\ \/ e \in Scheduled /\ history # "none" /\ record' = [record EXCEPT ![e] = "running"]
       \/ (e \notin Scheduled \/ history # "memory") /\ UNCHANGED record
    /\ UNCHANGED <<owner, ttl, lockRun, lost>>

(* Redis: SET NX.  Memory: a live entry refuses only other owner ids. *)
Free(e) ==
    \/ owner = None
    \/ ttl = 0
    \/ locker = "memory" /\ owner = OwnerId(e)

SetLock(e) ==
    /\ owner' = OwnerId(e)
    /\ ttl' = TTL
    /\ lockRun' = e

TakeLock(e, allowed) ==
    /\ pc[e] = "locking"
    /\ ~ctxExpired(e)
    /\ allowed
    /\ SetLock(e)
    /\ Goto(e, "holding")
    /\ age' = IF e \in Scheduled THEN age ELSE [age EXCEPT ![e] = 0]
    /\ UNCHANGED recordVars

(* Mutant: SET without NX. *)
AcquireBySet(e) == TakeLock(e, TRUE)

Acquire(e) == TakeLock(e, Free(e))

(* The lock is taken: AcquireWait tries again later, everyone else gives up. *)
Skip(e) ==
    /\ pc[e] = "locking"
    /\ ~ctxExpired(e)
    /\ ~Free(e)
    /\ e \notin Waiters
    /\ Goto(e, "done")
    /\ recordComplete(e, "skipped")
    /\ UNCHANGED <<owner, ttl, lockRun, age>>

(* Acquire fails, or AcquireWait's context ends.  A command whose reply is lost
   may have taken the lock. *)
AcquireError(e) ==
    /\ pc[e] = "locking"
    /\ locker = "redis" \/ e \in Waiters
    /\ \/ UNCHANGED <<owner, ttl, lockRun>>
       \/ locker = "redis" /\ Free(e) /\ ~ctxExpired(e) /\ SetLock(e)
    /\ Goto(e, "done")
    /\ recordComplete(e, "failed")
    /\ UNCHANGED age

HandlerReturns(e, err) ==
    /\ pc[e] = "holding"
    /\ Goto(e, "releasing")
    /\ recordComplete(e, IF err THEN "failed" ELSE "completed")
    /\ UNCHANGED <<owner, ttl, lockRun, age>>

(* Lock.Extend inside the function of an unscheduled execution.  The memory
   locker also renews an entry that has expired. *)
Extend(e) ==
    /\ pc[e] = "holding" /\ e \notin Scheduled
    /\ owner = OwnerId(e)
    /\ locker = "memory" \/ ttl > 0
    /\ SetLock(e)
    /\ age' = [age EXCEPT ![e] = 0]
    /\ UNCHANGED <<pc, recordVars>>

Unlock(e, mine) ==
    /\ pc[e] = "releasing"
    /\ Goto(e, "done")
    /\ IF mine /\ ~ctxExpired(e)
       THEN owner' = None /\ ttl' = 0 /\ lockRun' = None
       ELSE UNCHANGED <<owner, ttl, lockRun>>
    /\ UNCHANGED <<age, recordVars>>

(* Mutant of Release: DEL without comparing the owner. *)
ReleaseAny(e) == Unlock(e, TRUE)

(* The script deletes the key if the stored owner is this locker's. *)
Release(e) == Unlock(e, owner = OwnerId(e))

(* The command is lost: the entry stays until it expires. *)
ReleaseLost(e) ==
    /\ locker = "redis"
    /\ Unlock(e, FALSE)

(* The instance of an execution stops; its entry stays until it expires. *)
Crash(e) ==
    /\ locker = "redis"
    /\ pc[e] \in {"locking", "holding", "releasing"}
    /\ Goto(e, "crashed")
    /\ UNCHANGED <<owner, ttl, lockRun, age, recordVars>>

(* IsHeld and Cleanup of the memory locker drop an expired entry. *)
Cleanup ==
    /\ locker = "memory"
    /\ owner # None /\ ttl = 0
    /\ owner' = None /\ lockRun' = None
    /\ UNCHANGED <<ttl, pc, age, recordVars>>

(* External: time passes.  Redis drops the key when its ttl is over. *)
Tick ==
    /\ \E e \in Runs : pc[e] \notin {"done", "crashed"}
    /\ ttl' = IF ttl > 0 THEN ttl - 1 ELSE 0
    /\ IF locker = "redis" /\ ttl <= 1
       THEN owner' = None /\ lockRun' = None
       ELSE UNCHANGED <<owner, lockRun>>
    /\ age' = [e \in Runs |-> IF pc[e] \in {"locking", "holding", "releasing"} /\ age[e] < TTL
                              THEN age[e] + 1 ELSE age[e]]
    /\ UNCHANGED <<pc, recordVars>>

Next ==
    /\ \/ \E e \in Runs :
            \/ Begin(e) \/ Acquire(e) \/ Skip(e) \/ AcquireError(e)
            \/ \E err \in BOOLEAN : HandlerReturns(e, err)
            \/ Extend(e) \/ Release(e) \/ ReleaseLost(e) \/ Crash(e)
       \/ Cleanup
       \/ Tick
    /\ UNCHANGED <<locker, history>>

Spec == Init /\ [][Next]_vars

----------------------------------------------------------------------------
Holding == {e \in Runs : pc[e] = "holding"}

(* Handlers of a Redis deployment whose time is not over: the scheduler's ttl is
   the handler's own timeout, so the lock says nothing about those that overrun. *)
InTime == {e \in Holding : locker = "redis" /\ age[e] < TTL}

(* WithLocker: "jobs will acquire a lock before executing to prevent duplicate
   execution across multiple instances" (scheduler.go:86): no two handlers that
   have time left run at once, whatever crashes and lost replies came before. *)
MutualExclusion == \A e, f \in InTime : e = f

(* While such a handler runs, the entry is the one its own execution created. *)
LockIsMine == \A e \in InTime : lockRun = e /\ owner = OwnerId(e) /\ ttl > 0

(* "ensure we only delete our own lock" (lock.go:125): a release, even one that
   comes long after the ttl, removes the Redis entry of no execution on another
   instance.  (The goroutines of one RedisLocker share its owner id, lock.go:134;
   every execution here has an instance of its own.) *)
ReleasesOwnOnly ==
    [][\A e \in Runs : locker = "redis" /\ pc[e] = "releasing" /\ pc'[e] = "done" =>
          lockRun' = lockRun \/ lockRun = e]_vars

(* "When set, job executions will be recorded for monitoring" (scheduler.go:95):
   whatever the locker, an execution that ended has a final record in the history
   that is configured, unless that is a Redis history and RecordComplete failed, or
   was called when the timeout of the execution had passed. *)
EndedIsRecorded ==
    \A e \in Scheduled : pc[e] = "done" /\ history # "none" =>
        \/ record[e] \in {"completed", "failed", "skipped"}
        \/ history = "redis" /\ (e \in lost \/ Overdue(e))
=============================================================================
