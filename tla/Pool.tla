-------------------------------- MODULE Pool --------------------------------
(***************************************************************************)
(* The bounded worker pool and its futures, pantry/jobs/pool.go.           *)
(*                                                                         *)
(* A task is started by Go (which Submit and GoWithContext call) or TryGo; *)
(* its deferred function releases the semaphore, the wait group and the    *)
(* running counter in three separate steps.                                *)
(***************************************************************************)
EXTENDS Integers, FiniteSets

CONSTANTS Tasks,        \* tasks handed to the pool, each once
          Submitted,    \* those handed over with Submit, which have a Future
          Workers,      \* capacity of p.sem
          Panicking     \* those whose function panics

ASSUME PoolAssumption ==
    /\ IsFiniteSet(Tasks)
    /\ Submitted \subseteq Tasks
    /\ Workers \in Nat \ {0}
    /\ Panicking \subseteq Tasks

VARIABLES sem,       \* len(p.sem)
          wg,        \* counter of p.wg
          running,   \* p.running
          place,        \* where each task is
          futures,   \* tasks whose Future.done is closed
          waiter     \* a caller of Wait: "out", "waiting" or "returned"

poolVars == <<sem, wg, running, place, futures, waiter>>

Phases == {"new", "calling", "acquired", "executing", "releasing",
           "released", "counted", "ended"}
In(phases) == {t \in Tasks : place[t] \in phases}

PoolTypeOK ==
    /\ sem \in 0..Workers
    /\ wg \in 0..Cardinality(Tasks)
    /\ running \in 0..Cardinality(Tasks)
    /\ place \in [Tasks -> Phases]
    /\ futures \subseteq Submitted
    /\ waiter \in {"out", "waiting", "returned"}

PoolInit ==
    /\ sem = 0
    /\ wg = 0
    /\ running = 0
    /\ place = [t \in Tasks |-> "new"]
    /\ futures = {}
    /\ waiter = "out"

Advance(t, from, to) ==
    /\ place[t] = from
    /\ place' = [place EXCEPT ![t] = to]

----------------------------------------------------------------------------
(* Go and Submit block on the semaphore. *)
Go(t) ==
    /\ Advance(t, "new", "calling")
    /\ UNCHANGED <<sem, wg, running, futures, waiter>>

GoAcquires(t) ==
    /\ Advance(t, "calling", "acquired")
    /\ sem < Workers
    /\ sem' = sem + 1
    /\ UNCHANGED <<wg, running, futures, waiter>>

(* Mutant of TryGo: the select's default branch runs the task anyway. *)
TryGoAlways(t) ==
    /\ Advance(t, "new", "acquired")
    /\ t \notin Submitted
    /\ sem' = IF sem < Workers THEN sem + 1 ELSE sem
    /\ UNCHANGED <<wg, running, futures, waiter>>

(* A TryGo that finds the pool full returns false and changes nothing. *)
TryGo(t) ==
    /\ Advance(t, "new", "acquired")
    /\ t \notin Submitted
    /\ sem < Workers
    /\ sem' = sem + 1
    /\ UNCHANGED <<wg, running, futures, waiter>>

(* Mutant: the wait group is told by the new goroutine, not before it starts. *)
LaunchUncounted(t) ==
    /\ Advance(t, "acquired", "executing")
    /\ running' = running + 1
    /\ UNCHANGED <<sem, wg, futures, waiter>>

Launch(t) ==
    /\ Advance(t, "acquired", "executing")
    /\ wg' = wg + 1
    /\ running' = running + 1
    /\ UNCHANGED <<sem, futures, waiter>>

TaskReturns(t) ==
    /\ t \notin Panicking
    /\ Advance(t, "executing", "releasing")
    /\ futures' = futures \cup ({t} \cap Submitted)
    /\ UNCHANGED <<sem, wg, running, waiter>>

(* close(f.done) is not deferred: a panic skips it. *)
TaskPanics(t) ==
    /\ t \in Panicking
    /\ Advance(t, "executing", "releasing")
    /\ UNCHANGED <<sem, wg, running, futures, waiter>>

Release(t) ==
    /\ Advance(t, "releasing", "released")
    /\ sem' = sem - 1
    /\ UNCHANGED <<wg, running, futures, waiter>>

WgDone(t) ==
    /\ Advance(t, "released", "counted")
    /\ wg' = wg - 1
    /\ UNCHANGED <<sem, running, futures, waiter>>

Uncount(t) ==
    /\ Advance(t, "counted", "ended")
    /\ running' = running - 1
    /\ UNCHANGED <<sem, wg, futures, waiter>>

PoolWait ==
    /\ waiter = "out"
    /\ waiter' = "waiting"
    /\ UNCHANGED <<sem, wg, running, place, futures>>

WaitReturns ==
    /\ waiter = "waiting"
    /\ wg = 0
    /\ waiter' = "returned"
    /\ UNCHANGED <<sem, wg, running, place, futures>>

(* WaitWithTimeout may give up; the caller can wait again. *)
WaitTimesOut ==
    /\ waiter = "waiting"
    /\ waiter' = "out"
    /\ UNCHANGED <<sem, wg, running, place, futures>>

Step(t) ==
    \/ GoAcquires(t) \/ Launch(t) \/ TaskReturns(t) \/ TaskPanics(t)
    \/ Release(t) \/ WgDone(t) \/ Uncount(t)

PoolNext ==
    \/ \E t \in Tasks : Go(t) \/ TryGo(t) \/ Step(t)
    \/ PoolWait \/ WaitReturns \/ WaitTimesOut

PoolSpec == PoolInit /\ [][PoolNext]_poolVars

----------------------------------------------------------------------------
(* At most Workers tasks execute at once, whichever of Go, TryGo and Submit
   started them. *)
ConcurrencyLimit == Cardinality(In({"executing", "releasing"})) <= Workers

(* "Wait blocks until all running tasks complete": when it returns no task that
   was running is still inside its function. *)
WaitSeesTasks ==
    [][waiter = "waiting" /\ waiter' = "returned" => In({"executing"}) = {}]_poolVars

(* Every call gets through in the end, although tasks panic: a task that waits
   for a slot gets it, runs and gives it back.  "Done returns a channel that is
   closed when the task completes" (pool.go:156): by then the future of every
   submitted task whose function returned is complete.  (A task that panics
   skips close(f.done), which Submit does not defer, and its future never is.) *)
Settled == /\ In({"new", "ended"}) = Tasks
           /\ \A t \in In({"ended"}) \cap Submitted : t \in Panicking \/ t \in futures
PoolSettles == <>[]Settled

(* Wait sees every running task, and neither slots nor futures are lost. *)
PoolKeepsPromises == WaitSeesTasks /\ PoolSettles
=============================================================================
