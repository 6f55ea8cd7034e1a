------------------------------- MODULE Runner -------------------------------
(***************************************************************************)
(* The background job runner of pantry/jobs/jobs.go: a bounded channel of  *)
(* jobs, a pool of worker goroutines, retries through time.AfterFunc, and  *)
(* Start and Stop called from other goroutines.                            *)
(*                                                                         *)
(* Every caller submits a job once.  Handlers return after an arbitrary    *)
(* time with or without an error; retry delays are arbitrary.  A panic in  *)
(* a handler ends the process and is not modelled.                         *)
(***************************************************************************)
EXTENDS Integers, Sequences, FiniteSets, Functions

CONSTANTS Jobs,         \* jobs submitted, each once
          Types,        \* job types
          TypeOf,       \* Job.Type
          MaxRetries,   \* Job.MaxRetries, after Enqueue's default
          QueueSize,    \* Config.QueueSize
          Workers,      \* Config.Workers
          MaxStarts,    \* bound: calls of Start that find the runner stopped
          Stoppers      \* goroutines that call Stop

ASSUME RunnerAssumption ==
    /\ TypeOf \in [Jobs -> Types]
    /\ MaxRetries \in Nat \ {0}
    /\ QueueSize \in Nat \ {0}
    /\ Workers \in Nat \ {0}
    /\ MaxStarts \in Nat
    /\ Jobs \cap {"unborn", "due", "idle", "gone"} = {}

VARIABLES handlers,   \* types with a registered handler
          queue,      \* r.queue
          running,    \* r.running
          stopClosed, \* r.stopCh is closed
          starts,     \* calls of Start that found the runner stopped
          worker,     \* each worker goroutine: "unborn", "due" in the loop of Start,
                      \* "idle", "gone" or its job
          wg,         \* counter of r.shutdownWg
          waiter,     \* Stop's goroutine: "none", "in" Wait or before it, "woken" by
                      \* the last Done, "back" after close(done)
          covered,    \* history: the Start calls whose loop was over at close(r.stopCh)
          timers,     \* jobs waiting in time.AfterFunc for their retry
          attempts,   \* Job.Attempts
          submit,     \* each job's caller: "new", "blocked" in MustEnqueue, "accepted"
          outcome,    \* hook last called for the job: "none", "success" or "error"
          stop,       \* each caller of Stop: "none", "closing", "waiting", "nil", "ctxerr"
          crashed     \* close(r.stopCh) or shutdownWg.Wait panicked

jobVars == <<handlers, queue, worker, timers, attempts, submit, outcome>>
stopVars == <<stopClosed, covered, stop>>
lifeVars == <<running, starts, wg, waiter, crashed, stopVars>>
vars == <<jobVars, lifeVars>>

(* Start spawns new goroutines each time: a goroutine is its place in the loop
   and the number of the Start call that spawned it. *)
Goroutines == (1..Workers) \X (1..MaxStarts)

Queued == Range(queue)
Busy == {g \in Goroutines : worker[g] \in Jobs}
InFlight == {worker[g] : g \in Busy}

TypeOK ==
    /\ handlers \subseteq Types
    /\ queue \in Seq(Jobs) /\ Len(queue) <= QueueSize
    /\ running \in BOOLEAN /\ stopClosed \in BOOLEAN /\ crashed \in BOOLEAN
    /\ starts \in 0..MaxStarts
    /\ worker \in [Goroutines -> Jobs \cup {"unborn", "due", "idle", "gone"}]
    /\ wg \in Nat
    /\ waiter \in {"none", "in", "woken", "back"}
    /\ covered \subseteq 1..MaxStarts
    /\ timers \subseteq Jobs
    /\ attempts \in [Jobs -> 0..MaxRetries]
    /\ submit \in [Jobs -> {"new", "blocked", "accepted"}]
    /\ outcome \in [Jobs -> {"none", "success", "error"}]
    /\ stop \in [Stoppers -> {"none", "closing", "waiting", "nil", "ctxerr"}]

Init ==
    /\ handlers = {}
    /\ queue = <<>>
    /\ running = FALSE
    /\ stopClosed = FALSE
    /\ starts = 0
    /\ worker = [g \in Goroutines |-> "unborn"]
    /\ wg = 0
    /\ waiter = "none"
    /\ covered = {}
    /\ timers = {}
    /\ attempts = [j \in Jobs |-> 0]
    /\ submit = [j \in Jobs |-> "new"]
    /\ outcome = [j \in Jobs |-> "none"]
    /\ stop = [s \in Stoppers |-> "none"]
    /\ crashed = FALSE

----------------------------------------------------------------------------
Full == Len(queue) >= QueueSize

Register(t) ==
    /\ handlers' = handlers \cup {t}
    /\ UNCHANGED <<queue, worker, timers, attempts, submit, outcome, lifeVars>>

(* A call that finds the queue full returns false; its caller may try again. *)
Enqueue(j) ==
    /\ submit[j] = "new"
    /\ ~Full
    /\ queue' = Append(queue, j)
    /\ submit' = [submit EXCEPT ![j] = "accepted"]
    /\ UNCHANGED <<handlers, worker, timers, attempts, outcome, lifeVars>>

MustEnqueueBlocks(j) ==
    /\ submit[j] = "new"
    /\ Full
    /\ submit' = [submit EXCEPT ![j] = "blocked"]
    /\ UNCHANGED <<handlers, queue, worker, timers, attempts, outcome, lifeVars>>

MustEnqueueResumes(j) ==
    /\ submit[j] = "blocked"
    /\ ~Full
    /\ queue' = Append(queue, j)
    /\ submit' = [submit EXCEPT ![j] = "accepted"]
    /\ UNCHANGED <<handlers, worker, timers, attempts, outcome, lifeVars>>

(* time.AfterFunc calls Enqueue and ignores its result; left is what remains
   of the pending timers. *)
TimerFires(j, left) ==
    /\ j \in timers
    /\ timers' = left
    /\ queue' = IF Full THEN queue ELSE Append(queue, j)
    /\ UNCHANGED <<handlers, worker, attempts, submit, outcome, lifeVars>>

(* Mutant of the retry: a ticker instead of a one-shot timer. *)
RetryTicks(j) == TimerFires(j, timers)

RetryFires(j) == TimerFires(j, timers \ {j})

(* worker takes the channel's first job and process looks up its handler. *)
Take(g) ==
    /\ worker[g] = "idle"
    /\ queue # <<>>
    /\ queue' = Tail(queue)
    /\ IF TypeOf[Head(queue)] \in handlers
       THEN /\ worker' = [worker EXCEPT ![g] = Head(queue)]
            /\ attempts' = [attempts EXCEPT ![Head(queue)] = @ + 1]
            /\ UNCHANGED outcome
       ELSE /\ outcome' = [outcome EXCEPT ![Head(queue)] = "error"]
            /\ UNCHANGED <<worker, attempts>>
    /\ UNCHANGED <<handlers, timers, submit, lifeVars>>

(* The rest of process, once the handler returned: a job is retried while it
   has made fewer than limit attempts. *)
Process(g, ok, limit) ==
    /\ worker[g] \in Jobs
    /\ LET j == worker[g] IN
         \/ /\ ok
            /\ outcome' = [outcome EXCEPT ![j] = "success"]
            /\ UNCHANGED timers
         \/ /\ ~ok
            /\ attempts[j] < limit
            /\ timers' = timers \cup {j}
            /\ UNCHANGED outcome
         \/ /\ ~ok
            /\ attempts[j] >= limit
            /\ outcome' = [outcome EXCEPT ![j] = "error"]
            /\ UNCHANGED timers
    /\ worker' = [worker EXCEPT ![g] = "idle"]
    /\ UNCHANGED <<handlers, queue, attempts, submit, lifeVars>>

(* Mutant of process: one retry too many. *)
processOneMore(g, ok) == Process(g, ok, MaxRetries + 1)
(* Mutant: a failed attempt is neither retried nor reported. *)
processForgets(g, ok) ==
    /\ worker[g] \in Jobs
    /\ outcome' = IF ok THEN [outcome EXCEPT ![worker[g]] = "success"] ELSE outcome
    /\ worker' = [worker EXCEPT ![g] = "idle"]
    /\ UNCHANGED <<handlers, queue, timers, attempts, submit, lifeVars>>

process(g, ok) == Process(g, ok, MaxRetries)

(* The deferred shutdownWg.Done runs when worker returns; the one that brings the
   counter to zero wakes Stop's goroutine, unless that has yet to call Wait. *)
WorkerExits(g, told, done) ==
    /\ worker[g] = "idle"
    /\ told
    /\ worker' = [worker EXCEPT ![g] = "gone"]
    /\ wg' = wg - done
    /\ \/ UNCHANGED waiter
       \/ waiter = "in" /\ wg = done /\ waiter' = "woken"
    /\ UNCHANGED <<handlers, queue, timers, attempts, submit, outcome,
                   running, starts, crashed, stopVars>>

(* Mutant of worker: it returns without telling the wait group. *)
WorkerStopsSilently(g) == WorkerExits(g, stopClosed, 0)

WorkerStops(g) == WorkerExits(g, stopClosed, 1)

(* The Swap at the head of Start; the loop that spawns the workers follows, and
   r.running is true before the first of them exists. *)
Start ==
    /\ ~running
    /\ starts < MaxStarts
    /\ running' = TRUE
    /\ starts' = starts + 1
    /\ worker' = [g \in Goroutines |-> IF g[2] = starts + 1 THEN "due" ELSE worker[g]]
    /\ UNCHANGED <<handlers, queue, timers, attempts, submit, outcome,
                   wg, waiter, crashed, stopVars>>

(* One round of that loop, which holds no lock: shutdownWg.Add(n) and go. *)
SpawnCounting(g, n) ==
    /\ worker[g] = "due"
    /\ \A h \in Goroutines : h[2] = g[2] /\ worker[h] = "due" => g[1] <= h[1]
    /\ worker' = [worker EXCEPT ![g] = "idle"]
    /\ wg' = wg + n
    /\ UNCHANGED <<handlers, queue, timers, attempts, submit, outcome,
                   running, starts, waiter, crashed, stopVars>>

(* Mutant of the loop: Add is left to the goroutine, which has not run yet. *)
SpawnUncounted(g) == SpawnCounting(g, 0)

Spawn(g) == SpawnCounting(g, 1)

(* The Swap of Stop, which leaves r.running at left.  A goroutine may call Stop
   again once its call has returned. *)
EnterStop(s, left) ==
    /\ stop[s] \in {"none", "nil", "ctxerr"}
    /\ running' = left
    /\ stop' = [stop EXCEPT ![s] = IF running THEN "closing" ELSE "nil"]
    /\ UNCHANGED <<jobVars, stopClosed, covered, starts, wg, waiter, crashed>>

StopBegins(s) == EnterStop(s, FALSE)

(* close(r.stopCh), which Start never makes anew, and the goroutine that waits. *)
StopCloses(s) ==
    /\ stop[s] = "closing"
    /\ stopClosed' = TRUE
    /\ crashed' = stopClosed
    /\ covered' = {k \in 1..starts : \A g \in Goroutines : g[2] = k => worker[g] # "due"}
    /\ waiter' = "in"
    /\ stop' = [stop EXCEPT ![s] = "waiting"]
    /\ UNCHANGED <<jobVars, running, starts, wg>>

(* Wait returns at once on a zero counter; woken, it panics if Start has added to
   the counter since ("WaitGroup is reused before previous Wait has returned"). *)
WaitReturns ==
    /\ waiter = "woken" \/ (waiter = "in" /\ wg = 0)
    /\ waiter' = "back"
    /\ crashed' = (wg > 0)
    /\ UNCHANGED <<jobVars, running, starts, wg, stopVars>>

(* The select of Stop finds done closed. *)
StopReturns(s) ==
    /\ stop[s] = "waiting"
    /\ waiter = "back"
    /\ stop' = [stop EXCEPT ![s] = "nil"]
    /\ UNCHANGED <<jobVars, running, stopClosed, covered, starts, wg, waiter, crashed>>

StopTimesOut(s) ==
    /\ stop[s] = "waiting"
    /\ stop' = [stop EXCEPT ![s] = "ctxerr"]
    /\ UNCHANGED <<jobVars, running, stopClosed, covered, starts, wg, waiter, crashed>>

(* What a worker goroutine does next. *)
WorkerStep(g) ==
    \/ Spawn(g)
    \/ Take(g)
    \/ \E ok \in BOOLEAN : process(g, ok)
    \/ WorkerStops(g)

Next ==
    /\ ~crashed
    /\ \/ \E t \in Types : Register(t)
       \/ \E j \in Jobs : \/ Enqueue(j) \/ MustEnqueueBlocks(j)
                          \/ MustEnqueueResumes(j) \/ RetryFires(j)
       \/ \E g \in Goroutines : WorkerStep(g)
       \/ Start
       \/ WaitReturns
       \/ \E s \in Stoppers : \/ StopBegins(s) \/ StopCloses(s)
                              \/ StopReturns(s) \/ StopTimesOut(s)

Spec == Init /\ [][Next]_vars

(* The Go scheduler runs every runnable goroutine, handlers return (their
   context has a timeout), timers fire, a sender blocked on the channel gets a
   place that stays free, and the application starts the runner. *)
Fairness ==
    /\ WF_vars(~crashed /\ Start)
    /\ WF_vars(~crashed /\ WaitReturns)
    /\ \A j \in Jobs : WF_vars(~crashed /\ (RetryFires(j) \/ MustEnqueueResumes(j)))
    /\ \A g \in Goroutines : WF_vars(~crashed /\ WorkerStep(g))
    /\ \A s \in Stoppers : WF_vars(~crashed /\ (StopCloses(s) \/ StopReturns(s)))

FairSpec == Spec /\ Fairness

----------------------------------------------------------------------------
(* A job is never in two places at once (twice in the channel, in the channel
   and in a timer, with two workers, ...): Job.Attempts and Job.Error are
   written without a lock and rely on it. *)
OnePlace ==
    /\ \A m, n \in DOMAIN queue : queue[m] = queue[n] => m = n
    /\ \A g, h \in Busy : worker[g] = worker[h] => g = h
    /\ Queued \cap InFlight = {}
    /\ timers \cap (Queued \cup InFlight) = {}

(* A job whose success or permanent failure was reported by a hook is gone:
   no copy of it is left that could be executed or reported again. *)
ReportedIsFinal ==
    \A j \in Jobs : outcome[j] # "none" => j \notin Queued \cup InFlight \cup timers

(* "Stop gracefully stops the runner, waiting for in-flight jobs to complete"
   (jobs.go:154): when it returns nil, every worker of a Start that had returned
   at its close(r.stopCh) is gone, whatever calls of Start and Stop overlap it.
   Nothing is promised of the workers that a Start still spawns (jobs.go:148):
   they may come to life, and take a job, after Stop has returned nil. *)
StopWaitsForWorkers ==
    [][\A s \in Stoppers : stop[s] = "waiting" /\ stop'[s] = "nil" =>
          \A g \in Goroutines : g[2] \in covered => worker'[g] = "gone"]_vars

(* The process panics in Stop only if the runner was started again, with the
   channel its first Stop closed, or if that Stop overtook the loop of Start. *)
PanicsOnlyOverlapped ==
    crashed => starts > 1 \/ covered # {1}

(* The abstract view of the runner: where a job is tells its status. *)
JobStatus ==
    [j \in Jobs |->
        IF submit[j] # "accepted" THEN "new"
        ELSE IF outcome[j] = "success" THEN "ok"
        ELSE IF outcome[j] = "error" THEN "failed"
        ELSE IF j \in InFlight THEN "running"
        ELSE IF j \in Queued \cup timers THEN "waiting"
        ELSE "lost"]

Life == INSTANCE JobLife WITH MaxTries <- MaxRetries,
                              status <- JobStatus, tries <- attempts

(* The runner implements the abstract life of a job: executed by one worker at
   a time, at most MaxRetries times, reported at most once. *)
ImplementsJobLife == Life!Spec

(* "OnError is called when a job fails permanently" (jobs.go:91): the one way an
   accepted job disappears without a report is a retry that fires while the
   channel is full, whose Enqueue returns false to nobody. *)
LostOnlyWhenFull ==
    [][\A j \in Jobs : JobStatus[j] # "lost" /\ JobStatus'[j] = "lost" =>
          j \in timers /\ Len(queue) = QueueSize]_vars

(* An accepted job is executed and reported, unless a full queue drops its
   retry or the runner is stopped. *)
Settled(j) == JobStatus[j] \in {"ok", "failed", "lost"}
AcceptedSettles == \A j \in Jobs : submit[j] = "accepted" ~> Settled(j) \/ stopClosed

(* A caller blocked in MustEnqueue gets its place while the runner runs. *)
MustEnqueueUnblocks ==
    \A j \in Jobs : submit[j] = "blocked" ~> submit[j] = "accepted" \/ stopClosed

(* A Stop that is waiting returns once the handlers in flight have, unless a
   panic in Stop has ended the process. *)
StopTerminates ==
    \A s \in Stoppers : stop[s] = "waiting" ~> stop[s] \in {"nil", "ctxerr"} \/ crashed

(* The runner fails its caller for known causes only: an accepted job disappears
   unreported when its retry meets a full channel (jobs.go:326), and the process
   panics when a second Start left it the closed r.stopCh (jobs.go:142) or when
   Start adds to the wait group a Stop is leaving (jobs.go:149, 165). *)
FailsForKnownCauses == LostOnlyWhenFull /\ []PanicsOnlyOverlapped

(* Accepted jobs settle, blocked senders get through and Stop returns. *)
RunnerProgress == AcceptedSettles /\ MustEnqueueUnblocks /\ StopTerminates
=============================================================================
