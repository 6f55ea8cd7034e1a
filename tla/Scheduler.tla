----------------------------- MODULE Scheduler -----------------------------
(***************************************************************************)
(* The life of the recurring jobs of pantry/jobs/scheduler.go: Add,        *)
(* AddCron, Start, Stop, Remove, and one goroutine per started entry.      *)
(*                                                                         *)
(* Start and startJob replace s.stopCh and entry.stopCh; a goroutine reads *)
(* the two fields each time it enters its select and then waits on the     *)
(* channels it read.  Channels are therefore numbered: s.stopCh by the     *)
(* calls of Start, entry.stopCh by the times the entry was started.  What  *)
(* executeJob does with locks and history is module JobLock.               *)
(***************************************************************************)
EXTENDS Integers, FiniteSets

CONSTANTS Entries,      \* entries, one for each successful Add or AddCron
          NameOf,       \* job name of an entry
          KindOf,       \* "interval" or "cron": the map it is kept in
          Immediate,    \* interval entries with RunImmediately
          MaxStarts,    \* bound: calls of Start that find it stopped
          Stoppers      \* goroutines that call Stop

Names == {NameOf[e] : e \in Entries}

ASSUME SchedulerAssumption ==
    /\ IsFiniteSet(Entries)
    /\ KindOf \in [Entries -> {"interval", "cron"}]
    /\ \A e \in Immediate : e \in Entries /\ KindOf[e] = "interval"
    /\ MaxStarts \in Nat

VARIABLES added,      \* entries created so far
          jobs,       \* entries registered in s.jobs and s.cronJobs
          running,    \* s.running
          stopCh,     \* number of the channel in s.stopCh
          closed,     \* numbers of the scheduler's closed channels
          entryCh,    \* number of the channel in each entry.stopCh
          entryClosed,\* closed channels of entries, as <<entry, number>>
          loop,       \* goroutines <<entry, number>>: where they are
          sees,       \* channels a goroutine's select waits on, <<0, 0>> outside it
          wg,         \* counter of s.wg
          stop,       \* each call of Stop: "none", "waiting", "nil" or "ctxerr"
          waiter,     \* its goroutine: "none", "in" Wait or before it, "woken" by the
                      \* last Done, "back" after close(done)
          crashed     \* s.wg.Wait panicked

vars == <<added, jobs, running, stopCh, closed, entryCh, entryClosed, loop, sees, wg,
          stop, waiter, crashed>>

(* An entry is started at most once in each run: by Start, or by an Add that finds
   the scheduler running. *)
Loops == Entries \X (1..MaxStarts)
Live == {l \in Loops : loop[l] \in {"entering", "select", "executing"}}

Init ==
    /\ added = {}
    /\ jobs = {}
    /\ running = FALSE
    /\ stopCh = 0
    /\ closed = {}
    /\ entryCh = [e \in Entries |-> 0]
    /\ entryClosed = {}
    /\ loop = [l \in Loops |-> "unborn"]
    /\ sees = [l \in Loops |-> <<0, 0>>]
    /\ wg = 0
    /\ stop = [s \in Stoppers |-> "none"]
    /\ waiter = [s \in Stoppers |-> "none"]
    /\ crashed = FALSE

----------------------------------------------------------------------------
(* startJob and startCronJob for every entry of S. *)
StartEntries(S, counted) ==
    /\ entryCh' = [e \in Entries |-> IF e \in S THEN entryCh[e] + 1 ELSE entryCh[e]]
    /\ loop' = [l \in Loops |->
                  IF l[1] \in S /\ l[2] = entryCh[l[1]] + 1
                  THEN IF l[1] \in Immediate THEN "executing" ELSE "entering"
                  ELSE loop[l]]
    /\ wg' = wg + counted

(* Registration of e; the entries of S are started. *)
Register(e, S) ==
    /\ e \notin added
    /\ \A f \in jobs : ~(NameOf[f] = NameOf[e] /\ KindOf[f] = KindOf[e])
    /\ added' = added \cup {e}
    /\ jobs' = jobs \cup {e}
    /\ StartEntries(S, Cardinality(S))
    /\ UNCHANGED <<running, stopCh, closed, entryClosed, sees, stop, waiter, crashed>>

(* Mutant: Add starts the job whether or not the scheduler runs. *)
AddStarts(e) == Register(e, {e})
(* Add and AddCron refuse a name that their own map already has. *)
Add(e) == Register(e, IF running THEN {e} ELSE {})

Begin(counted) ==
    /\ ~running
    /\ stopCh < MaxStarts
    /\ running' = TRUE
    /\ stopCh' = stopCh + 1
    /\ StartEntries(jobs, counted)
    /\ UNCHANGED <<added, jobs, closed, entryClosed, sees, stop, waiter, crashed>>

Start == Begin(Cardinality(jobs))

(* select reads s.stopCh and entry.stopCh. *)
EnterSelect(l) ==
    /\ loop[l] = "entering"
    /\ loop' = [loop EXCEPT ![l] = "select"]
    /\ sees' = [sees EXCEPT ![l] = <<stopCh, entryCh[l[1]]>>]
    /\ UNCHANGED <<added, jobs, running, stopCh, closed, entryCh, entryClosed, wg, stop,
                   waiter, crashed>>

(* The ticker or the cron timer fires. *)
Fire(l) ==
    /\ loop[l] = "select"
    /\ loop' = [loop EXCEPT ![l] = "executing"]
    /\ sees' = [sees EXCEPT ![l] = <<0, 0>>]
    /\ UNCHANGED <<added, jobs, running, stopCh, closed, entryCh, entryClosed, wg, stop,
                   waiter, crashed>>

(* executeJob returns. *)
Executed(l) ==
    /\ loop[l] = "executing"
    /\ loop' = [loop EXCEPT ![l] = "entering"]
    /\ UNCHANGED <<added, jobs, running, stopCh, closed, entryCh, entryClosed, sees, wg, stop,
                   waiter, crashed>>

(* The deferred Done that brings the counter to zero wakes the goroutines of Stop
   that are in Wait by then. *)
LoopEnds(l) ==
    /\ loop[l] = "select"
    /\ sees[l][1] \in closed \/ <<l[1], sees[l][2]>> \in entryClosed
    /\ loop' = [loop EXCEPT ![l] = "ended"]
    /\ sees' = [sees EXCEPT ![l] = <<0, 0>>]
    /\ wg' = wg - 1
    /\ \E W \in SUBSET {s \in Stoppers : waiter[s] = "in" /\ wg = 1} :
          waiter' = [s \in Stoppers |-> IF s \in W THEN "woken" ELSE waiter[s]]
    /\ UNCHANGED <<added, jobs, running, stopCh, closed, entryCh, entryClosed, stop, crashed>>

Halt(s, channels) ==
    /\ stop[s] = "none"
    /\ IF running
       THEN /\ running' = FALSE
            /\ closed' = closed \cup channels
            /\ stop' = [stop EXCEPT ![s] = "waiting"]
            /\ waiter' = [waiter EXCEPT ![s] = "in"]
       ELSE /\ stop' = [stop EXCEPT ![s] = "nil"]
            /\ UNCHANGED <<running, closed, waiter>>
    /\ UNCHANGED <<added, jobs, stopCh, entryCh, entryClosed, loop, sees, wg, crashed>>

Stop(s) == Halt(s, {stopCh})

(* Wait returns at once on a zero counter; woken, it panics if Start has added to
   the counter since ("WaitGroup is reused before previous Wait has returned"). *)
WaitReturns(s) ==
    /\ waiter[s] = "woken" \/ (waiter[s] = "in" /\ wg = 0)
    /\ waiter' = [waiter EXCEPT ![s] = "back"]
    /\ crashed' = (wg > 0)
    /\ UNCHANGED <<added, jobs, running, stopCh, closed, entryCh, entryClosed, loop, sees, wg, stop>>

StopReturns(s) ==
    /\ stop[s] = "waiting"
    /\ \/ waiter[s] = "back" /\ stop' = [stop EXCEPT ![s] = "nil"]
       \/ stop' = [stop EXCEPT ![s] = "ctxerr"]
    /\ UNCHANGED <<added, jobs, running, stopCh, closed, entryCh, entryClosed, loop, sees, wg,
                   waiter, crashed>>

Matching(n, k) == {e \in jobs : NameOf[e] = n /\ KindOf[e] = k}

(* Remove looks in s.jobs first, then in s.cronJobs. *)
Drop(n, closes) ==
    LET first == Matching(n, "interval")
        S == IF first # {} THEN first ELSE Matching(n, "cron")
    IN /\ S # {}
       /\ jobs' = jobs \ S
       /\ entryClosed' = entryClosed \cup {<<e, entryCh[e]>> : e \in IF closes THEN S ELSE {}}
       /\ UNCHANGED <<added, running, stopCh, closed, entryCh, loop, sees, wg, stop,
                      waiter, crashed>>


Remove(n) == Drop(n, TRUE)

LoopStep(l) == EnterSelect(l) \/ Fire(l) \/ Executed(l) \/ LoopEnds(l)

Next ==
    /\ ~crashed
    /\ \/ \E e \in Entries : Add(e)
       \/ Start
       \/ \E l \in Loops : LoopStep(l)
       \/ \E s \in Stoppers : Stop(s) \/ WaitReturns(s) \/ StopReturns(s)
       \/ \E n \in Names : Remove(n)

Spec == Init /\ [][Next]_vars

(* Goroutines run, handlers return (their context has a timeout), and a select
   that finds a closed channel ready again and again takes it. *)
FairSpec ==
    /\ Spec
    /\ \A l \in Loops : /\ WF_vars(~crashed /\ (EnterSelect(l) \/ Executed(l)))
                        /\ SF_vars(~crashed /\ LoopEnds(l))
    /\ \A s \in Stoppers : WF_vars(~crashed /\ (WaitReturns(s) \/ StopReturns(s)))

----------------------------------------------------------------------------
(* As long as the scheduler was started once, an entry has at most one goroutine:
   started by the Start that found it registered or by the Add that found the
   scheduler running, never by both. *)
OneLoop == stopCh <= 1 => \A l, m \in Live : l[1] = m[1] => l = m

(* The goroutine of Stop reports that all is done (scheduler.go:439) only when every
   goroutine is gone, the ones of jobs removed, added or restarted meanwhile
   included.  Only a Start that comes after that can have goroutines of its own
   when Stop returns nil. *)
StopLeavesNothing ==
    [][\A s \in Stoppers : waiter[s] # "back" /\ waiter'[s] = "back" =>
          Live = {} \/ crashed']_vars

(* A goroutine that was executing its job while Stop and then Start were called: it
   reads the fields s.stopCh and entry.stopCh that Start has replaced
   (scheduler.go:262) and goes on beside the entry's new goroutine. *)
Outlives(l) ==
    /\ l[1] \in jobs /\ l[2] < entryCh[l[1]]
    /\ loop[l] = "select" /\ sees[l] = <<stopCh, entryCh[l[1]]>>

(* "Stop gracefully stops all scheduled jobs" (scheduler.go:423), "Remove stops and
   removes a scheduled job by name" (:452): a goroutine that lives when Stop closes
   its channel ends, unless it executes its job until the scheduler is started
   again; one whose entry is removed ends in any case. *)
ToldLoopsEnd ==
    \A l \in Loops : l \in Live /\ (stopCh \in closed \/ l[1] \notin jobs) ~>
        l \notin Live \/ Outlives(l) \/ crashed

(* A Stop returns once the handlers have, and the process panics in it only if the
   scheduler was started again while it waited. *)
StopsReturn ==
    /\ \A s \in Stoppers : stop[s] = "waiting" ~> stop[s] # "waiting" \/ crashed
    /\ [](crashed => stopCh > 1)

(* A registered job of a running scheduler keeps its goroutine, so that it goes
   on recurring. *)
RegisteredRuns ==
    running => \A e \in jobs : \E l \in Live : l[1] = e

(* Entries and goroutines match while the scheduler runs: Add and Start, in
   whichever order they meet, start each entry exactly once. *)
LoopsMatchEntries == OneLoop /\ RegisteredRuns

=============================================================================
