---------------------------- MODULE RunnerProofs ----------------------------
(***************************************************************************)
(* For every set of jobs and workers, queue size, number of retries and    *)
(* pattern of Start and Stop calls: a job is in one place at a time, what  *)
(* was reported is final, the runner implements JobLife, and a Stop that   *)
(* returns nil leaves no worker of a Start that had returned before it.    *)
(***************************************************************************)
EXTENDS Runner, FiniteSetTheorems, TLAPS

(* Appending to a channel adds its element and keeps a list free of
   duplicates if the element is new. *)
LEMMA AppendFacts ==
    ASSUME NEW S, NEW q \in Seq(S), NEW e \in S
    PROVE  /\ Append(q, e) \in Seq(S)
           /\ Len(Append(q, e)) = Len(q) + 1
           /\ Range(Append(q, e)) = Range(q) \cup {e}
           /\ (\A m, n \in DOMAIN q : q[m] = q[n] => m = n) /\ e \notin Range(q) =>
                \A m, n \in DOMAIN Append(q, e) :
                    Append(q, e)[m] = Append(q, e)[n] => m = n
<1> DEFINE a == Append(q, e)
<1>1. a \in Seq(S) /\ Len(a) = Len(q) + 1
  OBVIOUS
<1>2. DOMAIN q = 1..Len(q) /\ DOMAIN a = 1..(Len(q) + 1) /\ Len(q) \in Nat
  BY <1>1
<1>3. \A m \in 1..Len(q) : a[m] = q[m]
  OBVIOUS
<1>4. a[Len(q) + 1] = e
  OBVIOUS
<1> HIDE DEF a
<1>5. Range(a) = Range(q) \cup {e}
  BY <1>2, <1>3, <1>4 DEF Range
<1>6. ASSUME \A m, n \in DOMAIN q : q[m] = q[n] => m = n, e \notin Range(q),
             NEW m \in DOMAIN a, NEW n \in DOMAIN a, a[m] = a[n]
      PROVE  m = n
  BY <1>2, <1>3, <1>4, <1>6 DEF Range
<1> QED
  BY <1>1, <1>5, <1>6 DEF a

(* Receiving from a channel without duplicates removes exactly its head. *)
LEMMA TailFacts ==
    ASSUME NEW S, NEW q \in Seq(S), q # <<>>,
           \A m, n \in DOMAIN q : q[m] = q[n] => m = n
    PROVE  /\ Head(q) \in S /\ Head(q) \in Range(q)
           /\ Tail(q) \in Seq(S)
           /\ Len(Tail(q)) = Len(q) - 1
           /\ Range(Tail(q)) = Range(q) \ {Head(q)}
           /\ \A m, n \in DOMAIN Tail(q) : Tail(q)[m] = Tail(q)[n] => m = n
<1> DEFINE t == Tail(q)
<1>1. /\ t \in Seq(S) /\ Len(t) = Len(q) - 1 /\ Len(q) \in Nat /\ Len(q) > 0
      /\ Head(q) = q[1] /\ Head(q) \in S
  OBVIOUS
<1>2. DOMAIN q = 1..Len(q) /\ DOMAIN t = 1..(Len(q) - 1)
  BY <1>1
<1>3. \A m \in 1..(Len(q) - 1) : t[m] = q[m + 1]
  OBVIOUS
<1> HIDE DEF t
<1>4. Range(t) \subseteq Range(q) \ {Head(q)}
  BY <1>1, <1>2, <1>3 DEF Range
<1>5. ASSUME NEW x \in Range(q), x # Head(q)
      PROVE  x \in Range(t)
  <2>1. PICK m \in 1..Len(q) : x = q[m]
    BY <1>2 DEF Range
  <2>2. m - 1 \in 1..(Len(q) - 1) /\ t[m - 1] = x
    BY <1>1, <1>3, <1>5, <2>1
  <2> QED
    BY <1>2, <2>2 DEF Range
<1>6. \A m, n \in DOMAIN t : t[m] = t[n] => m = n
  BY <1>1, <1>2, <1>3
<1>7. Head(q) \in Range(q)
  BY <1>1, <1>2 DEF Range
<1> QED
  BY <1>1, <1>4, <1>5, <1>6, <1>7 DEF t

----------------------------------------------------------------------------
Placed == Queued \cup InFlight \cup timers

(* The parts of TypeOK about jobs. *)
JobTypes ==
    /\ handlers \subseteq Types
    /\ queue \in Seq(Jobs) /\ Len(queue) <= QueueSize
    /\ worker \in [Goroutines -> Jobs \cup {"unborn", "due", "idle", "gone"}]
    /\ starts \in 0..MaxStarts
    /\ timers \subseteq Jobs
    /\ attempts \in [Jobs -> 0..MaxRetries]
    /\ submit \in [Jobs -> {"new", "blocked", "accepted"}]
    /\ outcome \in [Jobs -> {"none", "success", "error"}]

(* A job not yet accepted is nowhere and untouched. *)
Fresh ==
    \A j \in Jobs : submit[j] # "accepted" =>
        j \notin Placed /\ attempts[j] = 0 /\ outcome[j] = "none"

(* A job that waits may still be attempted. *)
TriesLeft == \A j \in Queued \cup timers : attempts[j] < MaxRetries

(* Goroutines of a later Start, and only those, have not been asked for yet. *)
Unborn == \A g \in Goroutines : g[2] > starts <=> worker[g] = "unborn"

JobInv == JobTypes /\ OnePlace /\ ReportedIsFinal /\ Fresh /\ TriesLeft /\ Unborn

LEMMA JobInit == Init => JobInv
<1> SUFFICES ASSUME Init PROVE JobInv
  OBVIOUS
<1>1. Queued = {} /\ Busy = {} /\ InFlight = {}
  BY RunnerAssumption DEF Init, Queued, Range, Busy, InFlight
<1>2. JobTypes
  BY RunnerAssumption DEF Init, JobTypes
<1>3. OnePlace
  BY <1>1 DEF Init, OnePlace
<1>4. Unborn
  BY RunnerAssumption DEF Init, Unborn, Goroutines
<1> QED
  BY <1>1, <1>2, <1>3, <1>4 DEF Init, JobInv, ReportedIsFinal, Fresh, TriesLeft, Placed

(* A goroutine is busy with job j exactly when j is in flight. *)
LEMMA InFlightFacts ==
    ASSUME NEW j PROVE j \in InFlight <=> j \in Jobs /\ \E g \in Goroutines : worker[g] = j
BY DEF InFlight, Busy

(* A submitted job enters the queue. *)
LEMMA AcceptStep ==
    ASSUME JobInv, NEW j \in Jobs, submit[j] # "accepted", ~Full,
           queue' = Append(queue, j),
           submit' = [submit EXCEPT ![j] = "accepted"],
           UNCHANGED <<handlers, worker, timers, attempts, outcome, lifeVars>>
    PROVE  JobInv' /\ Queued' = Queued \cup {j} /\ InFlight' = InFlight
<1> USE DEF JobInv
<1>1. j \notin Placed /\ attempts[j] = 0 /\ outcome[j] = "none"
  BY DEF Fresh
<1>2. InFlight' = InFlight /\ Busy' = Busy
  BY DEF InFlight, Busy
<1>3. /\ Queued' = Queued \cup {j}
      /\ queue' \in Seq(Jobs) /\ Len(queue') = Len(queue) + 1
      /\ \A m, n \in DOMAIN queue' : queue'[m] = queue'[n] => m = n
  <2>1. queue \in Seq(Jobs) /\ (\A m, n \in DOMAIN queue : queue[m] = queue[n] => m = n) /\ j \notin Range(queue)
    BY <1>1 DEF JobTypes, OnePlace, Placed, Queued
  <2>2. /\ Append(queue, j) \in Seq(Jobs) /\ Len(Append(queue, j)) = Len(queue) + 1
        /\ Range(Append(queue, j)) = Range(queue) \cup {j}
        /\ \A m, n \in DOMAIN Append(queue, j) : Append(queue, j)[m] = Append(queue, j)[n] => m = n
    BY ONLY <2>1, AppendFacts, j \in Jobs
  <2>3. Queued' = Range(queue') /\ Queued = Range(queue) /\ queue' = Append(queue, j)
    BY DEF Queued
  <2> QED BY ONLY <2>2, <2>3
<1>4. Len(queue') <= QueueSize
  BY <1>3, RunnerAssumption DEF JobTypes, Full
<1>5. JobTypes'
  BY <1>3, <1>4 DEF JobTypes, lifeVars
<1>6. OnePlace'
  BY <1>1, <1>2, <1>3 DEF OnePlace, Placed
<1>7. ReportedIsFinal' /\ Fresh' /\ TriesLeft'
  BY <1>1, <1>2, <1>3, RunnerAssumption
     DEF ReportedIsFinal, Fresh, TriesLeft, Placed, JobTypes
<1>8. Unborn'
  BY DEF Unborn, lifeVars
<1> QED
  BY <1>2, <1>3, <1>5, <1>6, <1>7, <1>8

(* Every step of the runner keeps the inductive invariant about jobs. *)
LEMMA JobStep == JobInv /\ [Next]_vars => JobInv'
<1> SUFFICES ASSUME JobInv, [Next]_vars PROVE JobInv'
  OBVIOUS
<1> USE DEF JobInv
<1>1. ASSUME NEW t \in Types, Register(t) PROVE JobInv'
  BY <1>1 DEF Register, lifeVars, JobTypes, OnePlace, ReportedIsFinal, Fresh,
     TriesLeft, Unborn, Placed, Queued, InFlight, Busy
<1>2. ASSUME NEW j \in Jobs, Enqueue(j) PROVE JobInv'
  BY <1>2, AcceptStep DEF Enqueue
<1>3. ASSUME NEW j \in Jobs, MustEnqueueBlocks(j) PROVE JobInv'
  BY <1>3 DEF MustEnqueueBlocks, lifeVars, JobTypes, OnePlace, ReportedIsFinal,
     Fresh, TriesLeft, Unborn, Placed, Queued, InFlight, Busy
<1>4. ASSUME NEW j \in Jobs, MustEnqueueResumes(j) PROVE JobInv'
  BY <1>4, AcceptStep DEF MustEnqueueResumes
<1>5. ASSUME NEW j \in Jobs, RetryFires(j) PROVE JobInv'
  <2> USE <1>5 DEF RetryFires, TimerFires
  <2>1. InFlight' = InFlight /\ Busy' = Busy
    BY DEF InFlight, Busy
  <2>2. j \notin Queued \cup InFlight /\ outcome[j] = "none" /\ submit[j] = "accepted"
    BY DEF OnePlace, ReportedIsFinal, Fresh, Placed
  <2>3. /\ Queued' \in {Queued, Queued \cup {j}}
        /\ queue' \in Seq(Jobs) /\ Len(queue') <= QueueSize
        /\ \A m, n \in DOMAIN queue' : queue'[m] = queue'[n] => m = n
    <3>1. CASE Full
      BY <3>1 DEF Queued, OnePlace, JobTypes
    <3>2. CASE ~Full
      <4>1. queue' = Append(queue, j)
        BY <3>2
      <4>2. /\ queue' \in Seq(Jobs) /\ Len(queue') = Len(queue) + 1
            /\ Queued' = Queued \cup {j}
            /\ \A m, n \in DOMAIN queue' : queue'[m] = queue'[n] => m = n
        <5>1. /\ queue \in Seq(Jobs) /\ j \notin Range(queue)
              /\ \A m, n \in DOMAIN queue : queue[m] = queue[n] => m = n
          BY <2>2 DEF Queued, OnePlace, JobTypes
        <5> HIDE <1>5
        <5> QED
          BY <4>1, <5>1, AppendFacts DEF Queued
      <4> QED
        BY <3>2, <4>2, RunnerAssumption DEF JobTypes, Full
    <3> QED
      BY <3>1, <3>2
  <2>4. JobTypes'
    BY <2>3 DEF JobTypes, lifeVars
  <2>5. OnePlace'
    BY <2>1, <2>2, <2>3 DEF OnePlace
  <2>6. ReportedIsFinal' /\ Fresh' /\ TriesLeft' /\ Unborn'
    BY <2>1, <2>2, <2>3 DEF ReportedIsFinal, Fresh, TriesLeft, Unborn, Placed, lifeVars
  <2> QED
    BY <2>4, <2>5, <2>6
<1>6. ASSUME NEW g \in Goroutines, Take(g) PROVE JobInv'
  <2> DEFINE j == Head(queue)
  <2>1. /\ j \in Jobs /\ j \in Queued
        /\ queue' \in Seq(Jobs) /\ Len(queue') <= QueueSize
        /\ Queued' = Queued \ {j}
        /\ \A m, n \in DOMAIN queue' : queue'[m] = queue'[n] => m = n
    <3>1. /\ queue \in Seq(Jobs) /\ Len(queue) <= QueueSize /\ queue # <<>>
          /\ queue' = Tail(queue)
          /\ \A m, n \in DOMAIN queue : queue[m] = queue[n] => m = n
      BY <1>6 DEF Take, JobTypes, OnePlace
    <3>2. /\ j \in Jobs /\ j \in Range(queue)
          /\ queue' \in Seq(Jobs) /\ Len(queue') = Len(queue) - 1
          /\ Range(queue') = Range(queue) \ {j}
          /\ \A m, n \in DOMAIN queue' : queue'[m] = queue'[n] => m = n
      BY <3>1, TailFacts
    <3> QED
      BY <3>1, <3>2, RunnerAssumption DEF Queued
  <2>2. /\ j \notin InFlight /\ j \notin timers
        /\ outcome[j] = "none" /\ submit[j] = "accepted" /\ attempts[j] < MaxRetries
    BY <2>1 DEF OnePlace, ReportedIsFinal, Fresh, TriesLeft, Placed
  <2> HIDE DEF j
  <2>3. CASE TypeOf[j] \in handlers
    <3>1. /\ worker' = [worker EXCEPT ![g] = j]
          /\ attempts' = [attempts EXCEPT ![j] = @ + 1]
          /\ UNCHANGED outcome
      BY <1>6, <2>3 DEF Take, j
    <3>2. worker[g] = "idle" /\ UNCHANGED <<handlers, timers, submit, lifeVars>>
      BY <1>6 DEF Take
    <3>3. InFlight' = InFlight \cup {j}
      BY <2>1, <3>1, <3>2, RunnerAssumption DEF InFlight, Busy, JobTypes
    <3>4. JobTypes'
      BY <2>1, <2>2, <3>1, <3>2, RunnerAssumption DEF JobTypes, lifeVars
    <3>5. \A x, y \in Busy' : worker'[x] = worker'[y] => x = y
      BY <2>1, <2>2, <3>1, <3>2 DEF JobTypes, OnePlace, Busy, InFlight
    <3>6. OnePlace'
      BY <2>1, <2>2, <3>2, <3>3, <3>5 DEF OnePlace
    <3>7. ReportedIsFinal' /\ Fresh' /\ TriesLeft'
      BY <2>1, <2>2, <3>1, <3>2, <3>3 DEF ReportedIsFinal, Fresh, TriesLeft, Placed, JobTypes, OnePlace
    <3>8. Unborn'
      <4>1. j # "unborn" /\ worker[g] # "unborn"
        BY <2>1, <3>2, RunnerAssumption
      <4> QED
        BY <3>1, <3>2, <4>1 DEF Unborn, lifeVars, JobTypes
    <3> QED
      BY <3>4, <3>6, <3>7, <3>8
  <2>4. CASE TypeOf[j] \notin handlers
    <3>1. /\ outcome' = [outcome EXCEPT ![j] = "error"]
          /\ UNCHANGED <<worker, attempts, handlers, timers, submit, lifeVars>>
      BY <1>6, <2>4 DEF Take, j
    <3>2. InFlight' = InFlight /\ Busy' = Busy
      BY <3>1 DEF InFlight, Busy
    <3>3. JobTypes'
      BY <2>1, <3>1 DEF JobTypes, lifeVars
    <3>4. OnePlace'
      BY <2>1, <3>1, <3>2 DEF OnePlace
    <3>5. ReportedIsFinal' /\ Fresh' /\ TriesLeft' /\ Unborn'
      BY <2>1, <2>2, <3>1, <3>2
         DEF ReportedIsFinal, Fresh, TriesLeft, Unborn, Placed, JobTypes, lifeVars
    <3> QED
      BY <3>3, <3>4, <3>5
  <2> QED
    BY <2>3, <2>4
<1>7. ASSUME NEW g \in Goroutines, NEW ok \in BOOLEAN, process(g, ok) PROVE JobInv'
  <2> DEFINE j == worker[g]
  <2>1. /\ j \in Jobs /\ j \in InFlight
        /\ worker' = [worker EXCEPT ![g] = "idle"]
        /\ UNCHANGED <<handlers, queue, attempts, submit, lifeVars>>
    BY <1>7 DEF process, Process, InFlight, Busy
  <2>2. \/ outcome' = [outcome EXCEPT ![j] = "success"] /\ timers' = timers
        \/ outcome' = [outcome EXCEPT ![j] = "error"] /\ timers' = timers
        \/ /\ outcome' = outcome /\ timers' = timers \cup {j}
           /\ attempts[j] < MaxRetries
    BY <1>7 DEF process, Process, JobInv, JobTypes
  <2>3. /\ j \notin Queued /\ j \notin timers
        /\ outcome[j] = "none" /\ submit[j] = "accepted"
    BY <2>1 DEF OnePlace, ReportedIsFinal, Fresh, Placed
  <2>4. Queued' = Queued /\ InFlight' = InFlight \ {j}
    <3>1. Queued' = Queued
      BY <2>1 DEF Queued
    <3>2. \A h \in Goroutines : h # g /\ worker[h] \in Jobs => worker[h] # j
      BY <2>1 DEF OnePlace, Busy
    <3>3. InFlight' = InFlight \ {j}
      BY <2>1, <3>2, RunnerAssumption DEF InFlight, Busy, JobTypes
    <3> QED
      BY <3>1, <3>3
  <2>5. \A x, y \in Busy' : worker'[x] = worker'[y] => x = y
    BY <2>1, RunnerAssumption DEF OnePlace, Busy, JobTypes
  <2> HIDE DEF j
  <2>6. JobTypes'
    BY <2>1, <2>2 DEF JobTypes, lifeVars
  <2>7. OnePlace'
    BY <2>1, <2>2, <2>3, <2>4, <2>5 DEF OnePlace
  <2>8. ReportedIsFinal' /\ Fresh' /\ TriesLeft'
    BY <2>1, <2>2, <2>3, <2>4 DEF ReportedIsFinal, Fresh, TriesLeft, Placed, JobTypes
  <2>9. Unborn'
    BY <2>1, RunnerAssumption DEF Unborn, lifeVars, JobTypes, j
  <2> QED
    BY <2>6, <2>7, <2>8, <2>9
<1>8. ASSUME NEW g \in Goroutines, WorkerStops(g) PROVE JobInv'
  <2>1. /\ worker[g] = "idle" /\ worker' = [worker EXCEPT ![g] = "gone"]
        /\ UNCHANGED <<handlers, queue, timers, attempts, submit, outcome, starts>>
    BY <1>8 DEF WorkerStops, WorkerExits
  <2>2. Queued' = Queued /\ Busy' = Busy /\ InFlight' = InFlight
    BY <2>1, RunnerAssumption DEF Queued, InFlight, Busy, JobTypes
  <2>3. OnePlace'
    BY <2>1, <2>2, RunnerAssumption DEF OnePlace, JobTypes, Busy
  <2> QED
    BY <2>1, <2>2, <2>3 DEF JobTypes, ReportedIsFinal, Fresh, TriesLeft, Unborn, Placed
<1>9. CASE Start
  <2>1. /\ worker' = [g \in Goroutines |-> IF g[2] = starts + 1 THEN "due" ELSE worker[g]]
        /\ starts < MaxStarts /\ starts' = starts + 1
        /\ UNCHANGED <<handlers, queue, timers, attempts, submit, outcome>>
    BY <1>9 DEF Start
  <2>2. \A g \in Goroutines : g[2] \in Nat
    BY RunnerAssumption DEF Goroutines
  <2>3. \A g \in Goroutines : g[2] = starts + 1 => worker[g] = "unborn"
    BY <2>2 DEF Unborn, JobTypes
  <2>4. Queued' = Queued /\ Busy' = Busy /\ InFlight' = InFlight
    BY <2>1, <2>3, RunnerAssumption DEF Queued, InFlight, Busy, JobTypes
  <2>5. OnePlace'
    BY <2>1, <2>3, <2>4, RunnerAssumption DEF OnePlace, JobTypes, Busy
  <2>6. JobTypes'
    BY <2>1, RunnerAssumption DEF JobTypes
  <2>7. Unborn'
    BY <2>1, <2>2 DEF Unborn, JobTypes
  <2> QED
    BY <2>1, <2>4, <2>5, <2>6, <2>7 DEF ReportedIsFinal, Fresh, TriesLeft, Placed
<1>10. ASSUME \/ WaitReturns
              \/ \E s \in Stoppers :
                   StopBegins(s) \/ StopCloses(s) \/ StopReturns(s) \/ StopTimesOut(s)
       PROVE  JobInv'
  BY <1>10 DEF WaitReturns, StopBegins, EnterStop, StopCloses, StopReturns, StopTimesOut, jobVars,
     JobTypes, OnePlace, ReportedIsFinal, Fresh, TriesLeft, Unborn, Placed, Queued, InFlight, Busy
<1>12. ASSUME NEW g \in Goroutines, Spawn(g) PROVE JobInv'
  <2>1. /\ worker[g] = "due" /\ worker' = [worker EXCEPT ![g] = "idle"]
        /\ UNCHANGED <<handlers, queue, timers, attempts, submit, outcome, starts>>
    BY <1>12 DEF Spawn, SpawnCounting
  <2>2. Queued' = Queued /\ Busy' = Busy /\ InFlight' = InFlight
    BY <2>1, RunnerAssumption DEF Queued, InFlight, Busy, JobTypes
  <2>3. OnePlace'
    BY <2>1, <2>2, RunnerAssumption DEF OnePlace, JobTypes, Busy
  <2> QED
    BY <2>1, <2>2, <2>3 DEF JobTypes, ReportedIsFinal, Fresh, TriesLeft, Unborn, Placed
<1>11. CASE UNCHANGED vars
  BY <1>11 DEF vars, jobVars, lifeVars, JobTypes, OnePlace, ReportedIsFinal, Fresh,
     TriesLeft, Unborn, Placed, Queued, InFlight, Busy
<1> QED
  BY <1>1, <1>2, <1>3, <1>4, <1>5, <1>6, <1>7, <1>8, <1>9, <1>10, <1>11, <1>12
  DEF Next, WorkerStep

(* A job is never in two places at once, and a reported job is gone: what
   process relies on when it writes the job without a lock. *)
THEOREM JobSafety == Spec => [](OnePlace /\ ReportedIsFinal)
<1>1. JobInv => OnePlace /\ ReportedIsFinal
  BY DEF JobInv
<1> QED
  BY <1>1, JobInit, JobStep, PTL DEF Spec

----------------------------------------------------------------------------
(* The wait group of Stop counts the workers that were spawned and have not
   returned. *)
Live == {g \in Goroutines : worker[g] \notin {"unborn", "due", "gone"}}

WgInv ==
    /\ wg = Cardinality(Live)
    /\ running \in BOOLEAN /\ stopClosed \in BOOLEAN /\ crashed \in BOOLEAN
    /\ waiter \in {"none", "in", "woken", "back"}
    /\ covered \subseteq 1..MaxStarts
    /\ stop \in [Stoppers -> {"none", "closing", "waiting", "nil", "ctxerr"}]

(* They are finitely many. *)
LEMMA LiveFinite == IsFiniteSet(Live) /\ Cardinality(Live) \in Nat
<1>1. IsFiniteSet(1..MaxStarts)
  BY RunnerAssumption, FS_Interval
<1>2. IsFiniteSet(Goroutines)
  <2>1. IsFiniteSet(1..Workers)
    BY RunnerAssumption, FS_Interval
  <2> QED
    BY <1>1, <2>1, FS_Product DEF Goroutines
<1>3. Live \in SUBSET Goroutines
  BY DEF Live
<1>4. IsFiniteSet(Live)
  BY <1>2, <1>3, FS_Subset
<1> QED
  BY <1>4, FS_CardinalityType

LEMMA WgStep == JobInv /\ WgInv /\ [Next]_vars => WgInv'
<1> SUFFICES ASSUME JobInv, WgInv, [Next]_vars PROVE WgInv'
  OBVIOUS
<1>0. worker \in [Goroutines -> Jobs \cup {"unborn", "due", "idle", "gone"}]
  BY DEF JobInv, JobTypes
<1>1. ASSUME UNCHANGED <<worker, lifeVars>> PROVE WgInv'
  BY <1>1 DEF WgInv, Live, lifeVars, stopVars
<1>2. ASSUME NEW t \in Types, Register(t) PROVE WgInv'
  BY <1>1, <1>2 DEF Register
<1>3. ASSUME NEW j \in Jobs,
             Enqueue(j) \/ MustEnqueueBlocks(j) \/ MustEnqueueResumes(j) \/ RetryFires(j)
      PROVE  WgInv'
  BY <1>1, <1>3 DEF Enqueue, MustEnqueueBlocks, MustEnqueueResumes, RetryFires, TimerFires
<1>4. ASSUME NEW g \in Goroutines, Take(g) PROVE WgInv'
  <2>1. UNCHANGED lifeVars /\ worker[g] = "idle"
    BY <1>4 DEF Take
  <2>2. Head(queue) \in Jobs
    BY <1>4, TailFacts DEF Take, JobInv, JobTypes, OnePlace
  <2>3. Live' = Live
    BY <1>0, <1>4, <2>1, <2>2, RunnerAssumption DEF Take, Live
  <2> QED
    BY <2>1, <2>3 DEF WgInv, lifeVars, stopVars
<1>5. ASSUME NEW g \in Goroutines, NEW ok \in BOOLEAN, process(g, ok) PROVE WgInv'
  <2>1. UNCHANGED lifeVars
    BY <1>5 DEF process, Process
  <2>2. Live' = Live
    BY <1>0, <1>5, RunnerAssumption DEF process, Process, Live
  <2> QED
    BY <2>1, <2>2 DEF WgInv, lifeVars, stopVars
<1>6. ASSUME NEW g \in Goroutines, WorkerStops(g) PROVE WgInv'
  <2>1. Live' = Live \ {g} /\ g \in Live
    BY <1>0, <1>6 DEF WorkerStops, WorkerExits, Live
  <2>2. Cardinality(Live') = Cardinality(Live) - 1
    BY <2>1, LiveFinite, FS_RemoveElement
  <2> QED
    BY <1>6, <2>2 DEF WorkerStops, WorkerExits, WgInv, stopVars
<1>7. CASE Start
  <2>1. Live' = Live
    BY <1>0, <1>7, RunnerAssumption DEF Start, Live, JobInv, Unborn, JobTypes, Goroutines
  <2> QED
    BY <1>7, <2>1 DEF Start, WgInv, stopVars
<1>10. ASSUME NEW g \in Goroutines, Spawn(g) PROVE WgInv'
  <2>1. Live' = Live \cup {g} /\ g \notin Live
    BY <1>0, <1>10 DEF Spawn, SpawnCounting, Live
  <2>2. Cardinality(Live') = Cardinality(Live) + 1
    BY <2>1, LiveFinite, FS_AddElement
  <2> QED
    BY <1>10, <2>2 DEF Spawn, SpawnCounting, WgInv, stopVars
<1>8. ASSUME NEW s \in Stoppers,
             StopBegins(s) \/ StopCloses(s) \/ StopReturns(s) \/ StopTimesOut(s)
      PROVE  WgInv'
  <2>1. worker' = worker
    BY <1>8 DEF StopBegins, EnterStop, StopCloses, StopReturns, StopTimesOut, jobVars
  <2>2. covered' \subseteq 1..MaxStarts
    <3>1. 1..starts \subseteq 1..MaxStarts
      BY RunnerAssumption DEF JobInv, JobTypes
    <3>2. CASE StopCloses(s)
      <4>1. covered' \subseteq 1..starts
        BY <3>2 DEF StopCloses
      <4> QED
        BY <3>1, <4>1
    <3> QED
      BY <1>8, <3>2 DEF StopBegins, EnterStop, StopReturns, StopTimesOut, WgInv
  <2> QED
    BY <1>8, <2>1, <2>2 DEF StopBegins, EnterStop, StopCloses, StopReturns, StopTimesOut, WgInv, Live
<1>11. CASE WaitReturns
  BY <1>11, LiveFinite DEF WaitReturns, jobVars, stopVars, WgInv, Live
<1>9. CASE UNCHANGED vars
  BY <1>1, <1>9 DEF vars, jobVars
<1> QED
  BY <1>2, <1>3, <1>4, <1>5, <1>6, <1>7, <1>8, <1>9, <1>10, <1>11 DEF Next, WorkerStep

LEMMA WgInit == Init => WgInv
<1> SUFFICES ASSUME Init PROVE WgInv
  OBVIOUS
<1>1. Live = {}
  BY DEF Init, Live
<1> QED
  BY <1>1, FS_EmptySet DEF Init, WgInv

(* The runner keeps its types; in particular the channel stays within its
   capacity, no job is attempted more than MaxRetries times and the wait group
   never goes below zero. *)
THEOREM RunnerTypes == Spec => []TypeOK
<1>1. JobInv /\ WgInv => TypeOK
  BY LiveFinite DEF JobInv, JobTypes, WgInv, TypeOK
<1> QED
  BY <1>1, JobInit, JobStep, WgInit, WgStep, PTL DEF Spec

(* Wait returns only when no worker is left of a Start whose loop was over when
   the channel was closed: such a Start adds nothing to the counter any more. *)
CoverInv ==
    /\ \A g \in Goroutines : g[2] \in covered => worker[g] \notin {"unborn", "due"}
    /\ waiter \in {"woken", "back"} =>
          \A g \in Goroutines : g[2] \in covered => worker[g] = "gone"

(* Every step keeps it. *)
LEMMA CoverStep == JobInv /\ WgInv /\ CoverInv /\ [Next]_vars => CoverInv'
<1> SUFFICES ASSUME JobInv, WgInv, CoverInv, [Next]_vars PROVE CoverInv'
  OBVIOUS
<1>0. worker \in [Goroutines -> Jobs \cup {"unborn", "due", "idle", "gone"}]
  BY DEF JobInv, JobTypes
<1>1. ASSUME UNCHANGED <<waiter, covered>>,
             \A g \in Goroutines :
                 /\ worker[g] \notin {"unborn", "due"} => worker'[g] \notin {"unborn", "due"}
                 /\ worker[g] = "gone" => worker'[g] = "gone"
      PROVE  CoverInv'
  BY <1>1 DEF CoverInv
<1>2. ASSUME \/ \E t \in Types : Register(t)
             \/ \E j \in Jobs : \/ Enqueue(j) \/ MustEnqueueBlocks(j)
                                \/ MustEnqueueResumes(j) \/ RetryFires(j)
             \/ \E s \in Stoppers : StopBegins(s) \/ StopReturns(s) \/ StopTimesOut(s)
             \/ UNCHANGED vars
      PROVE  CoverInv'
  <2>1. UNCHANGED <<waiter, covered, worker>>
    BY <1>2 DEF Register, Enqueue, MustEnqueueBlocks, MustEnqueueResumes, RetryFires, TimerFires,
       StopBegins, EnterStop, StopReturns, StopTimesOut, vars, jobVars, lifeVars, stopVars
  <2> QED
    BY <1>1, <2>1
<1>3. ASSUME NEW g \in Goroutines, Take(g) PROVE CoverInv'
  <2>1. Head(queue) \in Jobs
    BY <1>3, TailFacts DEF Take, JobInv, JobTypes, OnePlace
  <2>2. /\ worker' \in {worker, [worker EXCEPT ![g] = Head(queue)]}
        /\ worker[g] = "idle"
        /\ UNCHANGED <<waiter, covered>>
    BY <1>3 DEF Take, lifeVars, stopVars
  <2> QED
    BY <1>0, <1>1, <2>1, <2>2, RunnerAssumption
<1>4. ASSUME NEW g \in Goroutines, NEW ok \in BOOLEAN, process(g, ok) PROVE CoverInv'
  <2>1. /\ worker' = [worker EXCEPT ![g] = "idle"]
        /\ worker[g] \in Jobs
        /\ UNCHANGED <<waiter, covered>>
    BY <1>4 DEF process, Process, lifeVars, stopVars
  <2> QED
    BY <1>0, <1>1, <2>1, RunnerAssumption
<1>5. ASSUME NEW g \in Goroutines, Spawn(g) PROVE CoverInv'
  <2>1. /\ worker' = [worker EXCEPT ![g] = "idle"]
        /\ worker[g] = "due"
        /\ UNCHANGED <<waiter, covered>>
    BY <1>5 DEF Spawn, SpawnCounting, stopVars
  <2> QED
    BY <1>0, <1>1, <2>1
<1>6. CASE Start
  <2>1. \A g \in Goroutines : g[2] = starts + 1 => worker[g] = "unborn"
    BY RunnerAssumption DEF JobInv, JobTypes, Unborn, Goroutines
  <2>2. /\ worker' = [g \in Goroutines |-> IF g[2] = starts + 1 THEN "due" ELSE worker[g]]
        /\ UNCHANGED <<waiter, covered>>
    BY <1>6 DEF Start, stopVars
  <2> QED
    BY <1>0, <1>1, <2>1, <2>2
<1>7. ASSUME NEW g \in Goroutines, WorkerStops(g) PROVE CoverInv'
  <2>1. /\ worker' = [worker EXCEPT ![g] = "gone"]
        /\ worker[g] = "idle" /\ covered' = covered /\ wg' = wg - 1
    BY <1>7 DEF WorkerStops, WorkerExits, stopVars
  <2>2. CASE waiter' = waiter
    BY <1>0, <1>1, <2>1, <2>2
  <2>3. CASE wg = 1
    <3>1. WgInv'
      BY WgStep, <1>7 DEF Next, WorkerStep
    <3>2. Live' = {}
      <4>0. Live' = Live \ {g}
        BY <1>0, <2>1 DEF Live
      <4>1. IsFiniteSet(Live')
        BY <4>0, LiveFinite, FS_RemoveElement
      <4> QED
        BY <2>1, <2>3, <3>1, <4>1, FS_EmptySet DEF WgInv
    <3>3. \A h \in Goroutines : worker'[h] \in {"unborn", "due", "gone"}
      BY <3>2 DEF Live
    <3> QED
      BY <1>0, <2>1, <3>3 DEF CoverInv
  <2> QED
    BY <1>7, <2>2, <2>3 DEF WorkerStops, WorkerExits
<1>8. ASSUME NEW s \in Stoppers, StopCloses(s) PROVE CoverInv'
  <2>1. /\ worker' = worker /\ waiter' = "in"
        /\ covered' = {k \in 1..starts : \A g \in Goroutines : g[2] = k => worker[g] # "due"}
    BY <1>8 DEF StopCloses, jobVars
  <2>2. \A g \in Goroutines : g[2] \in 1..starts => worker[g] # "unborn"
    BY RunnerAssumption DEF JobInv, JobTypes, Unborn, Goroutines
  <2> QED
    BY <2>1, <2>2 DEF CoverInv
<1>9. CASE WaitReturns
  <2>1. /\ UNCHANGED <<worker, covered>> /\ waiter' = "back"
        /\ waiter = "woken" \/ wg = 0
    BY <1>9 DEF WaitReturns, jobVars, stopVars
  <2>2. CASE waiter = "woken"
    BY <2>1, <2>2 DEF CoverInv
  <2>3. CASE wg = 0
    <3>1. Live = {}
      BY <2>3, LiveFinite, FS_EmptySet DEF WgInv
    <3> QED
      BY <1>0, <2>1, <3>1 DEF CoverInv, Live
  <2> QED
    BY <2>1, <2>2, <2>3
<1> QED
  BY <1>2, <1>3, <1>4, <1>5, <1>6, <1>7, <1>8, <1>9 DEF Next, WorkerStep

(* It holds at first, when nothing is covered. *)
LEMMA CoverInit == Init => CoverInv
BY DEF Init, CoverInv

(* A Stop that returns nil leaves no worker of a Start that had returned when it
   closed the channel, whatever Start and Stop calls run beside it. *)
THEOREM GracefulStop == Spec => StopWaitsForWorkers
<1>1. ASSUME WgInv, CoverInv, [Next]_vars
      PROVE  [\A s \in Stoppers : stop[s] = "waiting" /\ stop'[s] = "nil" =>
                \A g \in Goroutines : g[2] \in covered => worker'[g] = "gone"]_vars
  <2> SUFFICES ASSUME Next, NEW s \in Stoppers, stop[s] = "waiting", stop'[s] = "nil",
                      NEW g \in Goroutines, g[2] \in covered
               PROVE  worker'[g] = "gone"
    BY <1>1
  <2>1. \E x \in Stoppers :
          StopBegins(x) \/ StopCloses(x) \/ StopReturns(x) \/ StopTimesOut(x)
    <3>1. stop' # stop
      OBVIOUS
    <3> QED
      BY <3>1 DEF Next, WorkerStep, Register, Enqueue, MustEnqueueBlocks, MustEnqueueResumes,
         RetryFires, TimerFires, Take, process, Process, WorkerStops, WorkerExits,
         Start, Spawn, SpawnCounting, WaitReturns, lifeVars, stopVars
  <2>2. StopReturns(s)
    BY <1>1, <2>1 DEF WgInv, StopBegins, EnterStop, StopCloses, StopReturns, StopTimesOut
  <2> QED
    BY <1>1, <2>2 DEF StopReturns, jobVars, CoverInv
<1> QED
  BY <1>1, JobInit, JobStep, WgInit, WgStep, CoverInit, CoverStep, PTL
  DEF Spec, StopWaitsForWorkers

----------------------------------------------------------------------------
(* The refinement: each step of the runner is a step of the abstract life of
   one job, or leaves every job as it was. *)
LEMMA LifeInit == Init => Life!Init
<1> SUFFICES ASSUME Init PROVE Life!Init
  OBVIOUS
<1>1. JobStatus = [j \in Jobs |-> "new"]
  BY DEF Init, JobStatus
<1> QED
  BY <1>1 DEF Init, Life!Init

LEMMA LifeStep == JobInv /\ JobInv' /\ [Next]_vars => [Life!Next]_(Life!vars)
<1> SUFFICES ASSUME JobInv, JobInv', [Next]_vars
             PROVE  Life!Next \/ UNCHANGED Life!vars
  BY DEF Life!vars
<1> USE DEF JobInv
<1>1. ASSUME UNCHANGED <<queue, timers, attempts, submit, outcome>>, InFlight' = InFlight
      PROVE  UNCHANGED Life!vars
  BY <1>1 DEF Life!vars, JobStatus, Queued
<1>2. ASSUME NEW t \in Types, Register(t) PROVE UNCHANGED Life!vars
  <2>1. InFlight' = InFlight
    BY <1>2 DEF Register, InFlight, Busy
  <2> QED
    BY <1>1, <1>2, <2>1 DEF Register
<1>3. ASSUME NEW j \in Jobs, Enqueue(j) \/ MustEnqueueResumes(j) PROVE Life!Accept(j)
  <2>1. /\ submit[j] # "accepted" /\ submit' = [submit EXCEPT ![j] = "accepted"]
        /\ UNCHANGED <<timers, attempts, outcome>>
        /\ Queued' = Queued \cup {j} /\ InFlight' = InFlight
    BY <1>3, AcceptStep DEF Enqueue, MustEnqueueResumes
  <2>2. outcome[j] = "none" /\ j \notin InFlight
    BY <2>1 DEF Fresh, Placed
  <2>3. JobStatus[j] = "new" /\ JobStatus' = [JobStatus EXCEPT ![j] = "waiting"]
    <3>1. JobStatus[j] = "new" /\ JobStatus'[j] = "waiting"
      BY <2>1, <2>2 DEF JobStatus, JobTypes
    <3>2. \A k \in Jobs \ {j} : JobStatus'[k] = JobStatus[k]
      BY <2>1 DEF JobStatus, JobTypes
    <3> QED
      BY <3>1, <3>2 DEF JobStatus
  <2> QED
    BY <2>1, <2>3 DEF Life!Accept, Life!Move
<1>4. ASSUME NEW j \in Jobs, MustEnqueueBlocks(j) PROVE UNCHANGED Life!vars
  <2>1. InFlight' = InFlight /\ Queued' = Queued
    BY <1>4 DEF MustEnqueueBlocks, InFlight, Busy, Queued
  <2>2. \A k \in Jobs : submit'[k] # "accepted" <=> submit[k] # "accepted"
    BY <1>4 DEF MustEnqueueBlocks, JobTypes
  <2> QED
    BY <1>4, <2>1, <2>2 DEF MustEnqueueBlocks, Life!vars, JobStatus
<1>5. ASSUME NEW j \in Jobs, RetryFires(j) PROVE Life!Lose(j) \/ UNCHANGED Life!vars
  <2>1. /\ j \in timers /\ timers' = timers \ {j}
        /\ UNCHANGED <<worker, attempts, submit, outcome>>
    BY <1>5 DEF RetryFires, TimerFires
  <2>2. InFlight' = InFlight
    BY <2>1 DEF InFlight, Busy
  <2>3. j \notin Queued /\ j \notin InFlight /\ outcome[j] = "none" /\ submit[j] = "accepted"
    BY <2>1 DEF OnePlace, ReportedIsFinal, Fresh, Placed
  <2>4. CASE Full
    <3>1. Queued' = Queued
      BY <1>5, <2>4 DEF RetryFires, TimerFires, Queued
    <3>2. JobStatus[j] = "waiting" /\ JobStatus' = [JobStatus EXCEPT ![j] = "lost"]
      BY <2>1, <2>2, <2>3, <3>1 DEF JobStatus
    <3> QED
      BY <2>1, <3>2 DEF Life!Lose, Life!Move
  <2>5. CASE ~Full
    <3>0. queue \in Seq(Jobs) /\ queue' = Append(queue, j)
      BY <1>5, <2>5 DEF RetryFires, TimerFires, JobTypes
    <3>1. Queued' = Queued \cup {j}
      BY <3>0, AppendFacts DEF Queued
    <3>2. JobStatus' = JobStatus
      BY <2>1, <2>2, <2>3, <3>1 DEF JobStatus
    <3> QED
      BY <2>1, <3>2 DEF Life!vars
  <2> QED
    BY <2>4, <2>5
<1>6. ASSUME NEW g \in Goroutines, Take(g)
      PROVE  \E j \in Jobs : Life!Begin(j) \/ Life!Reject(j)
  <2> DEFINE j == Head(queue)
  <2>1. j \in Jobs /\ j \in Queued /\ Queued' = Queued \ {j}
    <3>1. /\ queue \in Seq(Jobs) /\ queue # <<>> /\ queue' = Tail(queue)
          /\ \A m, n \in DOMAIN queue : queue[m] = queue[n] => m = n
      BY <1>6 DEF Take, JobTypes, OnePlace
    <3> QED
      BY <3>1, TailFacts DEF Queued
  <2>2. /\ j \notin InFlight /\ j \notin timers
        /\ outcome[j] = "none" /\ submit[j] = "accepted" /\ attempts[j] < MaxRetries
    BY <2>1 DEF OnePlace, ReportedIsFinal, Fresh, TriesLeft, Placed
  <2>3. worker[g] = "idle" /\ UNCHANGED <<timers, submit>>
    BY <1>6 DEF Take
  <2> HIDE DEF j
  <2>4. JobStatus[j] = "waiting"
    BY <2>1, <2>2 DEF JobStatus
  <2>5. CASE TypeOf[j] \in handlers
    <3>1. /\ worker' = [worker EXCEPT ![g] = j]
          /\ attempts' = [attempts EXCEPT ![j] = @ + 1]
          /\ UNCHANGED outcome
      BY <1>6, <2>5 DEF Take, j
    <3>2. InFlight' = InFlight \cup {j}
      BY <2>1, <2>3, <3>1, RunnerAssumption DEF InFlight, Busy, JobTypes
    <3>3. JobStatus' = [JobStatus EXCEPT ![j] = "running"]
      BY <2>1, <2>2, <2>3, <3>1, <3>2 DEF JobStatus
    <3> QED
      BY <2>1, <2>2, <2>4, <3>1, <3>3 DEF Life!Begin, Life!Move
  <2>6. CASE TypeOf[j] \notin handlers
    <3>1. outcome' = [outcome EXCEPT ![j] = "error"] /\ UNCHANGED <<worker, attempts>>
      BY <1>6, <2>6 DEF Take, j
    <3>2. InFlight' = InFlight
      BY <3>1 DEF InFlight, Busy
    <3>3. JobStatus' = [JobStatus EXCEPT ![j] = "failed"]
      BY <2>1, <2>2, <2>3, <3>1, <3>2 DEF JobStatus, JobTypes
    <3> QED
      BY <2>1, <2>4, <3>1, <3>3 DEF Life!Reject, Life!Move
  <2> QED
    BY <2>5, <2>6
<1>7. ASSUME NEW g \in Goroutines, NEW ok \in BOOLEAN, process(g, ok)
      PROVE  \E j \in Jobs : Life!Succeed(j) \/ Life!PutBack(j) \/ Life!Fail(j)
  <2> DEFINE j == worker[g]
  <2>1. /\ j \in Jobs /\ j \in InFlight
        /\ worker' = [worker EXCEPT ![g] = "idle"]
        /\ UNCHANGED <<queue, attempts, submit>>
    BY <1>7 DEF process, Process, InFlight, Busy
  <2>2. \/ outcome' = [outcome EXCEPT ![j] = "success"] /\ timers' = timers
        \/ /\ outcome' = outcome /\ timers' = timers \cup {j}
           /\ attempts[j] < MaxRetries
        \/ /\ outcome' = [outcome EXCEPT ![j] = "error"] /\ timers' = timers
           /\ attempts[j] >= MaxRetries
    BY <1>7 DEF process, Process, JobInv, JobTypes
  <2>3. /\ j \notin Queued /\ j \notin timers
        /\ outcome[j] = "none" /\ submit[j] = "accepted"
    BY <2>1 DEF OnePlace, ReportedIsFinal, Fresh, Placed
  <2>4. Queued' = Queued /\ InFlight' = InFlight \ {j}
    <3>1. Queued' = Queued
      BY <2>1 DEF Queued
    <3>2. \A h \in Goroutines : h # g /\ worker[h] \in Jobs => worker[h] # j
      BY <2>1 DEF OnePlace, Busy
    <3>3. InFlight' = InFlight \ {j}
      BY <2>1, <3>2, RunnerAssumption DEF InFlight, Busy, JobTypes
    <3> QED
      BY <3>1, <3>3
  <2> HIDE DEF j
  <2>5. attempts[j] \in 0..MaxRetries
    BY <2>1 DEF JobTypes
  <2>6. JobStatus[j] = "running"
    BY <2>1, <2>3 DEF JobStatus
  <2>7. CASE outcome' = [outcome EXCEPT ![j] = "success"] /\ timers' = timers
    <3>1. JobStatus' = [JobStatus EXCEPT ![j] = "ok"]
      BY <2>1, <2>3, <2>4, <2>7 DEF JobStatus, JobTypes
    <3> QED
      BY <2>1, <2>6, <3>1 DEF Life!Succeed, Life!Move
  <2>8. CASE outcome' = outcome /\ timers' = timers \cup {j} /\ attempts[j] < MaxRetries
    <3>1. JobStatus' = [JobStatus EXCEPT ![j] = "waiting"]
      BY <2>1, <2>3, <2>4, <2>8 DEF JobStatus, JobTypes
    <3> QED
      BY <2>1, <2>6, <2>8, <3>1 DEF Life!PutBack, Life!Move
  <2>9. CASE /\ outcome' = [outcome EXCEPT ![j] = "error"] /\ timers' = timers
             /\ attempts[j] >= MaxRetries
    <3>1. JobStatus' = [JobStatus EXCEPT ![j] = "failed"]
      BY <2>1, <2>3, <2>4, <2>9 DEF JobStatus, JobTypes
    <3>2. attempts[j] = MaxRetries
      BY <2>5, <2>9, RunnerAssumption
    <3> QED
      BY <2>1, <2>6, <3>1, <3>2 DEF Life!Fail, Life!Move
  <2> QED
    BY <2>2, <2>7, <2>8, <2>9
<1>8. ASSUME NEW g \in Goroutines, WorkerStops(g) PROVE UNCHANGED Life!vars
  <2>1. /\ worker[g] = "idle" /\ worker' = [worker EXCEPT ![g] = "gone"]
        /\ UNCHANGED <<queue, timers, attempts, submit, outcome>>
    BY <1>8 DEF WorkerStops, WorkerExits
  <2>2. InFlight' = InFlight
    BY <2>1, RunnerAssumption DEF InFlight, Busy, JobTypes
  <2> QED
    BY <1>1, <2>1, <2>2
<1>9. CASE Start
  <2>1. /\ worker' = [g \in Goroutines |-> IF g[2] = starts + 1 THEN "due" ELSE worker[g]]
        /\ UNCHANGED <<queue, timers, attempts, submit, outcome>>
    BY <1>9 DEF Start
  <2>2. \A g \in Goroutines : g[2] \in Nat
    BY RunnerAssumption DEF Goroutines
  <2>3. \A g \in Goroutines : g[2] = starts + 1 => worker[g] = "unborn"
    BY <2>2 DEF Unborn, JobTypes
  <2>4. InFlight' = InFlight
    <3>1. Busy' = Busy
      BY <2>1, <2>3, RunnerAssumption DEF Busy
    <3>2. \A g \in Busy : worker'[g] = worker[g]
      BY <2>1, <2>3, RunnerAssumption DEF Busy
    <3> QED
      BY <3>1, <3>2 DEF InFlight
  <2> QED
    BY <1>1, <2>1, <2>4
<1>10. ASSUME \/ WaitReturns
              \/ \E s \in Stoppers :
                   StopBegins(s) \/ StopCloses(s) \/ StopReturns(s) \/ StopTimesOut(s)
       PROVE  UNCHANGED Life!vars
  <2>1. UNCHANGED jobVars
    BY <1>10 DEF WaitReturns, StopBegins, EnterStop, StopCloses, StopReturns, StopTimesOut
  <2> QED
    BY <1>1, <2>1 DEF jobVars, InFlight, Busy
<1>11. CASE UNCHANGED vars
  BY <1>1, <1>11 DEF vars, jobVars, InFlight, Busy
<1>12. ASSUME NEW g \in Goroutines, Spawn(g) PROVE UNCHANGED Life!vars
  <2>1. /\ worker[g] = "due" /\ worker' = [worker EXCEPT ![g] = "idle"]
        /\ UNCHANGED <<queue, timers, attempts, submit, outcome>>
    BY <1>12 DEF Spawn, SpawnCounting
  <2>2. InFlight' = InFlight
    BY <2>1, RunnerAssumption DEF InFlight, Busy, JobTypes
  <2> QED
    BY <1>1, <2>1, <2>2
<1> QED
  BY <1>2, <1>3, <1>4, <1>5, <1>6, <1>7, <1>8, <1>9, <1>10, <1>11, <1>12
  DEF Next, WorkerStep, Life!Next

(* The runner implements JobLife: whatever the interleaving, a job is executed
   by one worker at a time, at most MaxRetries times, and reported at most
   once. *)
THEOREM RunnerImplementsJobLife == Spec => ImplementsJobLife
BY JobInit, JobStep, LifeInit, LifeStep, PTL DEF Spec, ImplementsJobLife, Life!Spec

----------------------------------------------------------------------------
(* A waiting job that disappears was in a timer that met a full channel. *)
LEMMA LostStep ==
    ASSUME JobInv, JobInv', Next, NEW j \in Jobs, JobStatus[j] # "lost", JobStatus'[j] = "lost"
    PROVE  j \in timers /\ Len(queue) = QueueSize
<1> USE DEF JobInv
<1>1. \/ Life!Next
      \/ JobStatus' = JobStatus
  BY LifeStep DEF Life!vars
<1>2. JobStatus[j] = "waiting"
  <2>0. JobStatus = [k \in Jobs |-> JobStatus[k]]
    BY DEF JobStatus
  <2>1. PICK k \in Jobs : \/ Life!Accept(k) \/ Life!Begin(k) \/ Life!Succeed(k) \/ Life!Fail(k)
                          \/ Life!PutBack(k) \/ Life!Reject(k) \/ Life!Lose(k)
    BY <1>1 DEF Life!Next
  <2>2. Life!Lose(j)
    BY <2>0, <2>1 DEF Life!Accept, Life!Begin, Life!Succeed, Life!Fail, Life!PutBack, Life!Reject, Life!Lose, Life!Move
  <2> QED BY <2>2 DEF Life!Lose, Life!Move
<1>3. j \in Queued \cup timers
  BY <1>2 DEF JobStatus
<1>4. outcome'[j] # "error" /\ j \notin InFlight' /\ j \notin Queued' /\ j \notin timers'
  BY DEF JobStatus
<1>5. Len(queue) <= QueueSize /\ Len(queue) \in Nat /\ queue \in Seq(Jobs)
  BY DEF JobTypes
<1>6. ASSUME UNCHANGED <<queue, timers>> PROVE FALSE
  BY <1>3, <1>4, <1>6 DEF Queued
<1>7. ASSUME NEW k \in Jobs, UNCHANGED timers, queue' = Append(queue, k) PROVE FALSE
  <2>1. Queued' = Queued \cup {k}
    BY <1>5, <1>7, AppendFacts DEF Queued
  <2> QED BY <1>3, <1>4, <1>7, <2>1
<1>8. CASE \E t \in Types : Register(t)
  BY <1>6, <1>8 DEF Register
<1>9. CASE \E k \in Jobs : Enqueue(k) \/ MustEnqueueResumes(k)
  BY <1>7, <1>9 DEF Enqueue, MustEnqueueResumes
<1>10. CASE \E k \in Jobs : MustEnqueueBlocks(k)
  BY <1>6, <1>10 DEF MustEnqueueBlocks
<1>11. ASSUME NEW k \in Jobs, RetryFires(k) PROVE j \in timers /\ Len(queue) = QueueSize
  <2>1. k \in timers /\ timers' = timers \ {k} /\ queue' = IF Full THEN queue ELSE Append(queue, k)
    BY <1>11 DEF RetryFires, TimerFires
  <2>2. CASE ~Full
    <3>1. Queued' = Queued \cup {k}
      BY <1>5, <2>1, <2>2, AppendFacts DEF Queued
    <3> QED BY <1>3, <1>4, <2>1, <3>1
  <2>3. CASE Full
    <3>1. Queued' = Queued
      BY <2>1, <2>3 DEF Queued
    <3>2. j \in timers
      BY <1>3, <1>4, <3>1
    <3>3. Len(queue) = QueueSize
      BY <1>5, <2>3, RunnerAssumption DEF Full
    <3> QED BY <3>2, <3>3
  <2> QED BY <2>2, <2>3
<1>12. ASSUME NEW g \in Goroutines, Take(g) PROVE FALSE
  <2> DEFINE h == Head(queue)
  <2>1. /\ queue # << >> /\ queue' = Tail(queue) /\ timers' = timers
        /\ \A m, n \in DOMAIN queue : queue[m] = queue[n] => m = n
    BY <1>12 DEF Take, OnePlace
  <2>2. h \in Jobs /\ Queued' = Queued \ {h}
    BY <1>5, <2>1, TailFacts DEF Queued
  <2>3. j = h
    BY <1>3, <1>4, <2>1, <2>2
  <2>4. CASE TypeOf[h] \in handlers
    <3>1. worker'[g] = h
      BY <1>12, <2>4 DEF Take, JobTypes
    <3>2. h \in InFlight'
      BY <2>2, <3>1 DEF InFlight, Busy
    <3> QED BY <1>4, <2>3, <3>2
  <2>5. CASE TypeOf[h] \notin handlers
    <3>1. outcome'[h] = "error"
      BY <1>12, <2>2, <2>5 DEF Take, JobTypes
    <3> QED BY <1>4, <2>3, <3>1
  <2> QED BY <2>4, <2>5
<1>13. ASSUME NEW g \in Goroutines, NEW ok \in BOOLEAN, process(g, ok) PROVE FALSE
  <2>1. queue' = queue /\ (timers' = timers \/ timers' = timers \cup {worker[g]})
    BY <1>13 DEF process, Process
  <2> QED BY <1>3, <1>4, <2>1 DEF Queued
<1>14. CASE \E g \in Goroutines : WorkerStops(g)
  BY <1>6, <1>14 DEF WorkerStops, WorkerExits
<1>15. CASE Start
  BY <1>6, <1>15 DEF Start
<1>17. CASE \E g \in Goroutines : Spawn(g)
  BY <1>6, <1>17 DEF Spawn, SpawnCounting
<1>16. CASE \/ WaitReturns
            \/ \E s \in Stoppers : StopBegins(s) \/ StopCloses(s) \/ StopReturns(s) \/ StopTimesOut(s)
  BY <1>6, <1>16 DEF WaitReturns, StopBegins, EnterStop, StopCloses, StopReturns, StopTimesOut, jobVars
<1> QED
  BY <1>8, <1>9, <1>10, <1>11, <1>12, <1>13, <1>14, <1>15, <1>16, <1>17 DEF Next, WorkerStep

(* Up to the second Start one Stop at most goes on to close the channel, and only
   while it is open: whoever finds the runner running stops it for the others. *)
ClosesOnce ==
    /\ starts \in Nat
    /\ starts = 0 => /\ ~running /\ ~stopClosed /\ waiter = "none"
                     /\ \A s \in Stoppers : stop[s] # "closing"
    /\ starts = 1 => /\ running => ~stopClosed /\ \A s \in Stoppers : stop[s] # "closing"
                     /\ \A s \in Stoppers : stop[s] = "closing" =>
                            ~stopClosed /\ ~running /\ \A t \in Stoppers : stop[t] = "closing" => s = t
    /\ PanicsOnlyOverlapped

(* Every step keeps it: with one Start, whose loop was over at the close, nothing
   is left to be counted once Wait has been woken. *)
LEMMA ClosesOnceStep == JobInv /\ WgInv /\ CoverInv /\ ClosesOnce /\ [Next]_vars => ClosesOnce'
<1> SUFFICES ASSUME JobInv, WgInv, CoverInv, ClosesOnce, [Next]_vars PROVE ClosesOnce'
  OBVIOUS
<1>0. stop \in [Stoppers -> {"none", "closing", "waiting", "nil", "ctxerr"}]
  BY DEF WgInv
<1> USE DEF ClosesOnce, PanicsOnlyOverlapped
<1>1. CASE UNCHANGED lifeVars
  BY <1>1 DEF lifeVars, stopVars
<1>2. CASE Start
  BY <1>2 DEF Start, Next, stopVars
<1>3. ASSUME NEW g \in Goroutines, WorkerStops(g) PROVE ClosesOnce'
  BY <1>3 DEF WorkerStops, WorkerExits, stopVars
<1>4. ASSUME NEW s \in Stoppers, StopBegins(s) PROVE ClosesOnce'
  BY <1>0, <1>4 DEF StopBegins, EnterStop
<1>5. ASSUME NEW s \in Stoppers, StopCloses(s) PROVE ClosesOnce'
  BY <1>0, <1>5 DEF StopCloses
<1>6. ASSUME NEW s \in Stoppers, StopReturns(s) \/ StopTimesOut(s) PROVE ClosesOnce'
  BY <1>0, <1>6 DEF StopReturns, StopTimesOut
<1>7. CASE \/ \E t \in Types : Register(t)
           \/ \E j \in Jobs : \/ Enqueue(j) \/ MustEnqueueBlocks(j)
                              \/ MustEnqueueResumes(j) \/ RetryFires(j)
           \/ \E g \in Goroutines : Take(g) \/ \E ok \in BOOLEAN : process(g, ok)
  <2>1. UNCHANGED lifeVars
    BY <1>7 DEF Register, Enqueue, MustEnqueueBlocks, MustEnqueueResumes, RetryFires, TimerFires,
       Take, process, Process
  <2> QED BY <1>1, <2>1
<1>8. CASE UNCHANGED vars
  BY <1>1, <1>8 DEF vars
<1>9. ASSUME NEW g \in Goroutines, Spawn(g) PROVE ClosesOnce'
  BY <1>9 DEF Spawn, SpawnCounting, stopVars
<1>10. CASE WaitReturns
  <2>1. ASSUME starts = 1, covered = {1}, waiter = "woken" PROVE wg = 0
    <3>1. \A g \in Goroutines : worker[g] \in {"gone", "unborn"}
      BY <2>1, RunnerAssumption DEF CoverInv, JobInv, Unborn, Goroutines
    <3>2. Live = {}
      BY <3>1 DEF Live
    <3> QED
      BY <3>2, FS_EmptySet DEF WgInv
  <2>2. /\ UNCHANGED <<running, starts, wg, stopClosed, covered, stop>>
        /\ waiter = "woken" \/ (waiter = "in" /\ wg = 0)
        /\ waiter' = "back"
        /\ crashed' = (wg > 0)
    BY <1>10 DEF WaitReturns, stopVars
  <2>3. wg > 0 => starts > 1 \/ covered # {1}
    BY <2>1, <2>2
  <2> QED
    BY <2>2, <2>3
<1> QED
  BY <1>2, <1>3, <1>4, <1>5, <1>6, <1>7, <1>8, <1>9, <1>10 DEF Next, WorkerStep

(* The runner fails its caller for known causes only, for every set of jobs, workers
   and Stop calls: a job is lost when its retry meets a full channel, and Stop panics
   only in a runner that was started again or whose Start it overtook. *)
THEOREM KnownCauses == Spec => FailsForKnownCauses
<1>1. JobInv /\ JobInv' /\ [Next]_vars =>
        [\A j \in Jobs : JobStatus[j] # "lost" /\ JobStatus'[j] = "lost" =>
            j \in timers /\ Len(queue) = QueueSize]_vars
  BY LostStep
<1>2. Init => ClosesOnce
  BY DEF Init, ClosesOnce, PanicsOnlyOverlapped
<1>3. ClosesOnce => PanicsOnlyOverlapped
  BY DEF ClosesOnce
<1> QED
  BY <1>1, <1>2, <1>3, JobInit, JobStep, WgInit, WgStep, CoverInit, CoverStep, ClosesOnceStep, PTL
  DEF Spec, FailsForKnownCauses, LostOnlyWhenFull
=============================================================================
