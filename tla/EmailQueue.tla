----------------------------- MODULE EmailQueue -----------------------------
(***************************************************************************)
(* The delivery queue of pantry/email/queue.go: Enqueue, Schedule, Cancel, *)
(* Start, Stop, the worker goroutines with processNext, and the two        *)
(* stores.                                                                 *)
(*                                                                         *)
(* An operation of the memory store is one step under its mutex.  The      *)
(* Redis store issues one command after another, so Enqueue, Dequeue,      *)
(* Update and Delete are several steps each, and any of them may fail or   *)
(* be the last one before the process dies.  Errors of Update are ignored  *)
(* by processNext.  Times are in units of a second.                        *)
(*                                                                         *)
(* A behaviour takes place in one deployment, chosen from Deployments: the *)
(* store and the number of workers given to NewQueue, and what happens to  *)
(* the queue there.                                                        *)
(***************************************************************************)
EXTENDS Integers, FiniteSets

CONSTANTS Emails,
          Scheduled,    \* emails queued with Schedule
          SendAt,       \* their ScheduledAt
          Priority,
          MaxRetries,   \* of every email, after Enqueue's default
          Deployments,  \* deployments to look at
          MaxWorkers,   \* bound: cfg.Workers
          MaxStarts,    \* bound: calls of Start in any deployment
          MaxTime       \* bound: clock

Commands == {"get", "set", "zadd", "zrem"}

Deployment ==
    [store     : {"memory", "redis"},
     workers   : 1..MaxWorkers,    \* cfg.Workers
     emails    : SUBSET Emails,    \* emails that get queued
     cancelled : SUBSET Emails,    \* emails somebody tries to cancel
     faults    : SUBSET Commands,  \* Redis commands that may fail
     starts    : 1..MaxStarts,     \* bound: calls of Start that find it stopped
     crashes   : BOOLEAN,          \* may the process die?
     stops     : BOOLEAN]          \* may Stop be called?

ASSUME EmailAssumption ==
    /\ Scheduled \subseteq Emails
    /\ SendAt \in [Emails -> 0..MaxTime]
    /\ Priority \in [Emails -> Int]
    /\ MaxRetries \in Nat \ {0}
    /\ Deployments \subseteq Deployment
    /\ MaxWorkers \in Nat \ {0} /\ MaxStarts \in Nat \ {0} /\ MaxTime \in Nat

VARIABLES env,        \* the deployment
          data,       \* stored emails: status and attempts, "none" if there is no record
          queue,      \* Redis: members of the sorted set of each status
          created,    \* CreatedAt
          enq,        \* call of Enqueue: "none", "stored", "done" or "error"
          cancel,     \* call of Cancel: where it is and the status it has read
          running,    \* q.running
          stopCh,     \* number of the channel in q.stopCh
          closed,     \* numbers of closed channels
          stop,       \* the Stop that closed each channel: "none", "waiting", "nil" or "ctxerr"
          waiter,     \* its goroutine: "none", "in" Wait or before it, "woken" by the last
                      \* Done, or "back" with done closed
          covered,    \* history: the Starts whose loop was over when the channel was closed
          crashed,    \* a panic has ended the process
          at,         \* where each worker goroutine is
          sees,       \* channel its select waits on
          mail,       \* its copy of the email
          old,        \* status Update found in Redis
          now,
          tries,      \* history: calls of Send, up to MaxRetries + 1
          delivered,  \* history: successful calls of Send, up to 2
          failed      \* history: emails reported to OnFailed

store == <<data, queue>>
life == <<running, stopCh, closed, stop, waiter, covered, crashed>>
workers == <<at, sees, mail, old>>
ghosts == <<tries, delivered, failed>>
vars == <<env, store, created, enq, cancel, life, workers, now, ghosts>>

Statuses == {"pending", "scheduled", "sending", "sent", "failed"}
Absent == [st |-> "none", n |-> 0]

NoMail == [id |-> CHOOSE e \in Emails : TRUE, st |-> "none", n |-> 0]

(* Worker i of the m-th Start. *)
Goroutines == (1..MaxWorkers) \X (1..MaxStarts)
Live == {g \in Goroutines : at[g] \notin {"unborn", "ended"}}

(* q.wg: the goroutines that Start's loop has come to and that have not ended. *)
Added == {g \in Live : at[g] # "due"}

Channels == 1..MaxStarts

Init ==
    /\ env \in Deployments
    /\ data = [e \in Emails |-> Absent]
    /\ queue = [s \in Statuses |-> {}]
    /\ created = [e \in Emails |-> 0]
    /\ enq = [e \in Emails |-> "none"]
    /\ cancel = [e \in Emails |-> [pc |-> "idle", st |-> "none"]]
    /\ running = FALSE /\ stopCh = 0 /\ closed = {} /\ crashed = FALSE
    /\ stop = [c \in Channels |-> "none"]
    /\ waiter = [c \in Channels |-> "none"]
    /\ covered = [c \in Channels |-> {}]
    /\ at = [g \in Goroutines |-> "unborn"]
    /\ sees = [g \in Goroutines |-> 0]
    /\ mail = [g \in Goroutines |-> NoMail]
    /\ old = [g \in Goroutines |-> "none"]
    /\ now = 0
    /\ tries = [e \in Emails |-> 0]
    /\ delivered = [e \in Emails |-> 0]
    /\ failed = {}

----------------------------------------------------------------------------
(* Store commands. *)
Put(e, st, n) == data' = [data EXCEPT ![e] = [st |-> st, n |-> n]]
ZAdd(s, e) == queue' = [queue EXCEPT ![s] = @ \cup {e}]
ZRem(s, e) == queue' = [q \in Statuses |-> IF q = s THEN queue[q] \ {e} ELSE queue[q]]

FirstStatus(e) == IF e \in Scheduled THEN "scheduled" ELSE "pending"

(* Enqueue and Schedule; Redis stores the record first. *)
Enqueue(e) ==
    /\ e \in env.emails /\ enq[e] = "none"
    /\ created' = [created EXCEPT ![e] = now]
    /\ Put(e, FirstStatus(e), 0)
    /\ enq' = [enq EXCEPT ![e] = IF env.store = "memory" THEN "done" ELSE "stored"]
    /\ UNCHANGED <<queue, cancel, life, workers, now, ghosts>>

EnqueueAdds(e) ==
    /\ enq[e] = "stored"
    /\ \/ ZAdd(FirstStatus(e), e) /\ enq' = [enq EXCEPT ![e] = "done"]
       \/ "zadd" \in env.faults /\ UNCHANGED queue /\ enq' = [enq EXCEPT ![e] = "error"]
    /\ UNCHANGED <<data, created, cancel, life, workers, now, ghosts>>

----------------------------------------------------------------------------
CancelAt(e, pc, st) == cancel' = [cancel EXCEPT ![e] = [pc |-> pc, st |-> st]]

(* Cancel reads the email and refuses one that is being sent or was sent. *)
Cancel(e) ==
    /\ e \in env.cancelled /\ cancel[e].pc = "idle" /\ enq[e] = "done"
    /\ CancelAt(e, IF data[e].st \in {"none", "sent", "sending"} THEN "error" ELSE "checked", "none")
    /\ UNCHANGED <<store, created, enq, life, workers, now, ghosts>>

(* Delete of the store, which looks the email up again. *)
Delete(e) ==
    /\ cancel[e].pc = "checked"
    /\ IF data[e].st = "none"
       THEN CancelAt(e, "error", "none") /\ UNCHANGED store
       ELSE IF env.store = "memory"
       THEN CancelAt(e, "ok", "none") /\ data' = [data EXCEPT ![e] = Absent] /\ UNCHANGED queue
       ELSE CancelAt(e, "zrem", data[e].st) /\ UNCHANGED store
    /\ UNCHANGED <<created, enq, life, workers, now, ghosts>>

DeleteZRem(e) ==
    /\ cancel[e].pc = "zrem"
    /\ ZRem(cancel[e].st, e)
    /\ CancelAt(e, "del", "none")
    /\ UNCHANGED <<data, created, enq, life, workers, now, ghosts>>

DeleteData(e) ==
    /\ cancel[e].pc = "del"
    /\ data' = [data EXCEPT ![e] = Absent]
    /\ CancelAt(e, "ok", "none")
    /\ UNCHANGED <<queue, created, enq, life, workers, now, ghosts>>

(* Cleanup of the memory store, for one email. *)
Cleanup(e) ==
    /\ env.store = "memory"
    /\ data[e].st \in {"sent", "failed"} /\ created[e] < now
    /\ data' = [data EXCEPT ![e] = Absent]
    /\ UNCHANGED <<queue, created, enq, cancel, life, workers, now, ghosts>>

----------------------------------------------------------------------------
(* Start under the mutex; its loop runs without it. *)
Start ==
    /\ ~running
    /\ stopCh < env.starts
    /\ running' = TRUE
    /\ stopCh' = stopCh + 1
    /\ at' = [g \in Goroutines |-> IF g[1] <= env.workers /\ g[2] = stopCh + 1
                                   THEN "due" ELSE at[g]]
    /\ UNCHANGED <<store, created, enq, cancel, closed, stop, waiter, covered, crashed,
                   sees, mail, old, now, ghosts>>

(* One round of the loop: wg.Add(1) and go. *)
Spawn(g) ==
    /\ at[g] = "due"
    /\ \A h \in Goroutines : h[2] = g[2] /\ h[1] < g[1] => at[h] # "due"
    /\ at' = [at EXCEPT ![g] = "loop"]
    /\ UNCHANGED <<store, created, enq, cancel, life, sees, mail, old, now, ghosts>>

(* A Stop that finds the queue stopped returns nil at once, whatever still runs. *)
Stop ==
    /\ env.stops
    /\ \/ /\ running
          /\ running' = FALSE
          /\ closed' = closed \cup {stopCh}
          /\ stop' = [stop EXCEPT ![stopCh] = "waiting"]
          /\ waiter' = [waiter EXCEPT ![stopCh] = "in"]
          /\ covered' = [covered EXCEPT ![stopCh] =
                 {k \in 1..stopCh : \A g \in Goroutines : g[2] = k => at[g] # "due"}]
       \/ ~running /\ UNCHANGED <<running, closed, stop, waiter, covered>>
    /\ UNCHANGED <<store, created, enq, cancel, stopCh, crashed, workers, now, ghosts>>

(* Wait returns.  One that is woken while the counter is up again panics:
   "WaitGroup is reused before previous Wait has returned". *)
WaitReturns(c) ==
    /\ waiter[c] = "woken" \/ (waiter[c] = "in" /\ Added = {})
    /\ waiter' = [waiter EXCEPT ![c] = "back"]
    /\ crashed' = (Added # {})
    /\ UNCHANGED <<store, created, enq, cancel, running, stopCh, closed, stop, covered,
                   workers, now, ghosts>>

Return(c, result) ==
    /\ stop[c] = "waiting"
    /\ stop' = [stop EXCEPT ![c] = result]
    /\ UNCHANGED <<store, created, enq, cancel, running, stopCh, closed, waiter, covered, crashed,
                   workers, now, ghosts>>

StopReturns(c) == waiter[c] = "back" /\ Return(c, "nil")
StopTimesOut(c) == Return(c, "ctxerr")
Stopping == Stop \/ \E c \in Channels : WaitReturns(c) \/ StopReturns(c) \/ StopTimesOut(c)

----------------------------------------------------------------------------
Goto(g, pc) == at' = [at EXCEPT ![g] = pc]
Copy(g, e, st, n) == mail' = [mail EXCEPT ![g] = [id |-> e, st |-> st, n |-> n]]
id(g) == mail[g].id

EnterSelect(g) ==
    /\ at[g] = "loop"
    /\ Goto(g, "select")
    /\ sees' = [sees EXCEPT ![g] = stopCh]
    /\ UNCHANGED <<store, created, enq, cancel, life, mail, old, now, ghosts>>

(* The last Done wakes those that are in Wait. *)
EndWorker(g) ==
    /\ at[g] = "select" /\ sees[g] \in closed
    /\ Goto(g, "ended")
    /\ sees' = [sees EXCEPT ![g] = 0]
    /\ \E W \in SUBSET {c \in Channels : waiter[c] = "in"} :
          /\ W = {} \/ Added = {g}
          /\ waiter' = [c \in Channels |-> IF c \in W THEN "woken" ELSE waiter[c]]
    /\ UNCHANGED <<store, created, enq, cancel, running, stopCh, closed, stop, covered, crashed,
                   mail, old, now, ghosts>>

(* Memory store: emails Dequeue may return. *)
Ready == {e \in Emails : \/ data[e].st = "pending"
                         \/ data[e].st = "scheduled" /\ SendAt[e] <= now}

Before(e, f) == Priority[e] > Priority[f] \/ (Priority[e] = Priority[f] /\ created[e] < created[f])

(* processNext has its email: "sending", one more attempt, on to Update. *)
Begin(g, e) ==
    /\ Copy(g, e, "sending", data[e].n + 1)
    /\ Goto(g, "update")

DequeueFrom(g, ready) ==
    /\ env.store = "memory" /\ at[g] = "select"
    /\ \E e \in ready :
          /\ \A f \in ready : ~Before(f, e)
          /\ Begin(g, e)
    /\ UNCHANGED <<store, created, enq, cancel, life, sees, old, now, ghosts>>

(* Mutant: ScheduledAt is not looked at. *)
DequeueAny(g) == DequeueFrom(g, {e \in Emails : data[e].st \in {"pending", "scheduled"}})

(* The email stays as it is in the store: the worker gets a copy. *)
Dequeue(g) == DequeueFrom(g, Ready)

Score(e) == (IF e \in Scheduled THEN SendAt[e] ELSE created[e]) - Priority[e]

(* Redis: lowest score of the pending set, else of the scheduled set; equal
   scores are in an order of their own. *)
InRange(s) == {e \in queue[s] : 0 <= Score(e) /\ Score(e) <= now}
DequeueRange(g) ==
    /\ env.store = "redis" /\ at[g] = "select"
    /\ LET ready == IF InRange("pending") # {} THEN InRange("pending") ELSE InRange("scheduled")
       IN \E e \in ready :
             /\ \A f \in ready : Score(e) <= Score(f)
             /\ Copy(g, e, "none", 0)
             /\ Goto(g, "get")
    /\ UNCHANGED <<store, created, enq, cancel, life, sees, old, now, ghosts>>

(* No record for the id is an error: processNext gives up and the id stays. *)
DequeueGet(g) ==
    /\ at[g] = "get"
    /\ LET d == data[id(g)] IN
       \/ d.st # "none" /\ Goto(g, "take") /\ Copy(g, id(g), d.st, d.n)
       \/ /\ d.st = "none" \/ "get" \in env.faults
          /\ Goto(g, "loop") /\ mail' = [mail EXCEPT ![g] = NoMail]
    /\ UNCHANGED <<store, created, enq, cancel, life, sees, old, now, ghosts>>

Take(g, rem) ==
    /\ at[g] = "take"
    /\ IF rem THEN ZRem(mail[g].st, id(g)) ELSE UNCHANGED queue
    /\ Copy(g, id(g), "sending", IF mail[g].n < MaxRetries THEN mail[g].n + 1 ELSE MaxRetries)
    /\ Goto(g, "update")
    /\ UNCHANGED <<data, created, enq, cancel, life, sees, old, now, ghosts>>

DequeueZRem(g) == Take(g, TRUE)

(* The error of ZREM is ignored. *)
DequeueZRemFails(g) == "zrem" \in env.faults /\ Take(g, FALSE)

----------------------------------------------------------------------------
(* After Update: Send if the email was marked as sending, else report. *)
Continue(g) ==
    /\ Goto(g, IF mail[g].st = "sending" THEN "send" ELSE "loop")
    /\ mail' = [mail EXCEPT ![g] = IF @.st = "sending" THEN @ ELSE NoMail]
    /\ old' = [old EXCEPT ![g] = "none"]
    /\ failed' = IF mail[g].st = "failed" THEN failed \cup {id(g)} ELSE failed

Write(g, exists) ==
    /\ env.store = "memory" /\ at[g] = "update"
    /\ IF exists THEN Put(id(g), mail[g].st, mail[g].n) ELSE UNCHANGED data
    /\ Continue(g)
    /\ UNCHANGED <<queue, created, enq, cancel, life, sees, now, tries, delivered>>

(* Memory: an email that is gone stays gone, and the error is ignored. *)
Update(g) == Write(g, data[id(g)].st # "none")

(* Without the old email, nothing is removed. *)
UpdateGet(g) ==
    /\ env.store = "redis" /\ at[g] = "update"
    /\ \/ old' = [old EXCEPT ![g] = data[id(g)].st] /\ Goto(g, "zrem")
       \/ "get" \in env.faults /\ UNCHANGED old /\ Goto(g, "set")
    /\ UNCHANGED <<store, created, enq, cancel, life, sees, mail, now, ghosts>>

RemoveOld(g, rem) ==
    /\ at[g] = "zrem"
    /\ IF rem THEN ZRem(old[g], id(g)) ELSE UNCHANGED queue
    /\ Goto(g, "set")
    /\ UNCHANGED <<data, created, enq, cancel, life, sees, mail, old, now, ghosts>>

UpdateZRem(g) == RemoveOld(g, old[g] # mail[g].st)

UpdateZRemFails(g) == "zrem" \in env.faults /\ RemoveOld(g, FALSE)

UpdateSet(g) ==
    /\ at[g] = "set"
    /\ Put(id(g), mail[g].st, mail[g].n)
    /\ Goto(g, "zadd")
    /\ UNCHANGED <<queue, created, enq, cancel, life, sees, mail, old, now, ghosts>>

UpdateZAdd(g) ==
    /\ at[g] = "zadd"
    /\ ZAdd(mail[g].st, id(g))
    /\ Continue(g)
    /\ UNCHANGED <<data, created, enq, cancel, life, sees, now, tries, delivered>>

(* SET or ZADD fails: Update returns early and processNext goes on. *)
UpdateFails(g) ==
    /\ at[g] \in env.faults \cap {"set", "zadd"}
    /\ Continue(g)
    /\ UNCHANGED <<store, created, enq, cancel, life, sees, now, tries, delivered>>

(* Send, and the status processNext gives the email afterwards. *)
Attempt(g, ok, status) ==
    /\ at[g] = "send"
    /\ tries' = [tries EXCEPT ![id(g)] = IF @ <= MaxRetries THEN @ + 1 ELSE @]
    /\ delivered' = [delivered EXCEPT ![id(g)] = IF ok /\ @ < 2 THEN @ + 1 ELSE @]
    /\ Copy(g, id(g), status, mail[g].n)
    /\ Goto(g, "update")
    /\ UNCHANGED <<store, created, enq, cancel, life, sees, old, now, failed>>

Outcome(ok, final) == IF ok THEN "sent" ELSE IF final THEN "failed" ELSE "pending"

(* Mutant: > instead of >=. *)
SendOnceMore(g, ok) == Attempt(g, ok, Outcome(ok, mail[g].n > MaxRetries))
(* Mutant: an email is marked as sent when its attempts are used up. *)
SendGivesUpQuietly(g, ok) == Attempt(g, ok, Outcome(ok \/ mail[g].n >= MaxRetries, FALSE))
(* Mutant: the success path falls through to the retry. *)
SendFallsThrough(g, ok) == Attempt(g, ok, Outcome(FALSE, mail[g].n >= MaxRetries))

Send(g, ok) == Attempt(g, ok, Outcome(ok, mail[g].n >= MaxRetries))

(* External: the process dies, and with it the goroutines; what Redis holds
   stays.  A Send under way may have reached the server. *)
Crash ==
    /\ env.crashes /\ env.store = "redis" /\ Live # {}
    /\ running' = FALSE
    /\ stop' = [c \in Channels |-> "none"]
    /\ waiter' = [c \in Channels |-> "none"]
    /\ covered' = [c \in Channels |-> {}]
    /\ at' = [g \in Goroutines |-> IF g \in Live THEN "ended" ELSE at[g]]
    /\ sees' = [g \in Goroutines |-> 0]
    /\ mail' = [g \in Goroutines |-> NoMail]
    /\ old' = [g \in Goroutines |-> "none"]
    /\ LET sending == {id(g) : g \in {h \in Live : at[h] = "send"}} IN
       /\ tries' = [e \in Emails |-> IF e \in sending /\ tries[e] <= MaxRetries
                                     THEN tries[e] + 1 ELSE tries[e]]
       /\ \E S \in SUBSET sending :
             delivered' = [e \in Emails |-> IF e \in S /\ delivered[e] < 2
                                            THEN delivered[e] + 1 ELSE delivered[e]]
    /\ UNCHANGED <<store, created, enq, cancel, stopCh, closed, crashed, now, failed>>

Tick ==
    /\ now < MaxTime
    /\ now' = now + 1
    /\ UNCHANGED <<store, created, enq, cancel, life, workers, ghosts>>

Step(g) ==
    \/ Spawn(g) \/ EnterSelect(g) \/ Dequeue(g) \/ DequeueRange(g) \/ DequeueGet(g)
    \/ DequeueZRem(g) \/ DequeueZRemFails(g)
    \/ Update(g) \/ UpdateGet(g) \/ UpdateZRem(g) \/ UpdateZRemFails(g)
    \/ UpdateSet(g) \/ UpdateZAdd(g)
    \/ UpdateFails(g)
    \/ \E ok \in BOOLEAN : Send(g, ok)

Canceller(e) == Cancel(e) \/ Delete(e) \/ DeleteZRem(e) \/ DeleteData(e)

Next ==
    /\ \/ \E e \in Emails : Enqueue(e) \/ EnqueueAdds(e) \/ Canceller(e) \/ Cleanup(e)
       \/ \E g \in Goroutines : Step(g) \/ EndWorker(g)
       \/ Start \/ Stopping \/ Crash \/ Tick
    /\ ~crashed /\ UNCHANGED env

Spec == Init /\ [][Next]_vars

(* Goroutines run and Send returns; the application starts the queue; time
   passes. *)
Fairness ==
    /\ \A g \in Goroutines : WF_vars(~crashed /\ Step(g) /\ UNCHANGED env)
    /\ WF_vars(~crashed /\ Start /\ UNCHANGED env)
    /\ WF_vars(~crashed /\ Tick /\ UNCHANGED env)

FairSpec == Spec /\ Fairness

----------------------------------------------------------------------------
(* Deployments with one worker goroutine at a time: a Stop that gives up waiting
   leaves its worker behind, and the next Start adds another one. *)
OneAtATime == env.workers = 1 /\ (env.stops => env.starts = 1)

(* Deployments in which an email is delivered at most once: Dequeue hands the
   same email to two workers that ask at the same time, and a failing ZREM, whose
   error is ignored, leaves a taken email in its set. *)
Exclusive == OneAtATime /\ "zrem" \notin env.faults

(* "Successfully sent" and "Currently sending" (email.md:212) are told apart
   from "Waiting to send": no email is delivered twice, whatever crashes,
   restarts, failing commands and cancellations happen. *)
DeliveredOnce == Exclusive => \A e \in Emails : delivered[e] <= 1

(* "Start begins processing the queue" with cfg.Workers goroutines, two unless
   configured otherwise: no email is delivered twice on a working store. *)
WorkersDeliverOnce == env.faults = {} => \A e \in Emails : delivered[e] <= 1

(* OnFailed "is called when an email fails permanently" (queue.go:145): no
   email is reported with fewer than MaxRetries attempts made, the first one
   counted ("number of retry attempts", queue.go:29, email.md:197).  In Redis an
   attempt is counted before it is made: one that a crash prevented, or that
   another worker is yet to make, counts for whoever takes the email next. *)
Counted == env.store = "memory" \/ (OneAtATime /\ ("zrem" \notin env.faults \/ ~env.crashes))
FailedIsTried == Counted => \A e \in failed : tries[e] >= MaxRetries

(* Schedule: "for delivery at a specific time" (queue.go:233): no attempt is
   made before it; the Redis store allows one second less for every point of
   priority. *)
NotBeforeSchedule ==
    [][\A e \in Scheduled : tries'[e] # tries[e] =>
          SendAt[e] - (IF env.store = "redis" THEN Priority[e] ELSE 0) <= now]_vars

(* "Cancel cancels a queued email that hasn't been sent" (queue.go:245): after
   Cancel returned nil no worker of a memory queue picks the email up, so that
   a copy taken earlier is sent at most once more. *)
CancelIsFinal ==
    [][\A e \in Emails, g \in Goroutines :
          /\ env.store = "memory"
          /\ cancel[e].pc = "ok" /\ at[g] = "select"
          => ~(at'[g] = "update" /\ mail'[g].id = e)]_vars

(* "Stop gracefully stops the queue processor" (queue.go:283): when a Stop
   that closed a channel returns nil, the workers of every Start whose loop was
   over by then have ended, whatever Stops gave up and Starts came in between.
   A worker that the loop of Start adds after the close is not waited for, and a
   Stop that finds the queue stopped waits for nobody (queue.go:286-289). *)
StopIsClean ==
    \A c \in Channels : stop[c] = "nil" =>
        \A g \in Goroutines : g[2] \in covered[c] => g \notin Live

(* Redis, one worker: when nobody is in the middle of an operation, each email
   is in the set of its status and in no other, which is what Stats counts.  A
   failing command, a crash or a Cancel that overlaps a worker's Update breaks
   it for good. *)
Steady == OneAtATime /\ env.faults = {} /\ ~env.crashes /\ env.cancelled = {}
Quiet(e) ==
    /\ enq[e] = "done"
    /\ \A g \in Live : id(g) = e => at[g] \in {"loop", "select", "get"}
QueueMatchesData ==
    Steady /\ env.store = "redis" =>
        \A e \in Emails : Quiet(e) => \A s \in Statuses : e \in queue[s] <=> data[e].st = s

(* With one worker the queue is a JobLife: one attempt at a time, at most
   MaxRetries of them, none after a success.  Crashes, failing SET and ZADD and
   cancellations only lose emails. *)
LifeStatus(e) ==
    IF delivered[e] > 0 THEN "ok"
    ELSE IF \E g \in Live : at[g] = "send" /\ id(g) = e THEN "running"
    ELSE IF tries[e] >= MaxRetries THEN "failed"
    ELSE IF enq[e] = "none" THEN "new" ELSE "waiting"

LifeTries(e) == tries[e] + Cardinality({g \in Live : at[g] = "send" /\ id(g) = e})

Life == INSTANCE JobLife WITH Jobs <- Emails, MaxTries <- MaxRetries,
            status <- [e \in Emails |-> LifeStatus(e)],
            tries <- [e \in Emails |-> LifeTries(e)]

ImplementsJobLife == Life!Init /\ [][Exclusive => Life!Next \/ UNCHANGED Life!vars]_vars

(* "Enqueue adds an email to the queue for async delivery" (queue.go:172): an
   accepted email is sent, reported as failed or cancelled, unless the queue is
   stopped.  A Cancel that overlaps a worker's Update of the Redis store can
   leave an id without a record at the head of its set and block the queue. *)
Dependable == env.faults = {} /\ ~env.crashes /\ (env.store = "memory" \/ env.cancelled = {})
AcceptedIsResolved ==
    \A e \in Emails : enq[e] = "done" /\ Dependable ~>
        (delivered[e] > 0 \/ e \in failed \/ cancel[e].pc = "ok" \/ closed # {})

(* What holds of the queue at any moment, whatever worker, caller, crash or
   failing command came before: no second delivery, no failure reported with
   attempts left, no sender after a Stop that waited, and Redis sets that match the records. *)
QueueSound == DeliveredOnce /\ FailedIsTried /\ StopIsClean /\ QueueMatchesData

(* No step of a worker sends an email before its time or picks it up after its
   Cancel (queue.go:233, 245). *)
SendsOnlyWhatIsDue == NotBeforeSchedule /\ CancelIsFinal
=============================================================================
