---------------------------- MODULE EmailProofs ----------------------------
(***************************************************************************)
(* Proofs about the email queue of pantry/email/queue.go: QueueSound,      *)
(* SendsOnlyWhatIsDue and the refinement of JobLife hold for any emails,   *)
(* priorities, schedules, numbers of workers and restarts, and in every    *)
(* deployment.                                                             *)
(*                                                                         *)
(* The inductive invariant has one layer per argument: types and retry     *)
(* bounds, which goroutines can be alive, how far the attempt counters may *)
(* run ahead of the attempts, where an email may be while it is queued or  *)
(* held, how the Redis sets match the records, and which emails are due.   *)
(***************************************************************************)
EXTENDS EmailQueue, FiniteSetTheorems, TLAPS

Stored == Statuses \cup {"none"}
Record == [st : Stored, n : Nat]
Mail == [id : Emails \cup {NoMail.id}, st : Stored, n : Nat]
Places == {"unborn", "due", "loop", "select", "get", "take", "update", "zrem", "set",
           "zadd", "send", "ended"}

(* Worker g holds its email, and has taken it from the store. *)
Past(g) == at[g] \in {"update", "zrem", "set", "zadd", "send"}
Holds(g) == at[g] \in {"get", "take"} \/ Past(g)

Waiting == {"pending", "scheduled"}

StoreTyped ==
    /\ env \in Deployment
    /\ data \in [Emails -> Record]
    /\ queue \in [Statuses -> SUBSET Emails]
    /\ created \in [Emails -> Nat]
    /\ enq \in [Emails -> {"none", "stored", "done", "error"}]
    /\ cancel \in [Emails -> [pc : {"idle", "error", "checked", "zrem", "del", "ok"}, st : Stored]]

WorkersTyped ==
    /\ running \in BOOLEAN /\ stopCh \in Nat /\ crashed \in BOOLEAN
    /\ stop \in [Channels -> {"none", "waiting", "nil", "ctxerr"}]
    /\ waiter \in [Channels -> {"none", "in", "woken", "back"}]
    /\ covered \in [Channels -> SUBSET Nat]
    /\ at \in [Goroutines -> Places]
    /\ sees \in [Goroutines -> Nat]
    /\ mail \in [Goroutines -> Mail]
    /\ old \in [Goroutines -> Stored]

GhostsTyped ==
    /\ now \in Nat
    /\ tries \in [Emails -> Nat]
    /\ delivered \in [Emails -> Nat]
    /\ failed \subseteq Emails

(* A worker on its way with an email, and what the counters are bounded by. *)
Carried ==
    \A g \in Goroutines :
        /\ Holds(g) => mail[g].id \in Emails
        /\ Past(g) => /\ mail[g].st \in {"sending", "sent", "failed", "pending"}
                      /\ mail[g].n <= MaxRetries
                      /\ mail[g].st = "pending" => mail[g].n < MaxRetries
                      /\ mail[g].st = "failed" => mail[g].n >= MaxRetries
        /\ at[g] = "send" => mail[g].st = "sending"
        /\ at[g] = "take" => mail[g].n <= MaxRetries
        /\ env.store = "memory" => at[g] \notin {"get", "take", "zrem", "set", "zadd"}

Bounded ==
    \A e \in Emails : /\ data[e].n <= MaxRetries
                      /\ data[e].st \in Waiting => data[e].n < MaxRetries
                      /\ env.store = "memory" => enq[e] # "stored"

EmailTypes == StoreTyped /\ WorkersTyped /\ GhostsTyped /\ Carried /\ Bounded

LEMMA NoMailTyped == NoMail \in Mail
  BY DEF NoMail, Mail, Stored

(* Replacing a cell of a function by a value of the right kind. *)
LEMMA Cell ==
    ASSUME NEW S, NEW T, NEW f \in [S -> T], NEW x, NEW v \in T
    PROVE  [f EXCEPT ![x] = v] \in [S -> T]
  OBVIOUS

(* Stop and its goroutine touch neither emails nor workers. *)
LEMMA StopOnly ==
    ASSUME Stopping
    PROVE  UNCHANGED <<data, queue, created, enq, cancel, stopCh, at, sees, mail, old, now,
                       tries, delivered, failed>>
  BY DEF Stopping, Stop, WaitReturns, StopReturns, StopTimesOut, Return, store, workers, ghosts

(* What the worker and store steps do to single cells: used by every layer. *)
THEOREM EmailTyped == Spec => []EmailTypes
<1> USE EmailAssumption
<1>1. Init => EmailTypes
  <2> SUFFICES ASSUME Init PROVE EmailTypes
    OBVIOUS
  <2>1. StoreTyped /\ GhostsTyped /\ Bounded
    BY DEF Record, Init, StoreTyped, GhostsTyped, Bounded, Absent, Stored, Waiting, Statuses
  <2>2. WorkersTyped
    BY NoMailTyped DEF Init, WorkersTyped, Places, Stored
  <2>3. Carried
    BY DEF Init, Carried, Holds, Past
  <2> QED
    BY <2>1, <2>2, <2>3 DEF EmailTypes
<1>2. EmailTypes /\ [Next]_vars => EmailTypes'
  <2> SUFFICES ASSUME EmailTypes, [Next]_vars PROVE EmailTypes'
    OBVIOUS
  <2>0. data \in [Emails -> Record] /\ mail \in [Goroutines -> Mail]
    BY DEF EmailTypes, StoreTyped, WorkersTyped
  <2> USE NoMailTyped DEF Record, EmailTypes, StoreTyped, WorkersTyped, GhostsTyped
  <2>1. ASSUME NEW e \in Emails, Enqueue(e), UNCHANGED env PROVE EmailTypes'
    BY <2>1 DEF Enqueue, Put, life, workers, ghosts, Carried, Bounded, Holds, Past, FirstStatus,
                Waiting, Stored, Statuses, Mail
  <2>2. ASSUME NEW e \in Emails, EnqueueAdds(e), UNCHANGED env PROVE EmailTypes'
    <3>1. StoreTyped'
      <4>1. queue' \in [Statuses -> SUBSET Emails]
        <5>1. queue' = queue \/ queue' = [queue EXCEPT ![FirstStatus(e)] = @ \cup {e}]
          BY <2>2 DEF EnqueueAdds, ZAdd
        <5>2. queue \in [Statuses -> SUBSET Emails]
          OBVIOUS
        <5> QED
          BY ONLY <2>2, <5>1, <5>2
      <4>2. enq' \in [Emails -> {"none", "stored", "done", "error"}]
        BY <2>2 DEF EnqueueAdds
      <4> QED
        BY <2>2, <4>1, <4>2 DEF EnqueueAdds
    <3>2. WorkersTyped'
      BY <2>2 DEF EnqueueAdds, life, workers
    <3>3. GhostsTyped'
      BY <2>2 DEF EnqueueAdds, ghosts
    <3>4. Carried'
      BY <2>2 DEF EnqueueAdds, workers, Carried, Holds, Past
    <3>5. Bounded'
      BY <2>2 DEF EnqueueAdds, Bounded
    <3> QED
      BY <3>1, <3>2, <3>3, <3>4, <3>5
  <2>3. ASSUME NEW e \in Emails, Canceller(e), UNCHANGED env PROVE EmailTypes'
    <3>1. CASE Cancel(e)
      BY <2>3, <3>1 DEF Cancel, CancelAt, store, life, workers, ghosts, Carried, Bounded, Holds, Past, Stored
    <3>2. CASE Delete(e)
      <4>1. StoreTyped'
        <5>1. data' \in [Emails -> Record]
          <6>1. data' = data \/ data' = [data EXCEPT ![e] = Absent]
            BY <3>2 DEF Delete, store
          <6>2. Absent \in Record
            BY DEF Absent, Stored, Record
          <6> QED
            BY ONLY <2>0, <6>1, <6>2
        <5>2. cancel' \in [Emails -> [pc : {"idle", "error", "checked", "zrem", "del", "ok"}, st : Stored]]
          <6>1. \E pc \in {"error", "ok", "zrem"}, st \in {"none", data[e].st} : CancelAt(e, pc, st)
            BY <3>2 DEF Delete
          <6>2. PICK pc \in {"error", "ok", "zrem"}, st \in {"none", data[e].st} : CancelAt(e, pc, st)
            BY <6>1
          <6>3. [pc |-> pc, st |-> st] \in [pc : {"idle", "error", "checked", "zrem", "del", "ok"}, st : Stored]
            BY DEF Stored
          <6> QED
            BY <6>2, <6>3, Cell DEF CancelAt
        <5> QED
          BY <2>3, <3>2, <5>1, <5>2 DEF Delete, store
      <4>2. WorkersTyped'
        BY <2>3, <3>2 DEF Delete, life, workers
      <4>3. GhostsTyped'
        BY <2>3, <3>2 DEF Delete, ghosts
      <4>4. Carried'
        BY <2>3, <3>2 DEF Delete, workers, Carried, Holds, Past
      <4>5. Bounded'
        <5>1. data' = data \/ data' = [data EXCEPT ![e] = Absent]
          BY <3>2 DEF Delete, store
        <5>2. enq' = enq
          BY <3>2 DEF Delete
        <5>3. CASE data' = data
          BY <2>3, <5>2, <5>3 DEF Bounded
        <5>4. CASE data' = [data EXCEPT ![e] = Absent]
          BY <2>3, <5>2, <5>4 DEF Bounded, Absent, Waiting
        <5> QED
          BY <5>1, <5>3, <5>4
      <4> QED
        BY <4>1, <4>2, <4>3, <4>4, <4>5
    <3>3. CASE DeleteZRem(e)
      BY <2>3, <3>3 DEF DeleteZRem, ZRem, CancelAt, life, workers, ghosts, Carried, Bounded, Holds, Past, Stored
    <3>4. CASE DeleteData(e)
      BY <2>3, <3>4 DEF DeleteData, CancelAt, life, workers, ghosts, Carried, Bounded, Holds, Past, Stored,
                        Absent, Waiting
    <3> QED
      BY <2>3, <3>1, <3>2, <3>3, <3>4 DEF Canceller
  <2>4. ASSUME NEW e \in Emails, Cleanup(e), UNCHANGED env PROVE EmailTypes'
    BY <2>4 DEF Cleanup, life, workers, ghosts, Carried, Bounded, Holds, Past, Stored, Absent, Waiting
  <2>5. ASSUME NEW g \in Goroutines, Step(g) \/ EndWorker(g), UNCHANGED env PROVE EmailTypes'
    <3> USE DEF Goto, Copy, id
    <3>1. CASE Spawn(g) \/ EnterSelect(g)
      <4>1. StoreTyped'
        BY <2>5, <3>1 DEF Spawn, EnterSelect, store
      <4>2. WorkersTyped'
        BY <2>5, <3>1 DEF Spawn, EnterSelect, life, Places, Stored
      <4>3. GhostsTyped'
        BY <2>5, <3>1 DEF Spawn, EnterSelect, ghosts
      <4>4. Carried'
        BY <2>5, <3>1 DEF Spawn, EnterSelect, Carried, Holds, Past
      <4>5. Bounded'
        BY <2>5, <3>1 DEF Spawn, EnterSelect, store, Bounded
      <4> QED
        BY <4>1, <4>2, <4>3, <4>4, <4>5
    <3>2. CASE EndWorker(g)
      <4>1. StoreTyped'
        BY <2>5, <3>2 DEF EndWorker, store
      <4>2. WorkersTyped'
        BY <2>5, <3>2 DEF EndWorker, life, Places, Stored
      <4>3. GhostsTyped'
        BY <2>5, <3>2 DEF EndWorker, ghosts
      <4>4. Carried'
        BY <2>5, <3>2 DEF EndWorker, Carried, Holds, Past
      <4>5. Bounded'
        BY <2>5, <3>2 DEF EndWorker, store, Bounded
      <4> QED
        BY <4>1, <4>2, <4>3, <4>4, <4>5
    <3>3. CASE Dequeue(g)
      BY <2>5, <3>3 DEF Dequeue, DequeueFrom, Ready, Begin, store, life, ghosts, Carried, Bounded, Holds, Past,
                        Places, Mail, Stored, Statuses, Waiting
    <3>4. CASE DequeueRange(g)
      BY <2>5, <3>4 DEF DequeueRange, InRange, store, life, ghosts, Carried, Bounded, Holds, Past,
                        Places, Mail, Stored, Statuses
    <3>5. CASE DequeueGet(g)
      <4>1. StoreTyped'
        BY <2>5, <3>5 DEF DequeueGet, store
      <4>2. WorkersTyped'
        <5>1. /\ data[mail[g].id].st # "none" => mail[g].id \in Emails
              /\ data[mail[g].id] \in Record
          BY <3>5 DEF DequeueGet, Carried, Holds
        <5>2. mail' \in [Goroutines -> Mail]
          <6>1. \/ mail' = [mail EXCEPT ![g] = NoMail]
                \/ mail' = [mail EXCEPT ![g] = [id |-> mail[g].id, st |-> data[mail[g].id].st, n |-> data[mail[g].id].n]]
            BY <3>5 DEF DequeueGet
          <6>2. [id |-> mail[g].id, st |-> data[mail[g].id].st, n |-> data[mail[g].id].n] \in Mail
            BY <5>1 DEF Mail
          <6> QED
            BY ONLY <2>0, <6>1, <6>2, NoMailTyped
        <5>3. at' \in [Goroutines -> Places]
          BY <3>5 DEF DequeueGet, Places
        <5> QED
          BY <3>5, <5>2, <5>3 DEF DequeueGet, life
      <4>3. GhostsTyped'
        BY <2>5, <3>5 DEF DequeueGet, ghosts
      <4>4. Carried'
        <5>1. env' = env /\ \A h \in Goroutines \ {g} : at'[h] = at[h] /\ mail'[h] = mail[h]
          BY <2>5, <3>5 DEF DequeueGet
        <5>2. at[g] = "get" /\ mail[g].id \in Emails /\ env.store # "memory"
          BY <3>5 DEF DequeueGet, Carried, Holds
        <5>3. \/ at'[g] = "loop"
              \/ at'[g] = "take" /\ mail'[g].id = mail[g].id /\ mail'[g].n = data[mail[g].id].n
          BY <2>5, <3>5 DEF DequeueGet
        <5>4. data[mail[g].id].n <= MaxRetries
          BY <5>2 DEF Bounded
        <5> QED BY ONLY <5>1, <5>2, <5>3, <5>4, EmailTypes DEF EmailTypes, Carried, Holds, Past
      <4>5. Bounded'
        BY <2>5, <3>5 DEF DequeueGet, store, Bounded
      <4> QED
        BY <4>1, <4>2, <4>3, <4>4, <4>5
    <3>6. ASSUME NEW rem \in BOOLEAN, Take(g, rem) PROVE EmailTypes'
      BY <2>5, <3>6 DEF Take, ZRem, life, ghosts, Carried, Bounded, Holds, Past, Places, Mail, Stored, Statuses
    <3>7. CASE Update(g)
      <4>1. StoreTyped'
        <5>1. data' = data \/ data' = [data EXCEPT ![mail[g].id] = [st |-> mail[g].st, n |-> mail[g].n]]
          BY <3>7 DEF Update, Write, Put
        <5>2. [st |-> mail[g].st, n |-> mail[g].n] \in Record
          BY DEF Mail
        <5>3. data' \in [Emails -> Record]
          BY ONLY <2>0, <5>1, <5>2
        <5> QED
          BY <2>5, <3>7, <5>3 DEF Update, Write
      <4>2. WorkersTyped'
        BY <2>5, <3>7 DEF Update, Write, Continue, life, Places, Stored
      <4>3. GhostsTyped'
        BY <2>5, <3>7 DEF Update, Write, Continue, Carried, Holds, Past
      <4>4. Carried'
        BY <2>5, <3>7 DEF Update, Write, Continue, Carried, Holds, Past, Mail, Places
      <4>5. Bounded'
        <5>1. data' = data \/ data' = [data EXCEPT ![mail[g].id] = [st |-> mail[g].st, n |-> mail[g].n]]
          BY <3>7 DEF Update, Write, Put
        <5>2. mail[g].n <= MaxRetries /\ (mail[g].st \in Waiting => mail[g].n < MaxRetries)
          BY <3>7 DEF Update, Write, Carried, Past, Waiting
        <5> QED
          <6> SUFFICES ASSUME NEW f \in Emails
                       PROVE  /\ data'[f].n <= MaxRetries
                              /\ data'[f].st \in Waiting => data'[f].n < MaxRetries
                              /\ env.store = "memory" => enq[f] # "stored"
            BY <2>5, <3>7 DEF Update, Write, Bounded
          <6>1. CASE data' = data
            BY <6>1 DEF Bounded
          <6>2. CASE data' # data
            BY <5>1, <5>2, <6>2 DEF Bounded
          <6> QED
            BY <6>1, <6>2
      <4> QED
        BY <4>1, <4>2, <4>3, <4>4, <4>5
    <3>8. CASE UpdateGet(g)
      <4>1. StoreTyped'
        BY <2>5, <3>8 DEF UpdateGet, store
      <4>2. WorkersTyped'
        <5>1. old' = old \/ (old' = [old EXCEPT ![g] = data[mail[g].id].st] /\ mail[g].id \in Emails)
          BY <3>8 DEF UpdateGet, Carried, Holds, Past
        <5>2. old' \in [Goroutines -> Stored]
          BY <5>1
        <5> QED
          BY <2>5, <3>8, <5>2 DEF UpdateGet, life, Places
      <4>3. GhostsTyped'
        BY <2>5, <3>8 DEF UpdateGet, ghosts
      <4>4. Carried'
        BY <2>5, <3>8 DEF UpdateGet, Carried, Holds, Past
      <4>5. Bounded'
        BY <2>5, <3>8 DEF UpdateGet, store, Bounded
      <4> QED
        BY <4>1, <4>2, <4>3, <4>4, <4>5
    <3>9. ASSUME NEW rem \in BOOLEAN, RemoveOld(g, rem) PROVE EmailTypes'
      <4>1. StoreTyped'
        <5>1. queue' = queue \/ queue' = [q \in Statuses |-> IF q = old[g] THEN queue[q] \ {id(g)} ELSE queue[q]]
          BY <3>9 DEF RemoveOld, ZRem
        <5>2. queue \in [Statuses -> SUBSET Emails]
          OBVIOUS
        <5>3. queue' \in [Statuses -> SUBSET Emails]
          BY ONLY <5>1, <5>2
        <5> QED BY <2>5, <3>9, <5>3 DEF RemoveOld
      <4>2. WorkersTyped'
        BY <2>5, <3>9 DEF RemoveOld, life, Places
      <4>3. GhostsTyped'
        BY <2>5, <3>9 DEF RemoveOld, ghosts
      <4>4. Carried'
        BY <2>5, <3>9 DEF RemoveOld, Carried, Holds, Past
      <4>5. Bounded'
        BY <2>5, <3>9 DEF RemoveOld, Bounded
      <4> QED
        BY <4>1, <4>2, <4>3, <4>4, <4>5
    <3>10. CASE UpdateSet(g)
      BY <2>5, <3>10 DEF UpdateSet, Put, life, ghosts, Carried, Bounded, Holds, Past, Places, Mail, Waiting
    <3>11. CASE UpdateZAdd(g)
      <4>1. StoreTyped'
        BY <2>5, <3>11 DEF UpdateZAdd, ZAdd, Carried, Holds, Past
      <4>2. WorkersTyped'
        BY <2>5, <3>11 DEF UpdateZAdd, Continue, life, Places, Stored
      <4>3. GhostsTyped'
        BY <2>5, <3>11 DEF UpdateZAdd, Continue, Carried, Holds, Past
      <4>4. Carried'
        BY <2>5, <3>11 DEF UpdateZAdd, Continue, Carried, Holds, Past, Mail, Places
      <4>5. Bounded'
        BY <2>5, <3>11 DEF UpdateZAdd, Bounded
      <4> QED
        BY <4>1, <4>2, <4>3, <4>4, <4>5
    <3>12. CASE UpdateFails(g)
      BY <2>5, <3>12 DEF UpdateFails, Continue, store, life, Carried, Bounded, Holds, Past, Places, Mail, Stored
    <3>13. ASSUME NEW ok \in BOOLEAN, Send(g, ok) PROVE EmailTypes'
      <4>1. StoreTyped'
        BY <2>5, <3>13 DEF Send, Attempt, store
      <4>2. WorkersTyped'
        BY <2>5, <3>13 DEF Send, Attempt, Outcome, life, Places, Mail, Stored, Statuses
      <4>3. GhostsTyped'
        BY <2>5, <3>13 DEF Send, Attempt, Carried, Holds, Past
      <4>4. Carried'
        <5>1. /\ mail[g].id \in Emails /\ mail[g].n \in Nat /\ mail[g].n <= MaxRetries
              /\ at[g] = "send"
          BY <3>13 DEF Send, Attempt, Carried, Holds, Past, Mail
        <5>2. PICK st \in {"sent", "failed", "pending"} :
                  /\ st = "failed" => mail[g].n >= MaxRetries
                  /\ st = "pending" => ~(mail[g].n >= MaxRetries)
                  /\ mail' = [mail EXCEPT ![g] = [id |-> mail[g].id, st |-> st, n |-> mail[g].n]]
          BY <3>13 DEF Send, Attempt, Outcome
        <5>3. at' = [at EXCEPT ![g] = "update"]
          BY <3>13 DEF Send, Attempt
        <5> QED
          <6>1. mail'[g] = [id |-> mail[g].id, st |-> st, n |-> mail[g].n] /\ at'[g] = "update"
            BY <5>2, <5>3
          <6>2. \A h \in Goroutines : h # g => mail'[h] = mail[h] /\ at'[h] = at[h]
            BY <5>2, <5>3
          <6>3. st = "failed" => mail[g].n >= MaxRetries
            BY <5>2
          <6>4. st = "pending" => mail[g].n < MaxRetries
            BY <5>1, <5>2
          <6> QED
            BY <2>5, <5>1, <6>1, <6>2, <6>3, <6>4 DEF Carried, Holds, Past
      <4>5. Bounded'
        BY <2>5, <3>13 DEF Send, Attempt, store, Bounded
      <4> QED
        BY <4>1, <4>2, <4>3, <4>4, <4>5
    <3> QED
      BY <2>5, <3>1, <3>2, <3>3, <3>4, <3>5, <3>6, <3>7, <3>8, <3>9, <3>10, <3>11, <3>12, <3>13
         DEF Step, DequeueZRem, DequeueZRemFails, UpdateZRem, UpdateZRemFails
  <2>6. ASSUME Start, UNCHANGED env PROVE EmailTypes'
    BY <2>6 DEF Start, store, ghosts, Carried, Bounded, Holds, Past, Places
  <2>7. ASSUME Stopping, UNCHANGED env PROVE EmailTypes'
    <3>1. /\ stop' \in [Channels -> {"none", "waiting", "nil", "ctxerr"}]
          /\ waiter' \in [Channels -> {"none", "in", "woken", "back"}]
      BY <2>7 DEF Stopping, Stop, WaitReturns, StopReturns, StopTimesOut, Return
    <3>2. covered' \in [Channels -> SUBSET Nat] /\ running' \in BOOLEAN
      <4>1. \/ running' = running \/ running' = FALSE
        BY <2>7 DEF Stopping, Stop, WaitReturns, StopReturns, StopTimesOut, Return
      <4>2. covered' = covered \/ \E S \in SUBSET Nat : covered' = [covered EXCEPT ![stopCh] = S]
        <5>1. {k \in 1..stopCh : \A g \in Goroutines : g[2] = k => at[g] # "due"} \in SUBSET Nat
          OBVIOUS
        <5> QED
          BY <2>7, <5>1 DEF Stopping, Stop, WaitReturns, StopReturns, StopTimesOut, Return
      <4> QED
        BY <4>1, <4>2
    <3>5. crashed' \in BOOLEAN
      <4>1. crashed' = crashed \/ crashed' = (Added # {})
        BY <2>7 DEF Stopping, Stop, WaitReturns, StopReturns, StopTimesOut, Return
      <4> HIDE DEF Added
      <4> QED
        BY <4>1, Zenon
    <3>3. WorkersTyped'
      BY <2>7, <3>1, <3>2, <3>5, StopOnly
    <3>4. StoreTyped' /\ GhostsTyped' /\ Carried' /\ Bounded'
      BY <2>7, StopOnly DEF Carried, Bounded, Holds, Past
    <3> QED
      BY <3>3, <3>4
  <2>8. ASSUME Crash, UNCHANGED env PROVE EmailTypes'
    <3>1. StoreTyped'
      BY <2>8 DEF Crash, store
    <3>2. WorkersTyped'
      BY <2>8 DEF Crash, Places, Stored, Live
    <3>3. GhostsTyped'
      BY <2>8 DEF Crash
    <3>4. Carried'
      BY <2>8 DEF Crash, Carried, Holds, Past, Live
    <3>5. Bounded'
      BY <2>8 DEF Crash, store, Bounded
    <3> QED
      BY <3>1, <3>2, <3>3, <3>4, <3>5
  <2>9. ASSUME Tick, UNCHANGED env PROVE EmailTypes'
    BY <2>9 DEF Tick, store, life, workers, ghosts, Carried, Bounded, Holds, Past
  <2>10. CASE UNCHANGED vars
    BY <2>10 DEF vars, store, life, workers, ghosts, Carried, Bounded, Holds, Past
  <2> QED
    BY <2>1, <2>2, <2>3, <2>4, <2>5, <2>6, <2>7, <2>8, <2>9, <2>10 DEF Next
<1> QED
  BY <1>1, <1>2, PTL DEF Spec

----------------------------------------------------------------------------
(* Goroutines: which can be alive, and whom a Stop has waited for. *)
Lone ==
    /\ stopCh <= env.starts
    /\ \A g \in Live : g[1] <= env.workers /\ g[2] <= stopCh
    /\ OneAtATime /\ ~env.stops /\ ~running => Live = {}
    /\ OneAtATime => \A g, h \in Live : g = h

Waited ==
    \A c \in Channels :
        /\ covered[c] \subseteq 1..stopCh
        /\ \A g \in Goroutines : g[2] \in covered[c] => at[g] # "due"
        /\ waiter[c] \in {"woken", "back"} =>
              \A g \in Goroutines : g[2] \in covered[c] => g \notin Live
        /\ stop[c] = "nil" => waiter[c] = "back"

(* A step of a worker moves that worker and nobody else, and starts nobody. *)
LEMMA WorkerMoves ==
    ASSUME EmailTypes, NEW g \in Goroutines, Step(g) \/ EndWorker(g)
    PROVE  /\ \E pc \in Places : at' = [at EXCEPT ![g] = pc]
           /\ g \in Live
           /\ UNCHANGED <<running, stopCh, closed, stop, covered>>
           /\ at'[g] # "due"
<1>1. PICK pc \in Places \ {"due"} : at' = [at EXCEPT ![g] = pc]
  BY DEF Step, EndWorker, Spawn, EnterSelect, Dequeue, DequeueFrom, Begin, DequeueRange, DequeueGet,
         DequeueZRem, DequeueZRemFails, Take, Update, Write, Continue, UpdateGet, UpdateZRem,
         UpdateZRemFails, RemoveOld, UpdateSet, UpdateZAdd, UpdateFails, Send, Attempt, Goto, Places
<1>2. g \in Live /\ UNCHANGED <<running, stopCh, closed, stop, covered>>
  BY DEF Step, EndWorker, Spawn, EnterSelect, Dequeue, DequeueFrom, DequeueRange, DequeueGet,
         DequeueZRem, DequeueZRemFails, Take, Update, Write, UpdateGet, UpdateZRem,
         UpdateZRemFails, RemoveOld, UpdateSet, UpdateZAdd, UpdateFails, Send, Attempt, life, Live
<1> QED
  BY <1>1, <1>2 DEF EmailTypes, WorkersTyped

(* Lone is inductive: only Start makes goroutines, and where one goroutine is
   allowed at a time it runs only when none is left. *)
LEMMA LoneStep ==
    ASSUME EmailTypes, Lone, [Next]_vars
    PROVE  Lone'
<1> USE EmailAssumption
<1>1. env' = env
  BY DEF Next, vars
<1>2. CASE Start
  <2>1. /\ ~running /\ stopCh < env.starts /\ stopCh' = stopCh + 1 /\ running'
        /\ at' = [g \in Goroutines |-> IF g[1] <= env.workers /\ g[2] = stopCh + 1 THEN "due" ELSE at[g]]
    BY <1>2 DEF Start
  <2>2. stopCh \in Nat /\ env.starts \in Nat /\ env.workers \in Nat
    BY DEF EmailTypes, StoreTyped, WorkersTyped, Deployment
  <2>3. \A g \in Goroutines : g[1] \in Nat /\ g[2] \in Nat /\ g[1] >= 1 /\ g[2] >= 1 /\ g = <<g[1], g[2]>>
    BY DEF Goroutines
  <2>4. \A g \in Live' : g \in Goroutines /\ (g \in Live \/ (g[1] <= env.workers /\ g[2] = stopCh + 1))
    BY <2>1 DEF Live
  <2>5. \A g \in Live' : g[1] <= env.workers /\ g[2] <= stopCh'
    BY <2>1, <2>2, <2>3, <2>4 DEF Lone, Live
  <2>6. ASSUME OneAtATime PROVE \A g, h \in Live' : g = h
    <3>1. env.workers = 1 /\ (env.stops => env.starts = 1)
      BY <2>6 DEF OneAtATime
    <3>2. Live = {}
      <4>1. CASE env.stops
        <5>1. stopCh = 0
          BY <2>1, <2>2, <3>1, <4>1
        <5> QED
          BY <2>3, <5>1 DEF Lone, Live
      <4>2. CASE ~env.stops
        BY <2>1, <2>6, <4>2 DEF Lone
      <4> QED
        BY <4>1, <4>2
    <3>3. \A g \in Live' : g \in Goroutines /\ g[1] <= 1 /\ g[2] = stopCh + 1
      BY <2>4, <3>1, <3>2
    <3>4. \A g \in Live' : g = <<1, stopCh + 1>>
      BY <2>2, <2>3, <3>3
    <3> QED
      BY <3>4
  <2> QED
    BY <1>1, <2>1, <2>2, <2>5, <2>6 DEF Lone, OneAtATime
<1>3. CASE ~Start
  <2> DEFINE Shrinks == /\ Live' \subseteq Live
                        /\ stopCh' = stopCh
                        /\ running' = running \/ env.stops \/ Live' = {}
  <2>1. Shrinks
    <3>1. ASSUME NEW e \in Emails, Enqueue(e) \/ EnqueueAdds(e) \/ Canceller(e) \/ Cleanup(e) PROVE Shrinks
      BY <3>1 DEF Enqueue, EnqueueAdds, Canceller, Cancel, Delete, DeleteZRem, DeleteData, Cleanup, life,
                  workers, Live
    <3>2. ASSUME NEW g \in Goroutines, Step(g) \/ EndWorker(g) PROVE Shrinks
      BY <3>2, WorkerMoves DEF Live, EmailTypes, WorkersTyped
    <3>3. CASE Stopping
      <4>1. running' = running \/ env.stops
        BY <3>3 DEF Stopping, Stop, WaitReturns, StopReturns, StopTimesOut, Return
      <4> QED
        BY <3>3, <4>1, StopOnly DEF Live
    <3>6. CASE Tick
      BY <3>6 DEF Tick, life, workers, Live
    <3>4. CASE Crash
      BY <3>4 DEF Crash, Live
    <3>5. CASE UNCHANGED vars
      BY <3>5 DEF vars, life, workers, Live
    <3> QED
      BY <1>3, <3>1, <3>2, <3>3, <3>4, <3>5, <3>6 DEF Next
  <2> QED
    BY <1>1, <2>1 DEF Lone, OneAtATime
<1> QED
  BY <1>2, <1>3

(* Waited is inductive: whoever is covered is never due again, and when the wait
   group is empty the covered ones, none of them due, have all ended. *)
LEMMA WaitedStep ==
    ASSUME EmailTypes, Waited, [Next]_vars
    PROVE  Waited'
<1>0. /\ stopCh \in Nat /\ at \in [Goroutines -> Places]
      /\ stop \in [Channels -> {"none", "waiting", "nil", "ctxerr"}]
      /\ waiter \in [Channels -> {"none", "in", "woken", "back"}]
      /\ covered \in [Channels -> SUBSET Nat]
      /\ \A g \in Goroutines : g[2] \in Nat
  BY EmailAssumption DEF EmailTypes, WorkersTyped, Goroutines
<1>1. ASSUME Added = {}, NEW c \in Channels
      PROVE  \A g \in Goroutines : g[2] \in covered[c] => g \notin Live
  BY <1>1 DEF Waited, Added
<1>2. ASSUME UNCHANGED <<stopCh, at, covered, waiter, stop>> PROVE Waited'
  BY <1>2 DEF Waited, Live
<1>3. ASSUME NEW e \in Emails, Enqueue(e) \/ EnqueueAdds(e) \/ Canceller(e) \/ Cleanup(e) PROVE Waited'
  BY <1>2, <1>3 DEF Enqueue, EnqueueAdds, Canceller, Cancel, Delete, DeleteZRem, DeleteData, Cleanup, life,
                    workers
<1>4. ASSUME NEW g \in Goroutines, Step(g) PROVE Waited'
  <2>1. waiter' = waiter
    BY <1>4 DEF Step, Spawn, EnterSelect, Dequeue, DequeueFrom, DequeueRange, DequeueGet, DequeueZRem,
                DequeueZRemFails, Take, Update, Write, UpdateGet, UpdateZRem, UpdateZRemFails, RemoveOld,
                UpdateSet, UpdateZAdd, UpdateFails, Send, Attempt, life
  <2>2. /\ UNCHANGED <<stopCh, stop, covered>> /\ at'[g] # "due" /\ g \in Live
        /\ \A h \in Goroutines : h # g => at'[h] = at[h]
    BY <1>0, <1>4, WorkerMoves
  <2> QED
    BY <2>1, <2>2 DEF Waited, Live
<1>5. ASSUME NEW g \in Goroutines, EndWorker(g) PROVE Waited'
  <2>1. /\ UNCHANGED <<stopCh, stop, covered>> /\ at'[g] = "ended" /\ g \in Live
        /\ \A h \in Goroutines : h # g => at'[h] = at[h]
    BY <1>0, <1>5 DEF EndWorker, Goto, Live
  <2>2. PICK W \in SUBSET Channels :
            /\ W = {} \/ Added = {g}
            /\ waiter' = [c \in Channels |-> IF c \in W THEN "woken" ELSE waiter[c]]
            /\ \A c \in W : waiter[c] = "in"
    BY <1>5 DEF EndWorker
  <2>3. ASSUME NEW c \in Channels, c \in W, NEW h \in Goroutines, h[2] \in covered[c]
        PROVE  h \notin Live'
    <3>1. h = g \/ h \notin Live
      BY <2>2, <2>3 DEF Waited, Added
    <3> QED
      BY <2>1, <3>1 DEF Live
  <2>4. \A h \in Goroutines : h \in Live' => h \in Live /\ at'[h] = at[h]
    BY <2>1 DEF Live
  <2> QED
    BY <1>0, <2>1, <2>2, <2>3, <2>4 DEF Waited
<1>6. CASE Start
  <2>1. /\ UNCHANGED <<stop, covered, waiter>> /\ stopCh' = stopCh + 1
        /\ \A g \in Goroutines : at'[g] = at[g] \/ g[2] = stopCh + 1
    BY <1>0, <1>6 DEF Start
  <2>2. \A c \in Channels, g \in Goroutines : g[2] \in covered[c] => g[2] # stopCh + 1
    BY <1>0 DEF Waited
  <2>3. \A c \in Channels : covered[c] \subseteq 1..stopCh'
    BY <1>0, <2>1 DEF Waited
  <2>4. \A c \in Channels, g \in Goroutines : g[2] \in covered[c] => at'[g] = at[g]
    BY <2>1, <2>2
  <2> QED
    BY <2>1, <2>3, <2>4 DEF Waited, Live
<1>7. CASE Stop
  <2>1. CASE ~running
    BY <1>2, <1>7, <2>1 DEF Stop, workers
  <2>2. CASE running
    <3>1. /\ stop' = [stop EXCEPT ![stopCh] = "waiting"]
          /\ waiter' = [waiter EXCEPT ![stopCh] = "in"]
          /\ covered' = [covered EXCEPT ![stopCh] =
                 {k \in 1..stopCh : \A g \in Goroutines : g[2] = k => at[g] # "due"}]
          /\ at' = at /\ stopCh' = stopCh
      BY <1>7, <2>2 DEF Stop, workers
    <3> QED
      BY <1>0, <3>1 DEF Waited, Live
  <2> QED
    BY <2>1, <2>2
<1>8. ASSUME NEW c \in Channels, WaitReturns(c) PROVE Waited'
  <2>1. /\ waiter[c] = "woken" \/ Added = {}
        /\ waiter' = [waiter EXCEPT ![c] = "back"] /\ UNCHANGED <<stopCh, at, covered, stop>>
    BY <1>8 DEF WaitReturns, workers
  <2>2. \A g \in Goroutines : g[2] \in covered[c] => g \notin Live
    BY <1>1, <2>1 DEF Waited
  <2> QED
    BY <1>0, <2>1, <2>2 DEF Waited, Live
<1>9. ASSUME NEW c \in Channels, StopReturns(c) \/ StopTimesOut(c) PROVE Waited'
  <2>1. /\ UNCHANGED <<stopCh, at, covered, waiter>>
        /\ \/ stop' = [stop EXCEPT ![c] = "nil"] /\ waiter[c] = "back"
           \/ stop' = [stop EXCEPT ![c] = "ctxerr"]
    BY <1>9 DEF StopReturns, StopTimesOut, Return, workers
  <2> QED
    BY <1>0, <2>1 DEF Waited, Live
<1>10. CASE Crash
  BY <1>0, <1>10 DEF Crash, Waited
<1>11. CASE Tick \/ UNCHANGED vars
  BY <1>2, <1>11 DEF Tick, vars, life, workers
<1> QED
  BY <1>3, <1>4, <1>5, <1>6, <1>7, <1>8, <1>9, <1>10, <1>11 DEF Next, Stopping

----------------------------------------------------------------------------
(* Scheduled emails: whoever holds one was late enough, and so is one that waits
   for another attempt.  Cancelled emails: nothing is left of them in memory. *)
DueNow(e) == SendAt[e] - (IF env.store = "redis" THEN Priority[e] ELSE 0) <= now
Due ==
    \A e \in Scheduled :
        /\ \A g \in Goroutines : Holds(g) /\ mail[g].id = e => DueNow(e)
        /\ env.store = "memory" /\ data[e].st = "pending" => DueNow(e)

Gone ==
    \A e \in Emails :
        /\ cancel[e].pc # "idle" => enq[e] = "done"
        /\ env.store = "memory" /\ cancel[e].pc = "ok" => data[e].st = "none"

(* The callers of the queue change neither workers nor attempts. *)
LEMMA CallersOnly ==
    ASSUME NEW e, Enqueue(e) \/ EnqueueAdds(e) \/ Canceller(e) \/ Cleanup(e)
    PROVE  UNCHANGED <<at, mail, old, now, tries, delivered, failed>>
  BY DEF Enqueue, EnqueueAdds, Canceller, Cancel, Delete, DeleteZRem, DeleteData, Cleanup, workers, ghosts

(* Due and Gone are inductive. *)
LEMMA DueStep ==
    ASSUME EmailTypes, Due, [Next]_vars
    PROVE  Due'
<1> USE EmailAssumption
<1>0. /\ data \in [Emails -> Record] /\ mail \in [Goroutines -> Mail] /\ at \in [Goroutines -> Places]
      /\ now \in Nat /\ Carried /\ Scheduled \subseteq Emails
      /\ \A e \in Scheduled : SendAt[e] \in Int /\ Priority[e] \in Int
  BY DEF EmailTypes, StoreTyped, WorkersTyped, GhostsTyped
<1>1. env' = env
  BY DEF Next, vars
<1>2. ASSUME NEW e \in Emails, Enqueue(e) \/ EnqueueAdds(e) \/ Canceller(e) \/ Cleanup(e) PROVE Due'
  <2>1. \A f \in Emails : data'[f].st = "pending" => f \notin Scheduled \/ data[f].st = "pending"
    BY <1>0, <1>2 DEF Enqueue, EnqueueAdds, Canceller, Cancel, Delete, DeleteZRem, DeleteData, Cleanup, Put,
                FirstStatus, store, Absent, Record
  <2> QED
    BY <1>0, <1>1, <1>2, <2>1, CallersOnly DEF Due, DueNow, Holds, Past
<1>3. ASSUME NEW g \in Goroutines, Step(g) \/ EndWorker(g) PROVE Due'
  <2> USE DEF Goto, Copy, id
  <2>1. UNCHANGED now
    BY <1>3 DEF Step, EndWorker, Spawn, EnterSelect, Dequeue, DequeueFrom, DequeueRange, DequeueGet, DequeueZRem,
                DequeueZRemFails, Take, Update, Write, UpdateGet, UpdateZRem, UpdateZRemFails, RemoveOld,
                UpdateSet, UpdateZAdd, UpdateFails, Send, Attempt
  <2>2. CASE Spawn(g) \/ EnterSelect(g) \/ EndWorker(g) \/ UpdateGet(g)
    BY <1>0, <1>1, <2>1, <2>2 DEF Spawn, EnterSelect, EndWorker, UpdateGet, store, Due, DueNow, Holds, Past
  <2>3. CASE Dequeue(g)
    <3>1. PICK e \in Ready : mail' = [mail EXCEPT ![g] = [id |-> e, st |-> "sending", n |-> data[e].n + 1]]
      BY <2>3 DEF Dequeue, DequeueFrom, Begin
    <3>2. at' = [at EXCEPT ![g] = "update"] /\ data' = data /\ env.store = "memory"
      BY <2>3 DEF Dequeue, DequeueFrom, Begin, store
    <3>3. e \in Scheduled => DueNow(e)
      BY <1>0, <3>1, <3>2 DEF Ready, Due, DueNow
    <3> QED
      BY <1>0, <1>1, <2>1, <3>1, <3>2, <3>3 DEF Due, DueNow, Holds, Past
  <2>4. CASE DequeueRange(g)
    <3>1. PICK e \in InRange("pending") \cup InRange("scheduled") :
              mail' = [mail EXCEPT ![g] = [id |-> e, st |-> "none", n |-> 0]]
      BY <2>4 DEF DequeueRange
    <3>2. at' = [at EXCEPT ![g] = "get"] /\ data' = data /\ env.store = "redis"
      BY <2>4 DEF DequeueRange, store
    <3>3. e \in Scheduled => DueNow(e)
      BY <1>0, <3>1, <3>2 DEF InRange, Score, DueNow
    <3> QED
      BY <1>0, <1>1, <2>1, <3>1, <3>2, <3>3 DEF Due, DueNow, Holds, Past
  <2>5. ASSUME /\ (Holds(g) /\ mail'[g].id = mail[g].id) \/ ~Holds(g)'
               /\ \A h \in Goroutines : h # g => at'[h] = at[h] /\ mail'[h] = mail[h]
               /\ \A e \in Emails : data'[e] = data[e] \/ (Holds(g) /\ e = mail[g].id)
        PROVE  Due'
    BY <1>0, <1>1, <2>1, <2>5 DEF Due, DueNow, Holds, Past
  <2>6. CASE DequeueGet(g)
    BY <1>0, <2>5, <2>6 DEF DequeueGet, store, Holds, Past
  <2>7. ASSUME NEW rem, Take(g, rem) \/ RemoveOld(g, rem) PROVE Due'
    BY <1>0, <2>5, <2>7 DEF Take, RemoveOld, Holds, Past
  <2>8. CASE Update(g)
    BY <1>0, <2>5, <2>8 DEF Update, Write, Put, Continue, Holds, Past
  <2>9. CASE UpdateSet(g)
    BY <1>0, <2>5, <2>9 DEF UpdateSet, Put, Holds, Past
  <2>10. CASE UpdateZAdd(g) \/ UpdateFails(g)
    BY <1>0, <2>5, <2>10 DEF UpdateZAdd, UpdateFails, Continue, store, Holds, Past
  <2>11. ASSUME NEW ok \in BOOLEAN, Send(g, ok) PROVE Due'
    BY <1>0, <2>5, <2>11 DEF Send, Attempt, store, Holds, Past
  <2> QED
    BY <1>3, <2>2, <2>3, <2>4, <2>6, <2>7, <2>8, <2>9, <2>10, <2>11
       DEF Step, DequeueZRem, DequeueZRemFails, UpdateZRem, UpdateZRemFails
<1>4. CASE Start
  BY <1>0, <1>1, <1>4 DEF Start, store, Due, DueNow, Holds, Past
<1>5. CASE Stopping
  BY <1>0, <1>1, <1>5, StopOnly DEF store, workers, Due, DueNow, Holds, Past
<1>6. CASE Crash
  BY <1>0, <1>1, <1>6 DEF Crash, store, Due, DueNow, Holds, Past, Live
<1>7. CASE Tick
  BY <1>0, <1>1, <1>7 DEF Tick, store, workers, Due, DueNow, Holds, Past
<1>8. CASE UNCHANGED vars
  BY <1>0, <1>1, <1>8 DEF vars, store, workers, Due, DueNow, Holds, Past
<1> QED
  BY <1>2, <1>3, <1>4, <1>5, <1>6, <1>7, <1>8 DEF Next

LEMMA GoneStep ==
    ASSUME EmailTypes, Gone, [Next]_vars
    PROVE  Gone'
<1>0. /\ data \in [Emails -> Record] /\ mail \in [Goroutines -> Mail] /\ Carried
      /\ cancel \in [Emails -> [pc : {"idle", "error", "checked", "zrem", "del", "ok"}, st : Stored]]
      /\ enq \in [Emails -> {"none", "stored", "done", "error"}]
  BY DEF EmailTypes, StoreTyped, WorkersTyped
<1>1. env' = env
  BY DEF Next, vars
<1>2. ASSUME NEW e \in Emails, Enqueue(e) \/ EnqueueAdds(e) PROVE Gone'
  BY <1>0, <1>1, <1>2 DEF Enqueue, EnqueueAdds, Put, Gone, Bounded, EmailTypes
<1>3. ASSUME NEW e \in Emails, Canceller(e) \/ Cleanup(e) PROVE Gone'
  BY <1>0, <1>1, <1>3 DEF Canceller, Cancel, Delete, DeleteZRem, DeleteData, Cleanup, CancelAt, store, Absent, Gone
<1>4. ASSUME NEW g \in Goroutines, Step(g) \/ EndWorker(g) PROVE Gone'
  <2>1. UNCHANGED <<enq, cancel>>
    BY <1>4 DEF Step, EndWorker, Spawn, EnterSelect, Dequeue, DequeueFrom, DequeueRange, DequeueGet, DequeueZRem,
                DequeueZRemFails, Take, Update, Write, UpdateGet, UpdateZRem, UpdateZRemFails, RemoveOld,
                UpdateSet, UpdateZAdd, UpdateFails, Send, Attempt
  <2>2. CASE Update(g)
    BY <1>0, <1>1, <2>1, <2>2 DEF Update, Write, Put, id, Gone
  <2>3. CASE ~Update(g)
    <3>1. env.store = "memory" => data' = data
      BY <1>0, <1>4, <2>3 DEF Step, EndWorker, Spawn, EnterSelect, Dequeue, DequeueFrom, DequeueRange, DequeueGet,
                DequeueZRem, DequeueZRemFails, Take, UpdateGet, UpdateZRem, UpdateZRemFails, RemoveOld,
                UpdateSet, UpdateZAdd, UpdateFails, Send, Attempt, store, Carried
    <3> QED
      BY <1>1, <2>1, <3>1 DEF Gone
  <2> QED
    BY <2>2, <2>3
<1>5. CASE Start \/ Stopping \/ Crash \/ Tick \/ UNCHANGED vars
  BY <1>1, <1>5, StopOnly DEF Start, Crash, Tick, vars, store, Gone
<1> QED
  BY <1>2, <1>3, <1>4, <1>5 DEF Next

----------------------------------------------------------------------------
(* One worker at a time: the attempts on an email are exactly the ones its
   counter says, and an email that waits, or is on its way to an attempt, was
   never delivered. *)
Attempted ==
    /\ \A e \in Emails : /\ delivered[e] <= 1 /\ tries[e] <= MaxRetries
                         /\ enq[e] = "none" => tries[e] = 0 /\ delivered[e] = 0
    /\ \A g \in Goroutines : Past(g) =>
          /\ enq[mail[g].id] # "none"
          /\ mail[g].st = "sending" => delivered[mail[g].id] = 0 /\ mail[g].n = tries[mail[g].id] + 1
          /\ mail[g].st # "sending" => mail[g].n = tries[mail[g].id]
          /\ mail[g].st = "pending" => delivered[mail[g].id] = 0

(* In memory the record itself says that the email waits. *)
MemoryOnce ==
    /\ \A e \in Emails : /\ data[e].st \in Waiting => delivered[e] = 0 /\ tries[e] = data[e].n
                         /\ enq[e] = "none" => data[e].st = "none"
    /\ \A g \in Goroutines : Past(g) /\ (at[g] = "send" \/ mail[g].st # "sending") =>
          data[mail[g].id].st \notin Waiting

(* In Redis the sets say so, whatever became of the record; a worker that has
   taken an email has taken it out of the set it was in. *)
RedisOnce ==
    /\ \A e \in Emails : enq[e] \in {"none", "stored"} =>
          /\ tries[e] = 0 /\ delivered[e] = 0 /\ data[e].n = 0
          /\ data[e].st \in {"none", FirstStatus(e)}
          /\ \A s \in Waiting : e \notin queue[s]
    /\ \A e \in Emails, s \in Waiting : e \in queue[s] =>
          /\ delivered[e] = 0 /\ data[e].st \in {s, "none"}
          /\ data[e].st # "none" => data[e].n = tries[e]
    /\ \A g \in Goroutines : Holds(g) => enq[mail[g].id] \notin {"none", "stored"}
    /\ \A g \in Goroutines : at[g] = "get" =>
          /\ delivered[mail[g].id] = 0
          /\ data[mail[g].id].st # "none" =>
                data[mail[g].id].st \in Waiting /\ data[mail[g].id].n = tries[mail[g].id]
    /\ \A g \in Goroutines : at[g] = "take" =>
          /\ delivered[mail[g].id] = 0 /\ mail[g].st \in Waiting
          /\ mail[g].n = tries[mail[g].id] /\ mail[g].n < MaxRetries
          /\ \A s \in Waiting : mail[g].id \in queue[s] => mail[g].st = s
    /\ \A g \in Goroutines, s \in Waiting : Past(g) => mail[g].id \notin queue[s]
    /\ \A g \in Goroutines : at[g] = "zadd" =>
          /\ data[mail[g].id].st \in {mail[g].st, "none"}
          /\ data[mail[g].id].st # "none" => data[mail[g].id].n = mail[g].n

Once ==
    Exclusive => /\ Attempted
                 /\ env.store = "memory" => MemoryOnce
                 /\ env.store = "redis" => RedisOnce

(* Where one worker at a time is allowed, a step of a worker is the step of the
   only one that holds an email. *)
LEMMA OnlyWorker ==
    ASSUME EmailTypes, Lone, OneAtATime, NEW g \in Goroutines, Step(g) \/ EndWorker(g)
    PROVE  \A h \in Goroutines : h # g => ~Holds(h) /\ ~Past(h) /\ ~Holds(h)' /\ ~Past(h)' /\ at'[h] = at[h]
<1>1. g \in Live /\ \E pc \in Places : at' = [at EXCEPT ![g] = pc]
  BY WorkerMoves
<1>2. at \in [Goroutines -> Places]
  BY DEF EmailTypes, WorkersTyped
<1>3. \A h \in Goroutines : h # g => h \notin Live
  BY <1>1 DEF Lone
<1> QED
  BY <1>1, <1>2, <1>3 DEF Live, Holds, Past

(* A worker's step leaves the callers, the clock and the deployment alone. *)
LEMMA WorkersOnly ==
    ASSUME NEW g, Step(g) \/ EndWorker(g)
    PROVE  UNCHANGED <<enq, cancel, created, now>>
  BY DEF Step, EndWorker, Spawn, EnterSelect, Dequeue, DequeueFrom, DequeueRange, DequeueGet, DequeueZRem,
         DequeueZRemFails, Take, Update, Write, UpdateGet, UpdateZRem, UpdateZRemFails, RemoveOld,
         UpdateSet, UpdateZAdd, UpdateFails, Send, Attempt

(* What Send does where one worker at a time is allowed. *)
SendEffect(g) ==
    /\ at[g] = "send" /\ Past(g) /\ mail[g].id \in Emails /\ mail[g].st = "sending"
    /\ at'[g] = "update" /\ UNCHANGED <<data, queue, enq>>
    /\ mail'[g].id = mail[g].id /\ mail'[g].n = mail[g].n
    /\ mail'[g].st \in {"sent", "failed", "pending"}
    /\ mail'[g].st = "pending" => delivered'[mail[g].id] = 0
    /\ tries'[mail[g].id] = tries[mail[g].id] + 1 /\ tries'[mail[g].id] = mail[g].n
    /\ delivered[mail[g].id] = 0 /\ delivered'[mail[g].id] \in {0, 1}
    /\ \A e \in Emails : e # mail[g].id => tries'[e] = tries[e] /\ delivered'[e] = delivered[e]

LEMMA SendOnce ==
    ASSUME EmailTypes, Lone, OneAtATime, Attempted, NEW g \in Goroutines, NEW ok \in BOOLEAN, Send(g, ok)
    PROVE  SendEffect(g) /\ Attempted'
<1>0. /\ mail \in [Goroutines -> Mail] /\ at \in [Goroutines -> Places]
      /\ tries \in [Emails -> Nat] /\ delivered \in [Emails -> Nat] /\ Carried
      /\ MaxRetries \in Nat /\ mail[g].n \in Nat
  BY EmailAssumption DEF EmailTypes, StoreTyped, WorkersTyped, GhostsTyped, Mail
<1>1. /\ at[g] = "send" /\ Past(g) /\ mail[g].id \in Emails /\ mail[g].st = "sending"
      /\ at'[g] = "update" /\ UNCHANGED <<data, queue, enq>>
  BY <1>0 DEF Send, Attempt, Goto, Carried, Holds, Past, store
<1>2. /\ mail'[g].id = mail[g].id /\ mail'[g].n = mail[g].n
      /\ mail'[g].st = Outcome(ok, mail[g].n >= MaxRetries)
  BY <1>0 DEF Send, Attempt, Copy, id
<1>3. tries[mail[g].id] + 1 = mail[g].n /\ mail[g].n <= MaxRetries /\ delivered[mail[g].id] = 0
  BY <1>0, <1>1 DEF Attempted, Carried
<1>4. /\ tries'[mail[g].id] = mail[g].n /\ delivered'[mail[g].id] = IF ok THEN 1 ELSE 0
      /\ \A e \in Emails : e # mail[g].id => tries'[e] = tries[e] /\ delivered'[e] = delivered[e]
  <2>1. tries[mail[g].id] <= MaxRetries
    BY <1>0, <1>1, <1>3
  <2>2. /\ tries' = [tries EXCEPT ![mail[g].id] = IF @ <= MaxRetries THEN @ + 1 ELSE @]
        /\ delivered' = [delivered EXCEPT ![mail[g].id] = IF ok /\ @ < 2 THEN @ + 1 ELSE @]
    BY DEF Send, Attempt, id
  <2> QED
    BY <1>0, <1>1, <1>3, <2>1, <2>2
<1>5. mail'[g].st \in {"sent", "failed", "pending"} /\ (mail'[g].st = "pending" => ~ok)
  BY <1>2 DEF Outcome
<1>6. \A h \in Goroutines : h # g => ~Past(h) /\ ~Past(h)'
  BY OnlyWorker DEF Step
<1>7. SendEffect(g)
  BY <1>1, <1>2, <1>3, <1>4, <1>5 DEF SendEffect
<1>8. Attempted'
  BY <1>0, <1>1, <1>2, <1>3, <1>4, <1>5, <1>6 DEF Attempted, Past
<1> QED
  BY <1>7, <1>8

(* The part of the argument about a memory store. *)
LEMMA OnceInMemory ==
    ASSUME EmailTypes, Lone, Exclusive, env.store = "memory", Attempted, MemoryOnce, [Next]_vars
    PROVE  Attempted' /\ MemoryOnce'
<1>0. /\ data \in [Emails -> Record] /\ mail \in [Goroutines -> Mail] /\ at \in [Goroutines -> Places]
      /\ enq \in [Emails -> {"none", "stored", "done", "error"}]
      /\ tries \in [Emails -> Nat] /\ delivered \in [Emails -> Nat] /\ Carried /\ Bounded
      /\ MaxRetries \in Nat
      /\ \A e \in Emails : data[e].n \in Nat
      /\ \A g \in Goroutines : mail[g].n \in Nat
  BY EmailAssumption DEF EmailTypes, StoreTyped, WorkersTyped, GhostsTyped, Record, Mail
<1>1. OneAtATime
  BY DEF Exclusive
<1>2. ASSUME NEW e \in Emails, Enqueue(e) PROVE Attempted' /\ MemoryOnce'
  <2>1. /\ enq[e] = "none" /\ enq'[e] # "none" /\ data'[e].n = 0
        /\ \A f \in Emails : f # e => enq'[f] = enq[f] /\ data'[f] = data[f]
    BY <1>0, <1>2 DEF Enqueue, Put
  <2>2. UNCHANGED <<at, mail, tries, delivered>>
    BY <1>2, CallersOnly
  <2>3. \A g \in Goroutines : Past(g) => mail[g].id # e /\ mail[g].id \in Emails
    BY <1>0, <2>1 DEF Attempted, Carried, Holds
  <2>4. Attempted'
    BY <1>0, <2>1, <2>2, <2>3 DEF Attempted, Past
  <2>5. MemoryOnce'
    BY <1>0, <2>1, <2>2, <2>3 DEF Attempted, MemoryOnce, Past
  <2> QED
    BY <2>4, <2>5
<1>3. ASSUME NEW e \in Emails, EnqueueAdds(e) \/ Canceller(e) \/ Cleanup(e) PROVE Attempted' /\ MemoryOnce'
  <2>1. /\ \A f \in Emails : data'[f] = data[f] \/ data'[f].st = "none"
        /\ \A f \in Emails : enq'[f] = "none" <=> enq[f] = "none"
    BY <1>0, <1>3 DEF EnqueueAdds, Canceller, Cancel, Delete, DeleteZRem, DeleteData, Cleanup, store, Absent
  <2> QED
    BY <1>0, <1>3, <2>1, CallersOnly DEF Attempted, MemoryOnce, Holds, Past, Waiting, Carried
<1>4. ASSUME NEW g \in Goroutines, Step(g) \/ EndWorker(g) PROVE Attempted' /\ MemoryOnce'
  <2>0. /\ enq' = enq
        /\ \A h \in Goroutines : h # g => ~Past(h) /\ ~Past(h)' /\ at'[h] = at[h]
    BY <1>1, <1>4, OnlyWorker, WorkersOnly
  <2> USE DEF Goto, Copy, id
  <2>1. CASE Spawn(g) \/ EnterSelect(g) \/ EndWorker(g)
    BY <1>0, <2>0, <2>1 DEF Spawn, EnterSelect, EndWorker, store, ghosts, Attempted, MemoryOnce, Past
  <2>2. CASE Dequeue(g)
    <3>1. PICK e \in Ready : mail' = [mail EXCEPT ![g] = [id |-> e, st |-> "sending", n |-> data[e].n + 1]]
      BY <2>2 DEF Dequeue, DequeueFrom, Begin
    <3>2. /\ at' = [at EXCEPT ![g] = "update"] /\ UNCHANGED <<data, tries, delivered>>
          /\ e \in Emails /\ data[e].st \in Waiting
      BY <2>2 DEF Dequeue, DequeueFrom, Begin, store, ghosts, Ready, Waiting
    <3> QED
      BY <1>0, <2>0, <3>1, <3>2 DEF Attempted, MemoryOnce, Past, Waiting
  <2>3. CASE Update(g)
    <3>1. /\ at[g] = "update" /\ Past(g) /\ mail[g].id \in Emails
          /\ at'[g] = IF mail[g].st = "sending" THEN "send" ELSE "loop"
          /\ mail[g].st = "sending" => mail'[g] = mail[g]
          /\ UNCHANGED <<tries, delivered>>
      BY <1>0, <2>3 DEF Update, Write, Continue, Carried, Holds, Past
    <3>2. /\ \A e \in Emails : e # mail[g].id => data'[e] = data[e]
          /\ data'[mail[g].id].st = "none" \/ data'[mail[g].id] = [st |-> mail[g].st, n |-> mail[g].n]
      BY <1>0, <2>3, <3>1 DEF Update, Write, Put
    <3>3. data'[mail[g].id].st \in Waiting => mail[g].st = "pending" /\ data'[mail[g].id].n = mail[g].n
      BY <1>0, <3>1, <3>2 DEF Waiting, Carried
    <3>4. Attempted'
      BY <1>0, <2>0, <3>1 DEF Attempted, Past
    <3>5. MemoryOnce'
      BY <1>0, <2>0, <3>1, <3>2, <3>3 DEF Attempted, MemoryOnce, Past, Waiting
    <3> QED
      BY <3>4, <3>5
  <2>4. ASSUME NEW ok \in BOOLEAN, Send(g, ok) PROVE Attempted' /\ MemoryOnce'
    <3>1. SendEffect(g) /\ Attempted'
      BY <1>1, <1>4, <2>4, SendOnce
    <3>2. MemoryOnce'
      BY <1>0, <2>0, <3>1 DEF SendEffect, MemoryOnce, Past
    <3> QED
      BY <3>1, <3>2
  <2>5. ~(DequeueRange(g) \/ DequeueGet(g) \/ UpdateGet(g) \/ UpdateSet(g) \/ UpdateZAdd(g) \/ UpdateFails(g)
          \/ DequeueZRem(g) \/ DequeueZRemFails(g) \/ UpdateZRem(g) \/ UpdateZRemFails(g))
    BY <1>0 DEF DequeueRange, DequeueGet, UpdateGet, UpdateSet, UpdateZAdd, UpdateFails, DequeueZRem,
                DequeueZRemFails, Take, UpdateZRem, UpdateZRemFails, RemoveOld, Carried
  <2> QED
    BY <1>4, <2>1, <2>2, <2>3, <2>4, <2>5 DEF Step
<1>5. CASE Start
  BY <1>0, <1>5 DEF Start, store, ghosts, Attempted, MemoryOnce, Past
<1>6. CASE Stopping \/ Tick
  BY <1>6, StopOnly DEF Tick, store, workers, ghosts, Attempted, MemoryOnce, Past
<1>7. CASE UNCHANGED vars
  BY <1>7 DEF vars, store, workers, ghosts, Attempted, MemoryOnce, Past
<1> QED
  BY <1>2, <1>3, <1>4, <1>5, <1>6, <1>7 DEF Next, Crash

(* An email whose Send is under way. *)
Running(e) == \E g \in Goroutines : at[g] = "send" /\ mail[g].id = e

(* What a crash does to the attempts: the ones under way count. *)
LEMMA CrashEffect ==
    ASSUME Crash, NEW e \in Emails
    PROVE  /\ ~Running(e) => tries'[e] = tries[e] /\ delivered'[e] = delivered[e]
           /\ Running(e) => /\ tries'[e] = IF tries[e] <= MaxRetries THEN tries[e] + 1 ELSE tries[e]
                            /\ delivered'[e] = delivered[e]
                                  \/ delivered'[e] = IF delivered[e] < 2 THEN delivered[e] + 1 ELSE delivered[e]
<1>1. tries'[e] = IF e \in {mail[g].id : g \in {h \in Live : at[h] = "send"}} /\ tries[e] <= MaxRetries
                  THEN tries[e] + 1 ELSE tries[e]
  BY DEF Crash, id
<1>2. PICK S \in SUBSET {mail[g].id : g \in {h \in Live : at[h] = "send"}} :
          delivered'[e] = IF e \in S /\ delivered[e] < 2 THEN delivered[e] + 1 ELSE delivered[e]
  BY DEF Crash, id
<1>3. e \in {mail[g].id : g \in {h \in Live : at[h] = "send"}} <=> Running(e)
  BY DEF Live, Running
<1> QED
  BY <1>1, <1>2, <1>3

(* The part about Redis: with ZREM answering, an email is out of the sets of
   waiting emails from the moment it is taken to the moment it is put back. *)
LEMMA OnceInRedis ==
    ASSUME EmailTypes, Lone, Exclusive, env.store = "redis", Attempted, RedisOnce, [Next]_vars
    PROVE  Attempted' /\ RedisOnce'
<1>0. /\ data \in [Emails -> Record] /\ mail \in [Goroutines -> Mail] /\ at \in [Goroutines -> Places]
      /\ enq \in [Emails -> {"none", "stored", "done", "error"}]
      /\ tries \in [Emails -> Nat] /\ delivered \in [Emails -> Nat] /\ Carried /\ Bounded
      /\ queue \in [Statuses -> SUBSET Emails]
      /\ MaxRetries \in Nat
      /\ \A e \in Emails : data[e].n \in Nat
      /\ \A g \in Goroutines : mail[g].n \in Nat
  BY EmailAssumption DEF EmailTypes, StoreTyped, WorkersTyped, GhostsTyped, Record, Mail
<1>1. OneAtATime /\ "zrem" \notin env.faults /\ Waiting \subseteq Statuses
  BY DEF Exclusive, Waiting, Statuses
<1>2. ASSUME NEW e \in Emails, Enqueue(e) PROVE Attempted' /\ RedisOnce'
  <2>1. /\ enq[e] = "none" /\ enq'[e] = "stored" /\ data'[e].n = 0 /\ data'[e].st = FirstStatus(e)
        /\ \A f \in Emails : f # e => enq'[f] = enq[f] /\ data'[f] = data[f]
        /\ queue' = queue
    BY <1>0, <1>2 DEF Enqueue, Put
  <2>2. UNCHANGED <<at, mail, tries, delivered>>
    BY <1>2, CallersOnly
  <2>3. \A g \in Goroutines : Holds(g) => mail[g].id # e /\ mail[g].id \in Emails
    BY <1>0, <2>1 DEF RedisOnce, Carried
  <2>4. Attempted'
    BY <1>0, <2>1, <2>2, <2>3 DEF Attempted, Past, Holds
  <2>5. RedisOnce'
    BY <1>0, <2>1, <2>2, <2>3 DEF RedisOnce, Past, Holds, FirstStatus
  <2> QED
    BY <2>4, <2>5
<1>3. ASSUME NEW e \in Emails, EnqueueAdds(e) PROVE Attempted' /\ RedisOnce'
  <2>1. /\ enq[e] = "stored" /\ enq'[e] \in {"done", "error"} /\ data' = data
        /\ \A f \in Emails : f # e => enq'[f] = enq[f]
        /\ FirstStatus(e) \in Waiting
    BY <1>0, <1>3 DEF EnqueueAdds, FirstStatus, Waiting
  <2>2. \A s \in Waiting : queue'[s] = queue[s] \/ (s = FirstStatus(e) /\ queue'[s] = queue[s] \cup {e})
    BY <1>0, <1>1, <1>3 DEF EnqueueAdds, ZAdd
  <2>3. UNCHANGED <<at, mail, tries, delivered>>
    BY <1>3, CallersOnly
  <2>4. \A g \in Goroutines : Holds(g) => mail[g].id # e /\ mail[g].id \in Emails
    BY <1>0, <2>1 DEF RedisOnce, Carried
  <2>5. Attempted'
    BY <1>0, <2>1, <2>3, <2>4 DEF Attempted, Past, Holds
  <2>6. RedisOnce'
    BY <1>0, <2>1, <2>2, <2>3, <2>4 DEF RedisOnce, Past, Holds, FirstStatus
  <2> QED
    BY <2>5, <2>6
<1>4. ASSUME NEW e \in Emails, Canceller(e) \/ Cleanup(e) PROVE Attempted' /\ RedisOnce'
  <2>1. /\ \A f \in Emails : data'[f] = data[f] \/ (data'[f].st = "none" /\ data'[f].n = 0)
        /\ enq' = enq
    BY <1>0, <1>4 DEF Canceller, Cancel, Delete, DeleteZRem, DeleteData, Cleanup, store, Absent
  <2>2. \A s \in Waiting : queue'[s] \subseteq queue[s]
    BY <1>0, <1>1, <1>4 DEF Canceller, Cancel, Delete, DeleteZRem, DeleteData, Cleanup, store, ZRem
  <2>3. UNCHANGED <<at, mail, tries, delivered>>
    BY <1>4, CallersOnly
  <2>4. Attempted'
    BY <2>1, <2>3 DEF Attempted, Past
  <2>5. \A g \in Goroutines : Holds(g) => mail[g].id \in Emails
    BY <1>0 DEF Carried
  <2>6. RedisOnce'
    BY <1>0, <2>1, <2>2, <2>3, <2>5 DEF RedisOnce, Past, Holds
  <2> QED
    BY <2>4, <2>6
<1>5. ASSUME NEW g \in Goroutines, Step(g) \/ EndWorker(g) PROVE Attempted' /\ RedisOnce'
  <2>0. /\ enq' = enq
        /\ \A h \in Goroutines : h # g => ~Holds(h) /\ ~Past(h) /\ ~Holds(h)' /\ ~Past(h)' /\ at'[h] = at[h]
        /\ Holds(g) => mail[g].id \in Emails
    BY <1>0, <1>1, <1>5, OnlyWorker, WorkersOnly DEF Carried
  <2> USE DEF Goto, Copy, id
  <2>1. CASE Spawn(g) \/ EnterSelect(g) \/ EndWorker(g)
    BY <1>0, <2>0, <2>1 DEF Spawn, EnterSelect, EndWorker, store, ghosts, Attempted, RedisOnce, Holds, Past
  <2>2. CASE DequeueRange(g)
    <3>1. PICK e \in InRange("pending") \cup InRange("scheduled") :
              mail' = [mail EXCEPT ![g] = [id |-> e, st |-> "none", n |-> 0]]
      BY <2>2 DEF DequeueRange
    <3>2. /\ at'[g] = "get" /\ UNCHANGED <<data, queue, tries, delivered>> /\ mail'[g].id = e
          /\ e \in Emails /\ (e \in queue["pending"] \/ e \in queue["scheduled"])
      BY <1>0, <2>2, <3>1 DEF DequeueRange, store, ghosts, InRange, Statuses
    <3>3. Attempted'
      BY <1>0, <2>0, <3>2 DEF Attempted, Past
    <3>4. RedisOnce'
      BY <1>0, <2>0, <3>2 DEF RedisOnce, Past, Holds, Waiting
    <3> QED
      BY <3>3, <3>4
  <2>3. CASE DequeueGet(g)
    <3>1. /\ at[g] = "get" /\ Holds(g) /\ mail[g].id \in Emails /\ UNCHANGED <<data, queue, tries, delivered>>
          /\ \/ /\ data[mail[g].id].st # "none" /\ at'[g] = "take" /\ mail'[g].id = mail[g].id
                /\ mail'[g].st = data[mail[g].id].st /\ mail'[g].n = data[mail[g].id].n
             \/ at'[g] = "loop"
      BY <1>0, <2>0, <2>3 DEF DequeueGet, store, ghosts, Holds
    <3>2. data[mail[g].id].st \in Waiting => data[mail[g].id].n < MaxRetries
      BY <1>0, <3>1 DEF Bounded
    <3>3. Attempted'
      BY <1>0, <2>0, <3>1 DEF Attempted, Past
    <3>4. RedisOnce'
      BY <1>0, <2>0, <3>1, <3>2 DEF RedisOnce, Past, Holds
    <3> QED
      BY <3>3, <3>4
  <2>4. CASE DequeueZRem(g)
    <3>1. /\ at[g] = "take" /\ Holds(g) /\ mail[g].id \in Emails /\ UNCHANGED <<data, tries, delivered>>
          /\ at'[g] = "update" /\ mail'[g].id = mail[g].id /\ mail'[g].st = "sending"
          /\ mail'[g].n = IF mail[g].n < MaxRetries THEN mail[g].n + 1 ELSE MaxRetries
          /\ \A s \in Waiting : queue'[s] = IF s = mail[g].st THEN queue[s] \ {mail[g].id} ELSE queue[s]
      BY <1>0, <1>1, <2>0, <2>4 DEF DequeueZRem, Take, ZRem, ghosts, Holds
    <3>2. /\ mail[g].n < MaxRetries /\ mail[g].n = tries[mail[g].id] /\ delivered[mail[g].id] = 0
          /\ enq[mail[g].id] # "none"
          /\ \A s \in Waiting : mail[g].id \notin queue'[s]
          /\ \A s \in Waiting : queue'[s] \subseteq queue[s]
      BY <1>0, <3>1 DEF RedisOnce
    <3>3. Attempted'
      BY <1>0, <2>0, <3>1, <3>2 DEF Attempted, Past
    <3>4. RedisOnce'
      BY <1>0, <2>0, <3>1, <3>2 DEF RedisOnce, Past, Holds
    <3> QED
      BY <3>3, <3>4
  <2>5. CASE UpdateGet(g) \/ UpdateZRem(g)
    <3>1. /\ at[g] \in {"update", "zrem"} /\ Past(g) /\ at'[g] \in {"zrem", "set"}
          /\ UNCHANGED <<data, tries, delivered, mail>>
          /\ \A s \in Waiting : queue'[s] \subseteq queue[s]
      BY <1>0, <1>1, <2>5 DEF UpdateGet, UpdateZRem, RemoveOld, ZRem, store, ghosts, Past
    <3>2. Attempted'
      BY <1>0, <2>0, <3>1 DEF Attempted, Past
    <3>3. RedisOnce'
      BY <1>0, <2>0, <3>1 DEF RedisOnce, Past, Holds
    <3> QED
      BY <3>2, <3>3
  <2>6. CASE UpdateSet(g)
    <3>1. /\ at[g] = "set" /\ Past(g) /\ Holds(g) /\ mail[g].id \in Emails /\ at'[g] = "zadd"
          /\ UNCHANGED <<queue, tries, delivered, mail>>
          /\ data'[mail[g].id].st = mail[g].st /\ data'[mail[g].id].n = mail[g].n
          /\ \A e \in Emails : e # mail[g].id => data'[e] = data[e]
      BY <1>0, <2>0, <2>6 DEF UpdateSet, Put, ghosts, Past, Holds
    <3>2. Attempted'
      BY <1>0, <2>0, <3>1 DEF Attempted, Past
    <3>3. RedisOnce'
      BY <1>0, <2>0, <3>1 DEF RedisOnce, Past, Holds
    <3> QED
      BY <3>2, <3>3
  <2>7. CASE UpdateZAdd(g)
    <3>1. /\ at[g] = "zadd" /\ Past(g) /\ Holds(g) /\ mail[g].id \in Emails
          /\ at'[g] = IF mail[g].st = "sending" THEN "send" ELSE "loop"
          /\ mail[g].st = "sending" => mail'[g] = mail[g]
          /\ UNCHANGED <<data, tries, delivered>>
          /\ mail[g].st \in {"sending", "sent", "failed", "pending"}
      BY <1>0, <2>0, <2>7 DEF UpdateZAdd, Continue, Past, Holds, Carried
    <3>2. \A s \in Waiting : queue'[s] = IF s = mail[g].st THEN queue[s] \cup {mail[g].id} ELSE queue[s]
      BY <1>0, <1>1, <2>7 DEF UpdateZAdd, ZAdd
    <3>3. mail[g].st \in Waiting => mail[g].st = "pending"
      BY <3>1 DEF Waiting
    <3>4. Attempted'
      BY <1>0, <2>0, <3>1 DEF Attempted, Past
    <3>5. RedisOnce'
      BY <1>0, <2>0, <3>1, <3>2, <3>3 DEF RedisOnce, Attempted, Past, Holds, Waiting
    <3> QED
      BY <3>4, <3>5
  <2>8. CASE UpdateFails(g)
    <3>1. /\ at[g] \in {"set", "zadd"} /\ Past(g) /\ Holds(g)
          /\ at'[g] = IF mail[g].st = "sending" THEN "send" ELSE "loop"
          /\ mail[g].st = "sending" => mail'[g] = mail[g]
          /\ UNCHANGED <<data, queue, tries, delivered>>
      BY <1>0, <2>8 DEF UpdateFails, Continue, Past, Holds, store
    <3>2. Attempted'
      BY <1>0, <2>0, <3>1 DEF Attempted, Past
    <3>3. RedisOnce'
      BY <1>0, <2>0, <3>1 DEF RedisOnce, Past, Holds
    <3> QED
      BY <3>2, <3>3
  <2>9. ASSUME NEW ok \in BOOLEAN, Send(g, ok) PROVE Attempted' /\ RedisOnce'
    <3>1. SendEffect(g) /\ Attempted'
      BY <1>1, <2>9, SendOnce
    <3>2. RedisOnce'
      BY <1>0, <2>0, <3>1 DEF SendEffect, RedisOnce, Past, Holds
    <3> QED
      BY <3>1, <3>2
  <2>10. ~(Dequeue(g) \/ Update(g) \/ DequeueZRemFails(g) \/ UpdateZRemFails(g))
    BY <1>1 DEF Dequeue, DequeueFrom, Update, Write, DequeueZRemFails, UpdateZRemFails
  <2> QED
    BY <1>5, <2>1, <2>2, <2>3, <2>4, <2>5, <2>6, <2>7, <2>8, <2>9, <2>10 DEF Step
<1>6. CASE Start
  <2>1. /\ UNCHANGED <<data, queue, enq, mail, tries, delivered>>
        /\ \A g \in Goroutines : at'[g] = at[g] \/ at'[g] = "due"
    BY <1>6 DEF Start, store, ghosts
  <2> QED
    BY <2>1 DEF Attempted, RedisOnce, Past, Holds
<1>7. CASE Stopping \/ Tick
  BY <1>7, StopOnly DEF Tick, store, workers, ghosts, Attempted, RedisOnce, Past, Holds
<1>8. CASE Crash
  <2>1. /\ UNCHANGED <<data, queue, enq>>
        /\ \A g \in Goroutines : ~Holds(g)' /\ ~Past(g)' /\ at'[g] \notin {"get", "take", "zadd"}
    BY <1>8 DEF Crash, store, Holds, Past, Live
  <2>2. \A e \in Emails :
            /\ ~Running(e) => tries'[e] = tries[e] /\ delivered'[e] = delivered[e]
            /\ Running(e) => /\ tries'[e] = IF tries[e] <= MaxRetries THEN tries[e] + 1 ELSE tries[e]
                             /\ delivered'[e] = delivered[e]
                                   \/ delivered'[e] = IF delivered[e] < 2 THEN delivered[e] + 1 ELSE delivered[e]
    BY <1>8, CrashEffect
  <2>3. ASSUME NEW e \in Emails, Running(e)
        PROVE  /\ delivered[e] = 0 /\ tries[e] + 1 <= MaxRetries /\ enq[e] \notin {"none", "stored"}
               /\ \A s \in Waiting : e \notin queue[s]
    <3>1. PICK g \in Goroutines : at[g] = "send" /\ mail[g].id = e
      BY <2>3 DEF Running
    <3>2. Past(g) /\ Holds(g) /\ mail[g].st = "sending" /\ mail[g].n <= MaxRetries
      BY <1>0, <3>1 DEF Carried, Past, Holds
    <3> QED
      BY <1>0, <3>1, <3>2 DEF Attempted, RedisOnce
  <2>4. Attempted'
    BY <1>0, <2>1, <2>2, <2>3 DEF Attempted
  <2>5. RedisOnce'
    BY <1>0, <2>1, <2>2, <2>3 DEF RedisOnce, FirstStatus
  <2> QED
    BY <2>4, <2>5
<1>9. CASE UNCHANGED vars
  BY <1>9 DEF vars, store, workers, ghosts, Attempted, RedisOnce, Past, Holds
<1> QED
  BY <1>2, <1>3, <1>4, <1>5, <1>6, <1>7, <1>8, <1>9 DEF Next

----------------------------------------------------------------------------
(* The attempt counter is written before the attempt: it is at most one ahead,
   and only while somebody is on the way to Send. *)
Behind ==
    \A g \in Goroutines : Past(g) =>
        /\ mail[g].st = "sending" => mail[g].n <= tries[mail[g].id] + 1
        /\ mail[g].st # "sending" => mail[g].n <= tries[mail[g].id]

MemoryTried == \A e \in Emails : data[e].st \in Waiting => data[e].n <= tries[e]

Heading(e) == \E g \in Goroutines : Past(g) /\ mail[g].st = "sending" /\ mail[g].id = e
RedisTried ==
    /\ \A e \in Emails : data[e].n <= tries[e] \/ (Heading(e) /\ data[e].n <= tries[e] + 1)
    /\ \A g \in Goroutines : at[g] = "take" => mail[g].n <= tries[mail[g].id]

Tried ==
    /\ env.store = "memory" => Behind /\ MemoryTried
    /\ env.store = "redis" /\ OneAtATime /\ ~env.crashes => Behind /\ RedisTried

(* Send makes the attempt it was counted for, and no step takes one back. *)
LEMMA SendTries ==
    ASSUME EmailTypes, NEW g \in Goroutines, NEW ok \in BOOLEAN, Send(g, ok),
           mail[g].n <= tries[mail[g].id] + 1
    PROVE  /\ at[g] = "send" /\ Past(g) /\ mail[g].id \in Emails /\ mail[g].st = "sending"
           /\ at'[g] = "update" /\ UNCHANGED <<data, queue, enq, failed>>
           /\ mail'[g].id = mail[g].id /\ mail'[g].n = mail[g].n /\ mail'[g].st # "sending"
           /\ \A h \in Goroutines : h # g => mail'[h] = mail[h] /\ at'[h] = at[h]
           /\ mail[g].n <= tries'[mail[g].id] /\ tries[mail[g].id] <= tries'[mail[g].id]
           /\ tries'[mail[g].id] \in Nat
           /\ \A e \in Emails : e # mail[g].id => tries'[e] = tries[e]
           /\ tries[mail[g].id] <= MaxRetries => tries'[mail[g].id] = tries[mail[g].id] + 1
<1>0. /\ mail \in [Goroutines -> Mail] /\ at \in [Goroutines -> Places]
      /\ tries \in [Emails -> Nat] /\ Carried /\ MaxRetries \in Nat /\ mail[g].n \in Nat
  BY EmailAssumption DEF EmailTypes, WorkersTyped, GhostsTyped, Mail
<1>1. /\ at[g] = "send" /\ Past(g) /\ mail[g].id \in Emails /\ mail[g].st = "sending"
      /\ at'[g] = "update" /\ UNCHANGED <<data, queue, enq, failed>> /\ mail[g].n <= MaxRetries
  BY <1>0 DEF Send, Attempt, Goto, Carried, Holds, Past, store
<1>2. /\ mail'[g].id = mail[g].id /\ mail'[g].n = mail[g].n
      /\ mail'[g].st = Outcome(ok, mail[g].n >= MaxRetries)
      /\ \A h \in Goroutines : h # g => mail'[h] = mail[h] /\ at'[h] = at[h]
  BY <1>0 DEF Send, Attempt, Goto, Copy, id
<1>3. tries' = [tries EXCEPT ![mail[g].id] = IF @ <= MaxRetries THEN @ + 1 ELSE @]
  BY DEF Send, Attempt, id
<1>4. mail'[g].st # "sending"
  BY <1>2 DEF Outcome
<1>5. /\ mail[g].n <= tries'[mail[g].id] /\ tries[mail[g].id] <= tries'[mail[g].id]
      /\ tries'[mail[g].id] \in Nat
      /\ \A e \in Emails : e # mail[g].id => tries'[e] = tries[e]
      /\ tries[mail[g].id] <= MaxRetries => tries'[mail[g].id] = tries[mail[g].id] + 1
  BY <1>0, <1>1, <1>3
<1> QED
  BY <1>1, <1>2, <1>4, <1>5

(* In memory this holds for any number of workers. *)
LEMMA TriedInMemory ==
    ASSUME EmailTypes, env.store = "memory", Behind, MemoryTried, [Next]_vars
    PROVE  Behind' /\ MemoryTried'
<1>0. /\ data \in [Emails -> Record] /\ mail \in [Goroutines -> Mail] /\ at \in [Goroutines -> Places]
      /\ tries \in [Emails -> Nat] /\ Carried /\ MaxRetries \in Nat
      /\ \A e \in Emails : data[e].n \in Nat
      /\ \A g \in Goroutines : mail[g].n \in Nat
  BY EmailAssumption DEF EmailTypes, StoreTyped, WorkersTyped, GhostsTyped, Record, Mail
<1>1. ASSUME NEW e \in Emails, Enqueue(e) \/ EnqueueAdds(e) \/ Canceller(e) \/ Cleanup(e)
      PROVE Behind' /\ MemoryTried'
  <2>1. \A f \in Emails : data'[f] = data[f] \/ data'[f].n = 0
    BY <1>0, <1>1 DEF Enqueue, Put, EnqueueAdds, Canceller, Cancel, Delete, DeleteZRem, DeleteData, Cleanup,
                      store, Absent
  <2> QED
    BY <1>0, <1>1, <2>1, CallersOnly DEF Behind, MemoryTried, Past
<1>2. ASSUME NEW g \in Goroutines, Step(g) \/ EndWorker(g) PROVE Behind' /\ MemoryTried'
  <2> USE DEF Goto, Copy, id
  <2>1. CASE Spawn(g) \/ EnterSelect(g) \/ EndWorker(g)
    BY <1>0, <2>1 DEF Spawn, EnterSelect, EndWorker, store, ghosts, Behind, MemoryTried, Past
  <2>2. CASE Dequeue(g)
    <3>1. PICK e \in Ready : mail' = [mail EXCEPT ![g] = [id |-> e, st |-> "sending", n |-> data[e].n + 1]]
      BY <2>2 DEF Dequeue, DequeueFrom, Begin
    <3>2. /\ at' = [at EXCEPT ![g] = "update"] /\ UNCHANGED <<data, tries>>
          /\ e \in Emails /\ data[e].st \in Waiting
      BY <2>2 DEF Dequeue, DequeueFrom, Begin, store, ghosts, Ready, Waiting
    <3> QED
      BY <1>0, <3>1, <3>2 DEF Behind, MemoryTried, Past
  <2>3. CASE Update(g)
    <3>1. /\ at[g] = "update" /\ Past(g) /\ mail[g].id \in Emails
          /\ at'[g] = IF mail[g].st = "sending" THEN "send" ELSE "loop"
          /\ mail[g].st = "sending" => mail'[g] = mail[g]
          /\ \A h \in Goroutines : h # g => mail'[h] = mail[h] /\ at'[h] = at[h]
          /\ UNCHANGED tries
      BY <1>0, <2>3 DEF Update, Write, Continue, Carried, Holds, Past
    <3>2. /\ \A e \in Emails : e # mail[g].id => data'[e] = data[e]
          /\ data'[mail[g].id].st = "none" \/ data'[mail[g].id] = [st |-> mail[g].st, n |-> mail[g].n]
      BY <1>0, <2>3, <3>1 DEF Update, Write, Put
    <3>3. data'[mail[g].id].st \in Waiting => mail[g].st # "sending" /\ data'[mail[g].id].n = mail[g].n
      BY <1>0, <3>1, <3>2 DEF Waiting
    <3>4. Behind'
      BY <1>0, <3>1 DEF Behind, Past
    <3>5. MemoryTried'
      BY <1>0, <3>1, <3>2, <3>3 DEF Behind, MemoryTried
    <3> QED
      BY <3>4, <3>5
  <2>4. ASSUME NEW ok \in BOOLEAN, Send(g, ok) PROVE Behind' /\ MemoryTried'
    <3>0. mail[g].n <= tries[mail[g].id] + 1
      BY <1>0, <2>4 DEF Send, Attempt, Behind, Past, Carried
    <3>1. /\ Behind'
      BY <1>0, <2>4, <3>0, SendTries DEF Behind, Past, Carried, Holds
    <3>2. MemoryTried'
      BY <1>0, <2>4, <3>0, SendTries DEF MemoryTried
    <3> QED
      BY <3>1, <3>2
  <2>5. ~(DequeueRange(g) \/ DequeueGet(g) \/ UpdateGet(g) \/ UpdateSet(g) \/ UpdateZAdd(g) \/ UpdateFails(g)
          \/ DequeueZRem(g) \/ DequeueZRemFails(g) \/ UpdateZRem(g) \/ UpdateZRemFails(g))
    BY <1>0 DEF DequeueRange, DequeueGet, UpdateGet, UpdateSet, UpdateZAdd, UpdateFails, DequeueZRem,
                DequeueZRemFails, Take, UpdateZRem, UpdateZRemFails, RemoveOld, Carried
  <2> QED
    BY <1>2, <2>1, <2>2, <2>3, <2>4, <2>5 DEF Step
<1>3. CASE Start
  <2>1. /\ UNCHANGED <<data, mail, tries>>
        /\ \A g \in Goroutines : at'[g] = at[g] \/ at'[g] = "due"
    BY <1>3 DEF Start, store, ghosts
  <2> QED
    BY <2>1 DEF Behind, MemoryTried, Past
<1>4. CASE Stopping \/ Tick \/ UNCHANGED vars
  BY <1>4, StopOnly DEF Tick, vars, store, workers, ghosts, Behind, MemoryTried, Past
<1> QED
  BY <1>1, <1>2, <1>3, <1>4 DEF Next, Crash

(* In Redis the counter is read back whatever the status: this needs one worker
   at a time, and nobody who dies between the two. *)
LEMMA TriedInRedis ==
    ASSUME EmailTypes, Lone, OneAtATime, env.store = "redis", ~env.crashes, Behind, RedisTried, [Next]_vars
    PROVE  Behind' /\ RedisTried'
<1>0. /\ data \in [Emails -> Record] /\ mail \in [Goroutines -> Mail] /\ at \in [Goroutines -> Places]
      /\ tries \in [Emails -> Nat] /\ Carried /\ MaxRetries \in Nat
      /\ \A e \in Emails : data[e].n \in Nat
      /\ \A g \in Goroutines : mail[g].n \in Nat
  BY EmailAssumption DEF EmailTypes, StoreTyped, WorkersTyped, GhostsTyped, Record, Mail
<1>1. ASSUME NEW e \in Emails, Enqueue(e) \/ EnqueueAdds(e) \/ Canceller(e) \/ Cleanup(e)
      PROVE Behind' /\ RedisTried'
  <2>1. \A f \in Emails : data'[f] = data[f] \/ data'[f].n = 0
    BY <1>0, <1>1 DEF Enqueue, Put, EnqueueAdds, Canceller, Cancel, Delete, DeleteZRem, DeleteData, Cleanup,
                      store, Absent
  <2>2. UNCHANGED <<at, mail, tries>>
    BY <1>1, CallersOnly
  <2> QED
    BY <1>0, <2>1, <2>2 DEF Behind, RedisTried, Heading, Past
<1>2. ASSUME NEW g \in Goroutines, Step(g) \/ EndWorker(g) PROVE Behind' /\ RedisTried'
  <2>0. \A h \in Goroutines : h # g => ~Holds(h) /\ ~Past(h) /\ ~Holds(h)' /\ ~Past(h)' /\ at'[h] = at[h]
    BY <1>2, OnlyWorker
  <2>1. /\ \A e \in Emails : Heading(e) <=> Past(g) /\ mail[g].st = "sending" /\ mail[g].id = e
        /\ \A e \in Emails : Heading(e)' <=> Past(g)' /\ mail'[g].st = "sending" /\ mail'[g].id = e
    BY <2>0 DEF Heading, Past
  <2>2. \A h \in Goroutines : h # g => at[h] # "take" /\ at'[h] # "take"
    BY <2>0 DEF Holds
  <2> USE DEF Goto, Copy, id
  <2>3. CASE Spawn(g) \/ EnterSelect(g) \/ EndWorker(g)
    BY <1>0, <2>0, <2>1, <2>2, <2>3 DEF Spawn, EnterSelect, EndWorker, store, ghosts, Behind, RedisTried, Past
  <2>4. CASE DequeueRange(g)
    <3>1. at[g] = "select" /\ at'[g] = "get" /\ UNCHANGED <<data, tries>>
      BY <1>0, <2>4 DEF DequeueRange, store, ghosts
    <3> QED
      BY <1>0, <2>0, <2>1, <2>2, <3>1 DEF Behind, RedisTried, Past
  <2>5. CASE DequeueGet(g)
    <3>1. /\ at[g] = "get" /\ mail[g].id \in Emails /\ UNCHANGED <<data, tries>>
          /\ \/ /\ at'[g] = "take" /\ mail'[g].id = mail[g].id /\ mail'[g].n = data[mail[g].id].n
             \/ at'[g] = "loop"
      BY <1>0, <2>5 DEF DequeueGet, store, ghosts, Holds, Carried
    <3> QED
      BY <1>0, <2>0, <2>1, <2>2, <3>1 DEF Behind, RedisTried, Past
  <2>6. ASSUME NEW rem, Take(g, rem) PROVE Behind' /\ RedisTried'
    <3>1. /\ at[g] = "take" /\ mail[g].id \in Emails /\ UNCHANGED <<data, tries>>
          /\ at'[g] = "update" /\ mail'[g].id = mail[g].id /\ mail'[g].st = "sending"
          /\ mail'[g].n = IF mail[g].n < MaxRetries THEN mail[g].n + 1 ELSE MaxRetries
          /\ mail[g].n <= MaxRetries
      BY <1>0, <2>6 DEF Take, ghosts, Holds, Carried
    <3> QED
      BY <1>0, <2>0, <2>1, <2>2, <3>1 DEF Behind, RedisTried, Past
  <2>7. ASSUME UpdateGet(g) \/ \E rem : RemoveOld(g, rem) PROVE Behind' /\ RedisTried'
    <3>1. /\ at[g] \in {"update", "zrem"} /\ at'[g] \in {"zrem", "set"} /\ UNCHANGED <<data, tries, mail>>
      BY <1>0, <2>7 DEF UpdateGet, RemoveOld, store, ghosts
    <3> QED
      BY <1>0, <2>0, <2>1, <2>2, <3>1 DEF Behind, RedisTried, Past
  <2>8. CASE UpdateSet(g)
    <3>1. /\ at[g] = "set" /\ mail[g].id \in Emails /\ at'[g] = "zadd"
          /\ UNCHANGED <<tries, mail>> /\ data'[mail[g].id].n = mail[g].n
          /\ \A e \in Emails : e # mail[g].id => data'[e] = data[e]
      BY <1>0, <2>8 DEF UpdateSet, Put, ghosts, Past, Holds, Carried
    <3> QED
      BY <1>0, <2>0, <2>1, <2>2, <3>1 DEF Behind, RedisTried, Past
  <2>9. CASE UpdateZAdd(g) \/ UpdateFails(g)
    <3>1. /\ at[g] \in {"set", "zadd"}
          /\ at'[g] = IF mail[g].st = "sending" THEN "send" ELSE "loop"
          /\ mail[g].st = "sending" => mail'[g] = mail[g]
          /\ UNCHANGED <<data, tries>>
      BY <1>0, <2>9 DEF UpdateZAdd, UpdateFails, Continue, store
    <3> QED
      BY <1>0, <2>0, <2>1, <2>2, <3>1 DEF Behind, RedisTried, Past
  <2>10. ASSUME NEW ok \in BOOLEAN, Send(g, ok) PROVE Behind' /\ RedisTried'
    <3>0. mail[g].n <= tries[mail[g].id] + 1
      BY <1>0, <2>10 DEF Send, Attempt, Behind, Past, Carried
    <3>1. /\ at[g] = "send" /\ mail[g].id \in Emails /\ mail[g].st = "sending" /\ mail[g].n <= MaxRetries
          /\ at'[g] = "update" /\ data' = data
          /\ mail'[g].id = mail[g].id /\ mail'[g].n = mail[g].n /\ mail'[g].st # "sending"
          /\ mail[g].n <= tries'[mail[g].id] /\ tries[mail[g].id] <= tries'[mail[g].id]
          /\ tries'[mail[g].id] \in Nat
          /\ \A e \in Emails : e # mail[g].id => tries'[e] = tries[e]
          /\ tries[mail[g].id] <= MaxRetries => tries'[mail[g].id] = tries[mail[g].id] + 1
      BY <1>0, <2>10, <3>0, SendTries DEF Carried, Past
    <3>2. data[mail[g].id].n <= MaxRetries
      BY <3>1 DEF EmailTypes, Bounded
    <3>3. data[mail[g].id].n <= tries'[mail[g].id]
      BY <1>0, <3>1, <3>2 DEF RedisTried
    <3>4. Behind'
      BY <1>0, <2>0, <3>1 DEF Behind, Past
    <3>5. RedisTried'
      BY <1>0, <2>0, <2>1, <2>2, <3>1, <3>3 DEF RedisTried, Past
    <3> QED
      BY <3>4, <3>5
  <2>11. ~(Dequeue(g) \/ Update(g))
    BY DEF Dequeue, DequeueFrom, Update, Write
  <2> QED
    BY <1>2, <2>3, <2>4, <2>5, <2>6, <2>7, <2>8, <2>9, <2>10, <2>11
       DEF Step, DequeueZRem, DequeueZRemFails, UpdateZRem, UpdateZRemFails
<1>3. CASE Start
  <2>1. /\ UNCHANGED <<data, mail, tries>>
        /\ \A g \in Goroutines : at'[g] = at[g] \/ (at'[g] = "due" /\ at[g] \in {"unborn", "ended"})
    <3>1. ~running /\ stopCh < env.starts
      BY <1>3 DEF Start
    <3>2. \A g \in Goroutines : g[2] = stopCh + 1 => g \notin Live
      BY DEF Lone, EmailTypes, WorkersTyped
    <3> QED
      BY <1>3, <3>2 DEF Start, store, ghosts, Live
  <2>2. \A g \in Goroutines : (Past(g)' <=> Past(g)) /\ (at'[g] = "take" <=> at[g] = "take")
    BY <2>1 DEF Past
  <2> QED
    BY <2>1, <2>2 DEF Behind, RedisTried, Heading
<1>4. CASE Stopping \/ Tick \/ UNCHANGED vars
  BY <1>4, StopOnly DEF Tick, vars, store, workers, ghosts, Behind, RedisTried, Heading, Past
<1> QED
  BY <1>1, <1>2, <1>3, <1>4 DEF Next, Crash

----------------------------------------------------------------------------
(* Redis sets and records, where nothing fails: an email is in the set of its
   status, except while a worker carries it from one set to the next. *)
Nowhere(e) == \A s \in Statuses : e \notin queue[s]
Matches(e) == \A s \in Statuses : e \in queue[s] <=> data[e].st = s

SetsMatch ==
    /\ \A e \in Emails : /\ cancel[e].pc = "idle" /\ enq[e] # "error"
                         /\ enq[e] \in {"none", "stored"} => Nowhere(e)
                         /\ enq[e] = "stored" => data[e].st = FirstStatus(e)
                         /\ enq[e] = "done" => Matches(e) \/ \E g \in Goroutines : Past(g) /\ mail[g].id = e
    /\ \A g \in Goroutines :
          /\ Holds(g) => enq[mail[g].id] = "done"
          /\ at[g] = "take" => mail[g].st = data[mail[g].id].st
          /\ at[g] \in {"update", "zrem"} /\ mail[g].st = "sending" => Nowhere(mail[g].id)
          /\ at[g] \in {"update", "zrem"} /\ mail[g].st # "sending" =>
                Matches(mail[g].id) /\ data[mail[g].id].st # mail[g].st
          /\ at[g] = "zrem" => old[g] = data[mail[g].id].st
          /\ at[g] \in {"set", "zadd"} => Nowhere(mail[g].id)
          /\ at[g] = "zadd" => data[mail[g].id].st = mail[g].st
          /\ at[g] = "send" => Matches(mail[g].id) /\ data[mail[g].id].st = "sending"

(* SetsMatch is inductive in the deployments Steady admits. *)
LEMMA SetsMatchStep ==
    ASSUME EmailTypes, Lone, Steady, env.store = "redis", SetsMatch, [Next]_vars
    PROVE  SetsMatch'
<1>0. /\ data \in [Emails -> Record] /\ mail \in [Goroutines -> Mail] /\ at \in [Goroutines -> Places]
      /\ enq \in [Emails -> {"none", "stored", "done", "error"}] /\ old \in [Goroutines -> Stored]
      /\ queue \in [Statuses -> SUBSET Emails] /\ Carried
  BY DEF EmailTypes, StoreTyped, WorkersTyped
<1>1. OneAtATime /\ env.faults = {} /\ ~env.crashes /\ env.cancelled = {}
  BY DEF Steady
<1>2. ASSUME NEW e \in Emails, Enqueue(e) PROVE SetsMatch'
  <2>1. /\ enq[e] = "none" /\ enq'[e] = "stored" /\ data'[e].st = FirstStatus(e)
        /\ \A f \in Emails : f # e => enq'[f] = enq[f] /\ data'[f] = data[f]
        /\ UNCHANGED <<queue, cancel>>
    BY <1>0, <1>2 DEF Enqueue, Put
  <2>2. UNCHANGED <<at, mail, old>>
    BY <1>2, CallersOnly
  <2>3. \A g \in Goroutines : Holds(g) => mail[g].id # e /\ mail[g].id \in Emails
    BY <1>0, <2>1 DEF SetsMatch, Carried
  <2> QED
    BY <1>0, <2>1, <2>2, <2>3 DEF SetsMatch, Nowhere, Matches, Past, Holds, FirstStatus
<1>3. ASSUME NEW e \in Emails, EnqueueAdds(e) PROVE SetsMatch'
  <2>1. /\ enq[e] = "stored" /\ enq'[e] = "done" /\ UNCHANGED <<data, cancel>>
        /\ \A f \in Emails : f # e => enq'[f] = enq[f]
    BY <1>0, <1>1, <1>3 DEF EnqueueAdds
  <2>2. \A s \in Statuses : queue'[s] = IF s = FirstStatus(e) THEN queue[s] \cup {e} ELSE queue[s]
    BY <1>0, <1>1, <1>3 DEF EnqueueAdds, ZAdd
  <2>3. UNCHANGED <<at, mail, old>>
    BY <1>3, CallersOnly
  <2>4. \A g \in Goroutines : Holds(g) => mail[g].id # e /\ mail[g].id \in Emails
    BY <1>0, <2>1 DEF SetsMatch, Carried
  <2>5. Matches(e)'
    <3>1. Nowhere(e) /\ data'[e].st = FirstStatus(e)
      BY <2>1 DEF SetsMatch
    <3>2. \A s \in Statuses : e \in queue'[s] <=> s = FirstStatus(e)
      BY <2>2, <3>1 DEF Nowhere
    <3> QED
      BY <3>1, <3>2 DEF Matches
  <2>6. \A f \in Emails : f # e => (Matches(f)' <=> Matches(f)) /\ (Nowhere(f)' <=> Nowhere(f))
    <3>1. \A f \in Emails, s \in Statuses : f # e => (f \in queue'[s] <=> f \in queue[s])
      BY <2>2
    <3> QED
      BY <2>1, <3>1 DEF Matches, Nowhere
  <2> QED
    BY <1>0, <2>1, <2>3, <2>4, <2>5, <2>6 DEF SetsMatch, Past, Holds, FirstStatus
<1>4. ASSUME NEW e \in Emails, Canceller(e) \/ Cleanup(e) PROVE FALSE
  BY <1>1, <1>4 DEF Canceller, Cancel, Delete, DeleteZRem, DeleteData, Cleanup, SetsMatch
<1>5. ASSUME NEW g \in Goroutines, Step(g) \/ EndWorker(g) PROVE SetsMatch'
  <2>0. /\ UNCHANGED <<enq, cancel>>
        /\ \A h \in Goroutines : h # g => ~Holds(h) /\ ~Past(h) /\ ~Holds(h)' /\ ~Past(h)' /\ at'[h] = at[h]
        /\ Holds(g) => mail[g].id \in Emails /\ enq[mail[g].id] = "done"
    BY <1>0, <1>1, <1>5, OnlyWorker, WorkersOnly DEF Carried, SetsMatch
  <2>1. /\ \A e \in Emails : (\E h \in Goroutines : Past(h) /\ mail[h].id = e) <=> Past(g) /\ mail[g].id = e
        /\ \A e \in Emails : (\E h \in Goroutines : Past(h)' /\ mail'[h].id = e) <=> Past(g)' /\ mail'[g].id = e
    BY <2>0
  <2>2. \A h \in Goroutines : h # g => at'[h] \notin {"take", "update", "zrem", "set", "zadd", "send"}
    BY <2>0 DEF Holds, Past
  <2> USE DEF Goto, Copy, id
  <2>3. CASE Spawn(g) \/ EnterSelect(g) \/ EndWorker(g)
    BY <1>0, <2>0, <2>1, <2>2, <2>3 DEF Spawn, EnterSelect, EndWorker, store, SetsMatch, Nowhere, Matches, Past, Holds
  <2>4. CASE DequeueRange(g)
    <3>1. PICK e \in InRange("pending") \cup InRange("scheduled") :
              mail' = [mail EXCEPT ![g] = [id |-> e, st |-> "none", n |-> 0]]
      BY <2>4 DEF DequeueRange
    <3>2. /\ at[g] = "select" /\ at'[g] = "get" /\ UNCHANGED <<data, queue>> /\ mail'[g].id = e
          /\ e \in Emails /\ ~Nowhere(e)
      BY <1>0, <2>4, <3>1 DEF DequeueRange, store, InRange, Statuses, Nowhere
    <3>4. enq[e] = "done"
      BY <1>0, <3>2 DEF SetsMatch
    <3> QED
      BY <1>0, <2>0, <2>1, <2>2, <3>2, <3>4 DEF SetsMatch, Nowhere, Matches, Past, Holds
  <2>5. CASE DequeueGet(g)
    <3>1. /\ at[g] = "get" /\ mail[g].id \in Emails /\ UNCHANGED <<data, queue>>
          /\ enq[mail[g].id] = "done"
          /\ \/ /\ at'[g] = "take" /\ mail'[g].id = mail[g].id
                /\ mail'[g].st = data[mail[g].id].st
             \/ at'[g] = "loop"
      BY <1>0, <2>0, <2>5 DEF DequeueGet, store, Holds
    <3> QED
      BY <1>0, <2>0, <2>1, <2>2, <3>1 DEF SetsMatch, Nowhere, Matches, Past, Holds
  <2>6. CASE DequeueZRem(g)
    <3>1. /\ at[g] = "take" /\ Holds(g) /\ mail[g].id \in Emails /\ UNCHANGED data
          /\ at'[g] = "update" /\ mail'[g].id = mail[g].id /\ mail'[g].st = "sending"
          /\ \A s \in Statuses : queue'[s] = IF s = mail[g].st THEN queue[s] \ {mail[g].id} ELSE queue[s]
      BY <1>0, <2>0, <2>6 DEF DequeueZRem, Take, ZRem, Holds
    <3>2. Matches(mail[g].id) /\ mail[g].st = data[mail[g].id].st
      BY <2>0, <2>1, <3>1 DEF SetsMatch, Past
    <3>3. \A s \in Statuses : mail[g].id \notin queue'[s]
      BY <3>1, <3>2 DEF Matches
    <3>4. \A f \in Emails : f # mail[g].id => (Matches(f)' <=> Matches(f)) /\ (Nowhere(f)' <=> Nowhere(f))
      <4>1. \A f \in Emails, s \in Statuses : f # mail[g].id => (f \in queue'[s] <=> f \in queue[s])
        BY <3>1
      <4> QED
        BY <3>1, <4>1 DEF Matches, Nowhere
    <3>5. Nowhere(mail[g].id)'
      BY <3>1, <3>3 DEF Nowhere
    <3> QED
      BY <1>0, <2>0, <2>1, <2>2, <3>1, <3>4, <3>5 DEF SetsMatch, Past, Holds, FirstStatus
  <2>7. CASE UpdateGet(g)
    <3>1. /\ at[g] = "update" /\ at'[g] = "zrem" /\ UNCHANGED <<data, queue, mail>>
          /\ old'[g] = data[mail[g].id].st /\ Holds(g)
      BY <1>0, <1>1, <2>7 DEF UpdateGet, store, Holds, Past
    <3> QED
      BY <1>0, <2>0, <2>1, <2>2, <3>1 DEF SetsMatch, Nowhere, Matches, Past, Holds
  <2>8. CASE UpdateZRem(g)
    <3>1. /\ at[g] = "zrem" /\ Holds(g) /\ mail[g].id \in Emails /\ UNCHANGED <<data, mail, old>>
          /\ at'[g] = "set"
          /\ \A s \in Statuses : queue'[s] = IF old[g] # mail[g].st /\ s = old[g]
                                             THEN queue[s] \ {mail[g].id} ELSE queue[s]
      BY <1>0, <2>0, <2>8 DEF UpdateZRem, RemoveOld, ZRem, Holds, Past
    <3>2. \A s \in Statuses : mail[g].id \notin queue'[s]
      <4>1. CASE mail[g].st = "sending"
        <5>1. Nowhere(mail[g].id)
          BY <3>1, <4>1 DEF SetsMatch
        <5> QED
          BY <3>1, <5>1 DEF Nowhere
      <4>2. CASE mail[g].st # "sending"
        <5>1. Matches(mail[g].id) /\ old[g] = data[mail[g].id].st /\ old[g] # mail[g].st
          BY <3>1, <4>2 DEF SetsMatch
        <5> QED
          BY <3>1, <5>1 DEF Matches
      <4> QED
        BY <4>1, <4>2
    <3>3. \A f \in Emails : f # mail[g].id => (Matches(f)' <=> Matches(f)) /\ (Nowhere(f)' <=> Nowhere(f))
      <4>1. \A f \in Emails, s \in Statuses : f # mail[g].id => (f \in queue'[s] <=> f \in queue[s])
        BY <3>1
      <4> QED
        BY <3>1, <4>1 DEF Matches, Nowhere
    <3>4. Nowhere(mail[g].id)'
      BY <3>1, <3>2 DEF Nowhere
    <3> QED
      BY <1>0, <2>0, <2>1, <2>2, <3>1, <3>3, <3>4 DEF SetsMatch, Past, Holds, FirstStatus
  <2>9. CASE UpdateSet(g)
    <3>1. /\ at[g] = "set" /\ Holds(g) /\ mail[g].id \in Emails /\ at'[g] = "zadd"
          /\ UNCHANGED <<queue, mail>> /\ data'[mail[g].id].st = mail[g].st
          /\ \A e \in Emails : e # mail[g].id => data'[e] = data[e]
      BY <1>0, <2>0, <2>9 DEF UpdateSet, Put, Past, Holds
    <3>2. \A f \in Emails : f # mail[g].id => (Matches(f)' <=> Matches(f)) /\ (Nowhere(f)' <=> Nowhere(f))
      BY <3>1 DEF Matches, Nowhere
    <3>3. Nowhere(mail[g].id)'
      BY <3>1 DEF SetsMatch, Nowhere
    <3> QED
      BY <1>0, <2>0, <2>1, <2>2, <3>1, <3>2, <3>3 DEF SetsMatch, Past, Holds, FirstStatus
  <2>10. CASE UpdateZAdd(g)
    <3>1. /\ at[g] = "zadd" /\ Holds(g) /\ mail[g].id \in Emails
          /\ at'[g] = IF mail[g].st = "sending" THEN "send" ELSE "loop"
          /\ mail[g].st = "sending" => mail'[g] = mail[g]
          /\ UNCHANGED data
          /\ mail[g].st \in Statuses
          /\ \A s \in Statuses : queue'[s] = IF s = mail[g].st THEN queue[s] \cup {mail[g].id} ELSE queue[s]
      BY <1>0, <2>0, <2>10 DEF UpdateZAdd, ZAdd, Continue, Past, Holds, Carried, Statuses
    <3>2. Nowhere(mail[g].id) /\ data[mail[g].id].st = mail[g].st
      BY <3>1 DEF SetsMatch
    <3>3. \A s \in Statuses : mail[g].id \in queue'[s] <=> data'[mail[g].id].st = s
      BY <3>1, <3>2 DEF Nowhere
    <3>4. \A f \in Emails : f # mail[g].id => (Matches(f)' <=> Matches(f)) /\ (Nowhere(f)' <=> Nowhere(f))
      <4>1. \A f \in Emails, s \in Statuses : f # mail[g].id => (f \in queue'[s] <=> f \in queue[s])
        BY <3>1
      <4> QED
        BY <3>1, <4>1 DEF Matches, Nowhere
    <3>5. \A f \in Emails : f = mail[g].id => Matches(f)'
      BY <3>3 DEF Matches
    <3> QED
      BY <1>0, <2>0, <2>1, <2>2, <3>1, <3>2, <3>4, <3>5 DEF SetsMatch, Past, Holds, FirstStatus
  <2>11. ASSUME NEW ok \in BOOLEAN, Send(g, ok) PROVE SetsMatch'
    <3>1. /\ at[g] = "send" /\ Holds(g) /\ mail[g].id \in Emails /\ mail[g].st = "sending"
          /\ at'[g] = "update" /\ UNCHANGED <<data, queue>>
          /\ mail'[g].id = mail[g].id /\ mail'[g].st # "sending"
      BY <1>0, <2>0, <2>11 DEF Send, Attempt, Outcome, Carried, Holds, Past, store
    <3> QED
      BY <1>0, <2>0, <2>1, <2>2, <3>1 DEF SetsMatch, Nowhere, Matches, Past, Holds, FirstStatus
  <2>12. ~(Dequeue(g) \/ Update(g) \/ DequeueZRemFails(g) \/ UpdateZRemFails(g) \/ UpdateFails(g))
    BY <1>1 DEF Dequeue, DequeueFrom, Update, Write, DequeueZRemFails, UpdateZRemFails, UpdateFails
  <2> QED
    BY <1>5, <2>3, <2>4, <2>5, <2>6, <2>7, <2>8, <2>9, <2>10, <2>11, <2>12 DEF Step
<1>6. CASE Start
  <2>1. /\ UNCHANGED <<data, queue, enq, cancel, mail, old>>
        /\ \A g \in Goroutines : at'[g] = at[g] \/ (at'[g] = "due" /\ at[g] \in {"unborn", "ended"})
    <3>1. \A g \in Goroutines : g[2] = stopCh + 1 => g \notin Live
      BY DEF Lone, EmailTypes, WorkersTyped
    <3> QED
      BY <1>6, <3>1 DEF Start, store, Live
  <2>2. \A g \in Goroutines : (Past(g)' <=> Past(g)) /\ (Holds(g)' <=> Holds(g))
    BY <2>1 DEF Past, Holds
  <2> QED
    BY <2>1, <2>2 DEF SetsMatch, Nowhere, Matches
<1>7. CASE Stopping \/ Tick \/ UNCHANGED vars
  BY <1>7, StopOnly DEF Tick, vars, store, workers, SetsMatch, Nowhere, Matches, Past, Holds
<1> QED
  BY <1>1, <1>2, <1>3, <1>4, <1>5, <1>6, <1>7 DEF Next, Crash

----------------------------------------------------------------------------
(* An email reported to OnFailed was tried as often as its counter says. *)
LEMMA FailedStep ==
    ASSUME EmailTypes, Once, Tried, FailedIsTried, [Next]_vars
    PROVE  FailedIsTried'
<1>0. /\ mail \in [Goroutines -> Mail] /\ tries \in [Emails -> Nat] /\ Carried
      /\ MaxRetries \in Nat /\ env \in Deployment /\ failed \subseteq Emails
      /\ \A g \in Goroutines : mail[g].n \in Nat
  BY EmailAssumption DEF EmailTypes, StoreTyped, WorkersTyped, GhostsTyped, Mail
<1>1. env' = env
  BY DEF Next, vars
<1> SUFFICES ASSUME Counted PROVE \A e \in failed' : tries'[e] >= MaxRetries
  BY <1>1 DEF FailedIsTried, Counted, OneAtATime
<1>2. \A e \in failed : tries[e] >= MaxRetries
  BY DEF FailedIsTried
<1>3. ASSUME NEW g \in Goroutines, Past(g), mail[g].st = "failed"
      PROVE  mail[g].id \in Emails /\ tries[mail[g].id] >= MaxRetries
  <2>1. mail[g].id \in Emails /\ mail[g].n >= MaxRetries
    BY <1>0, <1>3 DEF Carried, Holds
  <2>2. mail[g].n <= tries[mail[g].id]
    <3>1. CASE Behind
      BY <1>3, <3>1 DEF Behind
    <3>2. CASE Exclusive
      BY <1>0, <1>3, <2>1, <3>2 DEF Once, Attempted
    <3>3. env.store = "memory" \/ env.store = "redis"
      BY <1>0 DEF Deployment
    <3> QED
      BY <3>1, <3>2, <3>3 DEF Counted, Tried, Exclusive
  <2> QED
    BY <1>0, <2>1, <2>2
<1>4. CASE tries' = tries /\ failed' = failed
  BY <1>2, <1>4
<1>5. ASSUME NEW e \in Emails, Enqueue(e) \/ EnqueueAdds(e) \/ Canceller(e) \/ Cleanup(e)
      PROVE  tries' = tries /\ failed' = failed
  BY <1>5, CallersOnly
<1>6. ASSUME NEW g \in Goroutines, Update(g) \/ UpdateZAdd(g) \/ UpdateFails(g)
      PROVE  \A e \in failed' : tries'[e] >= MaxRetries
  <2>1. /\ tries' = tries /\ Past(g)
        /\ failed' = IF mail[g].st = "failed" THEN failed \cup {mail[g].id} ELSE failed
    BY <1>6 DEF Update, Write, UpdateZAdd, UpdateFails, Continue, Past, id
  <2> QED
    BY <1>2, <1>3, <2>1
<1>7. ASSUME NEW g \in Goroutines, NEW ok \in BOOLEAN, Send(g, ok)
      PROVE  \A e \in failed' : tries'[e] >= MaxRetries
  <2>1. failed' = failed /\ tries' = [tries EXCEPT ![mail[g].id] = IF @ <= MaxRetries THEN @ + 1 ELSE @]
    BY <1>7 DEF Send, Attempt, id
  <2> QED
    BY <1>0, <1>2, <2>1
<1>8. CASE Crash
  <2>1. failed' = failed
    BY <1>8 DEF Crash
  <2>2. \A e \in Emails : tries'[e] >= tries[e]
    BY <1>0, <1>8, CrashEffect
  <2>3. \A e \in Emails : tries'[e] = tries[e] \/ tries'[e] = tries[e] + 1
    BY <1>8, CrashEffect
  <2> QED
    BY <1>0, <1>2, <2>1, <2>3
<1>9. ASSUME NEW g \in Goroutines, Step(g) \/ EndWorker(g)
      PROVE  \A e \in failed' : tries'[e] >= MaxRetries
  <2>1. \/ tries' = tries /\ failed' = failed
        \/ Update(g) \/ UpdateZAdd(g) \/ UpdateFails(g) \/ \E ok \in BOOLEAN : Send(g, ok)
    BY <1>9 DEF Step, EndWorker, Spawn, EnterSelect, Dequeue, DequeueFrom, DequeueRange, DequeueGet, DequeueZRem,
                DequeueZRemFails, Take, UpdateGet, UpdateZRem, UpdateZRemFails, RemoveOld, UpdateSet, ghosts
  <2> QED
    BY <1>4, <1>6, <1>7, <2>1
<1>10. CASE Start \/ Stopping \/ Tick \/ UNCHANGED vars
  BY <1>4, <1>10, StopOnly DEF Start, Tick, vars, ghosts
<1> QED
  BY <1>4, <1>5, <1>8, <1>9, <1>10 DEF Next

EmailInv ==
    /\ EmailTypes /\ Lone /\ Waited /\ Due /\ Gone /\ Once /\ Tried /\ FailedIsTried
    /\ Steady /\ env.store = "redis" => SetsMatch

(* EmailInv holds initially and is preserved by every step. *)
LEMMA EmailInvariant == Spec => []EmailInv
<1> DEFINE Rest == /\ Lone /\ Waited /\ Due /\ Gone /\ Once /\ Tried /\ FailedIsTried
                   /\ Steady /\ env.store = "redis" => SetsMatch
<1>1. Init => Rest
  <2> SUFFICES ASSUME Init PROVE Rest
    OBVIOUS
  <2>0. /\ env \in Deployment /\ MaxRetries \in Nat /\ Scheduled \subseteq Emails
        /\ Live = {} /\ \A g \in Goroutines : ~Holds(g) /\ ~Past(g) /\ at[g] = "unborn"
    BY EmailAssumption DEF Init, Live, Holds, Past
  <2>1. Lone /\ Waited
    BY <2>0 DEF Init, Lone, Waited, Deployment
  <2>2. Due /\ Gone
    BY <2>0 DEF Init, Due, Gone, Absent
  <2>3. Attempted /\ MemoryOnce
    BY <2>0 DEF Init, Attempted, MemoryOnce, Absent, Waiting
  <2>4. RedisOnce
    BY <2>0 DEF Init, RedisOnce, Absent, Waiting, Statuses
  <2>5. Behind /\ MemoryTried /\ RedisTried
    BY <2>0 DEF Init, Behind, MemoryTried, RedisTried, Absent
  <2>6. SetsMatch
    BY <2>0 DEF Init, SetsMatch, Nowhere, Absent
  <2>7. FailedIsTried
    BY DEF Init, FailedIsTried
  <2> QED
    BY <2>1, <2>2, <2>3, <2>4, <2>5, <2>6, <2>7 DEF Once, Tried
<1>2. EmailTypes /\ Rest /\ [Next]_vars => Rest'
  <2> SUFFICES ASSUME EmailTypes, Rest, [Next]_vars PROVE Rest'
    OBVIOUS
  <2>1. env' = env
    BY DEF Next, vars
  <2>2. Lone' /\ Waited' /\ Due' /\ Gone' /\ FailedIsTried'
    BY LoneStep, WaitedStep, DueStep, GoneStep, FailedStep
  <2>3. Once'
    BY <2>1, OnceInMemory, OnceInRedis DEF Once, Exclusive, OneAtATime, EmailTypes, StoreTyped, Deployment
  <2>4. Tried'
    BY <2>1, TriedInMemory, TriedInRedis DEF Tried, OneAtATime
  <2>5. (Steady /\ env.store = "redis" => SetsMatch)'
    BY <2>1, SetsMatchStep DEF Steady, OneAtATime
  <2> QED
    BY <2>2, <2>3, <2>4, <2>5
<1> HIDE DEF Rest
<1>3. EmailTypes /\ Rest => EmailInv
  BY DEF Rest, EmailInv
<1> QED
  BY <1>1, <1>2, <1>3, EmailTyped, PTL DEF Spec

(* QueueSound for every deployment: no second delivery where one worker at a time
   runs and ZREM answers, no OnFailed before the last attempt, none of
   the workers a Stop waited for left when it returns nil, and Redis sets that match the records. *)
THEOREM QueueIsSound == Spec => []QueueSound
<1>1. EmailInv => QueueSound
  <2> SUFFICES ASSUME EmailInv PROVE QueueSound
    OBVIOUS
  <2>1. DeliveredOnce
    BY DEF EmailInv, DeliveredOnce, Once, Attempted
  <2>2. FailedIsTried /\ StopIsClean
    BY DEF EmailInv, Waited, StopIsClean
  <2>3. QueueMatchesData
    <3> SUFFICES ASSUME Steady, env.store = "redis", NEW e \in Emails, Quiet(e) PROVE Matches(e)
      BY DEF QueueMatchesData, Matches
    <3>1. enq[e] = "done" /\ \A g \in Live : mail[g].id = e => at[g] \in {"loop", "select", "get"}
      BY DEF Quiet, id
    <3>2. \A g \in Goroutines : Past(g) => g \in Live /\ at[g] \notin {"loop", "select", "get"}
      BY DEF Past, Live
    <3> QED
      BY <3>1, <3>2 DEF EmailInv, SetsMatch
  <2> QED
    BY <2>1, <2>2, <2>3 DEF QueueSound
<1> QED
  BY <1>1, EmailInvariant, PTL

(* SendsOnlyWhatIsDue for every deployment, number of workers and schedule: no
   attempt before the time given to Schedule, and in memory nobody picks up an
   email after its Cancel returned nil. *)
THEOREM OnlyDueIsSent == Spec => SendsOnlyWhatIsDue
<1> DEFINE OnTime == \A e \in Scheduled : tries'[e] # tries[e] =>
                        SendAt[e] - (IF env.store = "redis" THEN Priority[e] ELSE 0) <= now
           Final == \A e \in Emails, g \in Goroutines :
                        /\ env.store = "memory"
                        /\ cancel[e].pc = "ok" /\ at[g] = "select"
                        => ~(at'[g] = "update" /\ mail'[g].id = e)
<1>1. EmailInv /\ [Next]_vars => [OnTime]_vars
  <2> SUFFICES ASSUME EmailInv, Next, NEW e \in Scheduled, tries'[e] # tries[e] PROVE DueNow(e)
    BY DEF DueNow
  <2>0. e \in Emails /\ tries \in [Emails -> Nat]
    BY EmailAssumption DEF EmailInv, EmailTypes, GhostsTyped
  <2>1. PICK g \in Goroutines : at[g] = "send" /\ mail[g].id = e
    <3>1. ~\E f \in Emails : Enqueue(f) \/ EnqueueAdds(f) \/ Canceller(f) \/ Cleanup(f)
      BY CallersOnly
    <3>2. ~(Start \/ Stopping \/ Tick)
      BY StopOnly DEF Start, Tick, ghosts
    <3>3. CASE Crash
      BY <2>0, <3>3, CrashEffect DEF Running
    <3>4. ASSUME NEW h \in Goroutines, Step(h) \/ EndWorker(h)
          PROVE  at[h] = "send" /\ mail[h].id = e
      <4>1. PICK ok \in BOOLEAN : Send(h, ok)
        BY <3>4 DEF Step, EndWorker, Spawn, EnterSelect, Dequeue, DequeueFrom, DequeueRange, DequeueGet, DequeueZRem,
                DequeueZRemFails, Take, UpdateGet, UpdateZRem, UpdateZRemFails, RemoveOld, UpdateSet, ghosts,
                Update, Write, UpdateZAdd, UpdateFails
      <4> QED
        BY <2>0, <4>1 DEF Send, Attempt, id
    <3> QED
      BY <3>1, <3>2, <3>3, <3>4 DEF Next
  <2> QED
    BY <2>1 DEF EmailInv, Due, Holds, Past
<1>2. EmailInv /\ [Next]_vars => [Final]_vars
  <2> SUFFICES ASSUME EmailInv, Next, NEW e \in Emails, NEW g \in Goroutines, env.store = "memory",
                      cancel[e].pc = "ok", at[g] = "select", at'[g] = "update", mail'[g].id = e
               PROVE  FALSE
    OBVIOUS
  <2>0. at \in [Goroutines -> Places] /\ mail \in [Goroutines -> Mail]
    BY DEF EmailInv, EmailTypes, WorkersTyped
  <2>1. ~\E f \in Emails : Enqueue(f) \/ EnqueueAdds(f) \/ Canceller(f) \/ Cleanup(f)
    BY CallersOnly
  <2>2. ~(Start \/ Stopping \/ Tick \/ Crash)
    BY StopOnly DEF Start, Tick, Crash, workers
  <2>3. PICK h \in Goroutines : Step(h) \/ EndWorker(h)
    BY <2>1, <2>2 DEF Next
  <2>4. h = g
    BY <2>0, <2>3, WorkerMoves DEF EmailInv
  <2>5. Dequeue(g)
    BY <2>0, <2>3, <2>4 DEF Step, EndWorker, Spawn, EnterSelect, DequeueRange, DequeueGet, DequeueZRem, DequeueZRemFails,
                Take, Update, Write, UpdateGet, UpdateZRem, UpdateZRemFails, RemoveOld, UpdateSet, UpdateZAdd,
                UpdateFails, Send, Attempt, Goto
  <2>6. data[e].st # "none"
    BY <2>0, <2>5 DEF Dequeue, DequeueFrom, Begin, Copy, Ready
  <2> QED
    BY <2>6 DEF EmailInv, Gone
<1> HIDE DEF OnTime, Final
<1>3. Spec => [][OnTime]_vars /\ [][Final]_vars
  BY <1>1, <1>2, EmailInvariant, PTL DEF Spec
<1> QED
  BY <1>3 DEF SendsOnlyWhatIsDue, NotBeforeSchedule, CancelIsFinal, OnTime, Final

----------------------------------------------------------------------------
(* The refinement of JobLife. *)

(* A set of at most one element. *)
LEMMA AtMostOne ==
    ASSUME NEW S, \A x, y \in S : x = y
    PROVE  Cardinality(S) = IF \E x : x \in S THEN 1 ELSE 0
<1>1. CASE \E x : x \in S
  <2>1. PICK x : x \in S
    BY <1>1
  <2>2. S = {x}
    BY <2>1
  <2> QED
    BY <1>1, <2>2, FS_Singleton
<1>2. CASE ~\E x : x \in S
  <2>1. S = {}
    BY <1>2
  <2> QED
    BY <1>2, <2>1, FS_EmptySet
<1> QED
  BY <1>1, <1>2

(* A change of one email that JobLife allows is a step of JobLife. *)
LEMMA LifeMove ==
    ASSUME NEW e \in Emails,
           \A f \in Emails : f # e => LifeStatus(f)' = LifeStatus(f) /\ LifeTries(f)' = LifeTries(f),
           \/ /\ LifeStatus(e) = "new" /\ LifeStatus(e)' = "waiting"
              /\ LifeTries(e)' = LifeTries(e)
           \/ /\ LifeStatus(e) = "waiting" /\ LifeStatus(e)' = "running"
              /\ LifeTries(e) < MaxRetries /\ LifeTries(e)' = LifeTries(e) + 1
           \/ /\ LifeStatus(e) = "running" /\ LifeTries(e)' = LifeTries(e)
              /\ \/ LifeStatus(e)' = "ok"
                 \/ LifeStatus(e)' = "failed" /\ LifeTries(e) = MaxRetries
                 \/ LifeStatus(e)' = "waiting" /\ LifeTries(e) < MaxRetries
    PROVE  Life!Next
<1> DEFINE st == [f \in Emails |-> LifeStatus(f)]
           tr == [f \in Emails |-> LifeTries(f)]
<1>1. /\ st' = [st EXCEPT ![e] = LifeStatus(e)'] /\ st[e] = LifeStatus(e)
      /\ tr' = [tr EXCEPT ![e] = LifeTries(e)'] /\ tr[e] = LifeTries(e)
  OBVIOUS
<1>2. LifeTries(e)' = LifeTries(e) => tr' = tr
  BY <1>1
<1>3. LifeTries(e)' = LifeTries(e) + 1 => tr' = [tr EXCEPT ![e] = @ + 1]
  BY <1>1
<1> HIDE DEF st, tr
<1>4. \/ st[e] = "new" /\ st' = [st EXCEPT ![e] = "waiting"] /\ tr' = tr
      \/ /\ st[e] = "waiting" /\ st' = [st EXCEPT ![e] = "running"]
         /\ tr[e] < MaxRetries /\ tr' = [tr EXCEPT ![e] = @ + 1]
      \/ st[e] = "running" /\ st' = [st EXCEPT ![e] = "ok"] /\ tr' = tr
      \/ st[e] = "running" /\ st' = [st EXCEPT ![e] = "failed"] /\ tr[e] = MaxRetries /\ tr' = tr
      \/ st[e] = "running" /\ st' = [st EXCEPT ![e] = "waiting"] /\ tr[e] < MaxRetries /\ tr' = tr
  BY <1>1, <1>2, <1>3
<1>5. \/ Life!Accept(e) \/ Life!Begin(e) \/ Life!Succeed(e) \/ Life!Fail(e) \/ Life!PutBack(e)
  BY <1>4 DEF st, tr, Life!Accept, Life!Begin, Life!Succeed, Life!Fail, Life!PutBack, Life!Move
<1> QED
  BY <1>5 DEF Life!Next

(* Every step of the queue is a step of JobLife or leaves it unchanged. *)
LEMMA LifeStep ==
    ASSUME EmailInv, [Next]_vars, Exclusive
    PROVE  Life!Next \/ UNCHANGED Life!vars
<1>0. /\ data \in [Emails -> Record] /\ mail \in [Goroutines -> Mail] /\ at \in [Goroutines -> Places]
      /\ enq \in [Emails -> {"none", "stored", "done", "error"}]
      /\ tries \in [Emails -> Nat] /\ delivered \in [Emails -> Nat] /\ Carried /\ MaxRetries \in Nat
      /\ \A g \in Goroutines : mail[g].n \in Nat
      /\ MaxRetries > 0
  BY EmailAssumption DEF EmailInv, EmailTypes, StoreTyped, WorkersTyped, GhostsTyped, Mail
<1>1. EmailTypes /\ Lone /\ OneAtATime /\ Attempted /\ env' = env /\ OneAtATime' /\ Lone'
  <2>1. EmailTypes /\ Lone /\ OneAtATime /\ Attempted /\ env' = env
    BY DEF EmailInv, Exclusive, Once, Next, vars
  <2> QED
    BY <2>1, LoneStep DEF OneAtATime
<1>2. \A e \in Emails : LifeTries(e) = tries[e] + (IF Running(e) THEN 1 ELSE 0)
  <2> TAKE e \in Emails
  <2> DEFINE S == {g \in Live : at[g] = "send" /\ id(g) = e}
  <2>1. \A x, y \in S : x = y
    BY <1>1 DEF Lone
  <2>2. Cardinality(S) = IF \E x : x \in S THEN 1 ELSE 0
    BY <2>1, AtMostOne
  <2>3. (\E x : x \in S) <=> Running(e)
    BY DEF Running, Live, id
  <2> QED
    BY <2>2, <2>3 DEF LifeTries
<1>3. \A e \in Emails : LifeTries(e)' = tries'[e] + (IF Running(e)' THEN 1 ELSE 0)
  <2> TAKE e \in Emails
  <2> DEFINE S == {g \in Live' : at'[g] = "send" /\ mail'[g].id = e}
  <2>1. \A x, y \in S : x = y
    BY <1>1 DEF Lone
  <2>2. Cardinality(S) = IF \E x : x \in S THEN 1 ELSE 0
    BY <2>1, AtMostOne
  <2>3. (\E x : x \in S) <=> Running(e)'
    BY DEF Running, Live
  <2> QED
    BY <2>2, <2>3 DEF LifeTries, id
<1>4. \A e \in Emails :
          LifeStatus(e) = IF delivered[e] > 0 THEN "ok" ELSE IF Running(e) THEN "running"
                          ELSE IF tries[e] >= MaxRetries THEN "failed"
                          ELSE IF enq[e] = "none" THEN "new" ELSE "waiting"
  BY DEF LifeStatus, Running, Live, id
<1>5. \A e \in Emails :
          LifeStatus(e)' = IF delivered'[e] > 0 THEN "ok" ELSE IF Running(e)' THEN "running"
                           ELSE IF tries'[e] >= MaxRetries THEN "failed"
                           ELSE IF enq'[e] = "none" THEN "new" ELSE "waiting"
  BY DEF LifeStatus, Running, Live, id
<1> DEFINE Same(e) == /\ delivered'[e] = delivered[e] /\ tries'[e] = tries[e]
                      /\ Running(e)' <=> Running(e)
                      /\ enq'[e] = "none" <=> enq[e] = "none"
<1>6. \A e \in Emails : Same(e) => LifeStatus(e)' = LifeStatus(e) /\ LifeTries(e)' = LifeTries(e)
  BY <1>2, <1>3, <1>4, <1>5
<1>7. ASSUME \A e \in Emails : Same(e) PROVE UNCHANGED Life!vars
  <2>1. \A e \in Emails : LifeStatus(e)' = LifeStatus(e) /\ LifeTries(e)' = LifeTries(e)
    BY <1>6, <1>7
  <2> HIDE DEF Same
  <2> QED
    BY <2>1 DEF Life!vars
(* An attempt that ends, by its own or with the process. *)
<1>8. ASSUME NEW e \in Emails, \A f \in Emails : f # e => Same(f),
             Running(e), ~Running(e)', delivered[e] = 0, delivered'[e] \in {0, 1},
             tries[e] + 1 <= MaxRetries, tries'[e] = tries[e] + 1, enq'[e] # "none"
      PROVE  Life!Next
  <2>1. \A f \in Emails : f # e => LifeStatus(f)' = LifeStatus(f) /\ LifeTries(f)' = LifeTries(f)
    BY <1>6, <1>8
  <2>2. LifeStatus(e) = "running" /\ LifeTries(e) = tries[e] + 1 /\ LifeTries(e)' = tries[e] + 1
    BY <1>0, <1>2, <1>3, <1>4, <1>8
  <2>3. \/ LifeStatus(e)' = "ok"
        \/ LifeStatus(e)' = "failed" /\ tries[e] + 1 >= MaxRetries
        \/ LifeStatus(e)' = "waiting" /\ ~(tries[e] + 1 >= MaxRetries)
    BY <1>0, <1>5, <1>8
  <2>4. \/ LifeStatus(e)' = "ok"
        \/ LifeStatus(e)' = "failed" /\ LifeTries(e) = MaxRetries
        \/ LifeStatus(e)' = "waiting" /\ LifeTries(e) < MaxRetries
    BY <1>0, <1>8, <2>2, <2>3
  <2> QED
    BY <2>1, <2>2, <2>4, LifeMove
<1>9. ASSUME NEW e \in Emails, Enqueue(e) PROVE Life!Next
  <2>1. /\ enq[e] = "none" /\ enq'[e] # "none" /\ tries' = tries /\ delivered' = delivered
        /\ at' = at /\ mail' = mail
        /\ \A f \in Emails : f # e => enq'[f] = enq[f]
    BY <1>0, <1>9, CallersOnly DEF Enqueue
  <2>2. \A f \in Emails : Running(f)' <=> Running(f)
    BY <2>1 DEF Running
  <2>3. \A f \in Emails : f # e => LifeStatus(f)' = LifeStatus(f) /\ LifeTries(f)' = LifeTries(f)
    BY <1>6, <2>1, <2>2
  <2>4. tries[e] = 0 /\ delivered[e] = 0 /\ ~Running(e)
    BY <1>0, <1>1, <2>1 DEF Attempted, Running, Past
  <2>5. LifeStatus(e) = "new" /\ LifeStatus(e)' = "waiting" /\ LifeTries(e)' = LifeTries(e)
    BY <1>0, <1>2, <1>3, <1>4, <1>5, <2>1, <2>2, <2>4
  <2> QED
    BY <2>3, <2>5, LifeMove
<1>10. ASSUME NEW e \in Emails, EnqueueAdds(e) \/ Canceller(e) \/ Cleanup(e) PROVE UNCHANGED Life!vars
  <2>1. /\ tries' = tries /\ delivered' = delivered /\ at' = at /\ mail' = mail
    BY <1>10, CallersOnly
  <2>2. \A f \in Emails : enq'[f] = "none" <=> enq[f] = "none"
    BY <1>0, <1>10 DEF EnqueueAdds, Canceller, Cancel, Delete, DeleteZRem, DeleteData, Cleanup
  <2>3. \A f \in Emails : Same(f)
    BY <2>1, <2>2 DEF Running
  <2> QED
    BY <1>7, <2>3
<1>11. ASSUME NEW g \in Goroutines, Step(g) \/ EndWorker(g) PROVE Life!Next \/ UNCHANGED Life!vars
  <2>0. /\ enq' = enq
        /\ \A h \in Goroutines : h # g => at[h] # "send" /\ at'[h] # "send"
    BY <1>1, <1>11, OnlyWorker, WorkersOnly DEF Past
  <2>1. /\ \A e \in Emails : Running(e) <=> at[g] = "send" /\ mail[g].id = e
        /\ \A e \in Emails : Running(e)' <=> at'[g] = "send" /\ mail'[g].id = e
    BY <2>0 DEF Running
  <2>2. ASSUME NEW ok \in BOOLEAN, Send(g, ok) PROVE Life!Next
    <3>1. SendEffect(g)
      BY <1>1, <2>2, SendOnce
    <3>2. PICK e \in Emails : e = mail[g].id
      BY <3>1 DEF SendEffect
    <3>3. /\ at[g] = "send" /\ at'[g] = "update" /\ enq[e] # "none"
          /\ mail[g].n <= MaxRetries /\ mail[g].n = tries[e] + 1
      BY <1>0, <1>1, <3>1, <3>2 DEF SendEffect, Carried, Attempted
    <3>4. \A f \in Emails : f # e => Same(f)
      BY <2>0, <2>1, <3>1, <3>2, <3>3 DEF SendEffect
    <3>5. Running(e) /\ ~Running(e)'
      BY <2>1, <3>2, <3>3
    <3>6. /\ delivered[e] = 0 /\ delivered'[e] \in {0, 1}
          /\ tries[e] + 1 <= MaxRetries /\ tries'[e] = tries[e] + 1
          /\ enq'[e] # "none"
      BY <2>0, <3>1, <3>2, <3>3 DEF SendEffect
    <3> QED
      BY <1>8, <3>4, <3>5, <3>6
  <2>3. ASSUME Update(g) \/ UpdateZAdd(g) \/ UpdateFails(g), mail[g].st = "sending" PROVE Life!Next
    <3>1. /\ tries' = tries /\ delivered' = delivered /\ at[g] # "send" /\ at'[g] = "send" /\ mail'[g] = mail[g]
          /\ Past(g) /\ mail[g].id \in Emails /\ mail[g].n <= MaxRetries
      BY <1>0, <2>3 DEF Update, Write, UpdateZAdd, UpdateFails, Continue, Goto, Past, Holds, Carried
    <3>2. /\ delivered[mail[g].id] = 0 /\ mail[g].n = tries[mail[g].id] + 1 /\ enq[mail[g].id] # "none"
      BY <1>1, <2>3, <3>1 DEF Attempted
    <3>3. \A f \in Emails : f # mail[g].id => Same(f)
      BY <2>0, <2>1, <3>1
    <3>4. \A f \in Emails : f # mail[g].id => LifeStatus(f)' = LifeStatus(f) /\ LifeTries(f)' = LifeTries(f)
      BY <1>6, <3>3
    <3>5. ~Running(mail[g].id) /\ Running(mail[g].id)'
      BY <2>1, <3>1 DEF Running
    <3> HIDE DEF Same
    <3>6. ~(tries[mail[g].id] >= MaxRetries) /\ tries[mail[g].id] < MaxRetries /\ ~(delivered[mail[g].id] > 0)
      BY <1>0, <3>1, <3>2
    <3>7. LifeStatus(mail[g].id) = "waiting" /\ LifeStatus(mail[g].id)' = "running"
      BY <1>4, <1>5, <2>0, <3>1, <3>2, <3>5, <3>6
    <3>8. LifeTries(mail[g].id) = tries[mail[g].id] /\ LifeTries(mail[g].id)' = tries[mail[g].id] + 1
      BY <1>0, <1>2, <1>3, <3>1, <3>5
    <3> QED
      BY <3>1, <3>4, <3>6, <3>7, <3>8, LifeMove
  <2>4. ASSUME Update(g) \/ UpdateZAdd(g) \/ UpdateFails(g), mail[g].st # "sending" PROVE UNCHANGED Life!vars
    <3>1. tries' = tries /\ delivered' = delivered /\ at[g] # "send" /\ at'[g] # "send"
      BY <1>0, <2>4 DEF Update, Write, UpdateZAdd, UpdateFails, Continue, Goto
    <3>2. \A f \in Emails : Same(f)
      BY <2>0, <2>1, <3>1
    <3> QED
      BY <1>7, <3>2
  <2>5. ASSUME ~(Update(g) \/ UpdateZAdd(g) \/ UpdateFails(g)), ~\E ok \in BOOLEAN : Send(g, ok)
        PROVE  UNCHANGED Life!vars
    <3>1. tries' = tries /\ delivered' = delivered /\ at[g] # "send" /\ at'[g] # "send"
      BY <1>0, <1>11, <2>5 DEF Step, EndWorker, Spawn, EnterSelect, Dequeue, DequeueFrom, Begin, DequeueRange, DequeueGet,
                DequeueZRem, DequeueZRemFails, Take, UpdateGet, UpdateZRem, UpdateZRemFails, RemoveOld, UpdateSet,
                ghosts, Goto
    <3>2. \A f \in Emails : Same(f)
      BY <2>0, <2>1, <3>1
    <3> QED
      BY <1>7, <3>2
  <2> QED
    BY <2>2, <2>3, <2>4, <2>5
<1>12. CASE Start
  <2>1. /\ UNCHANGED <<enq, mail, tries, delivered>>
        /\ \A g \in Goroutines : at'[g] = "send" <=> at[g] = "send"
    <3>1. \A g \in Goroutines : g[2] = stopCh + 1 => g \notin Live
      BY <1>1 DEF Lone, EmailTypes, WorkersTyped
    <3> QED
      BY <1>12, <3>1 DEF Start, ghosts, Live
  <2>2. \A f \in Emails : Same(f)
    BY <2>1 DEF Running
  <2> QED
    BY <1>7, <2>2
<1>13. CASE Stopping \/ Tick \/ UNCHANGED vars
  <2>1. UNCHANGED <<enq, at, mail, tries, delivered>>
    BY <1>13, StopOnly DEF Tick, vars, workers, ghosts
  <2>2. \A f \in Emails : Same(f)
    BY <2>1 DEF Running
  <2> QED
    BY <1>7, <2>2
<1>14. CASE Crash
  <2>1. enq' = enq /\ \A g \in Goroutines : at'[g] # "send"
    BY <1>14 DEF Crash, Live
  <2>2. \A f \in Emails : ~Running(f)'
    BY <2>1 DEF Running
  <2>3. \A f \in Emails : ~Running(f) => Same(f)
    BY <1>14, <2>1, <2>2, CrashEffect
  <2>4. CASE \E e \in Emails : Running(e)
    <3>1. PICK e \in Emails : Running(e)
      BY <2>4
    <3>2. PICK g \in Goroutines : at[g] = "send" /\ mail[g].id = e
      BY <3>1 DEF Running
    <3>3. \A h \in Goroutines : at[h] = "send" => h = g
      BY <1>1, <3>2 DEF Lone, Live
    <3>4. \A f \in Emails : f # e => Same(f)
      BY <2>3, <3>2, <3>3 DEF Running
    <3>5. Past(g) /\ mail[g].st = "sending" /\ mail[g].n <= MaxRetries
      BY <1>0, <3>2 DEF Carried, Past
    <3>6. delivered[e] = 0 /\ mail[g].n = tries[e] + 1 /\ enq[e] # "none"
      BY <1>1, <3>2, <3>5 DEF Attempted
    <3> HIDE DEF Same
    <3>7. /\ tries'[e] = IF tries[e] <= MaxRetries THEN tries[e] + 1 ELSE tries[e]
          /\ delivered'[e] = delivered[e] \/ delivered'[e] = IF delivered[e] < 2 THEN delivered[e] + 1 ELSE delivered[e]
      BY <1>14, <3>1, CrashEffect
    <3>8. tries[e] + 1 <= MaxRetries /\ tries'[e] = tries[e] + 1 /\ delivered'[e] \in {0, 1}
      BY <1>0, <3>5, <3>6, <3>7
    <3> QED
      BY <1>8, <2>1, <2>2, <3>1, <3>4, <3>6, <3>8
  <2>5. CASE ~\E e \in Emails : Running(e)
    BY <1>7, <2>3, <2>5
  <2> QED
    BY <2>4, <2>5
<1> QED
  BY <1>9, <1>10, <1>11, <1>12, <1>13, <1>14 DEF Next

(* With one worker at a time and a ZREM that answers, the queue implements
   JobLife: one attempt at a time, never more than MaxRetries, none after a
   success, whatever crashes, cancellations and failing commands happen. *)
THEOREM QueueIsJobLife == Spec => ImplementsJobLife
<1> DEFINE A == Exclusive => Life!Next \/ UNCHANGED Life!vars
<1>1. Init => Life!Init
  <2> SUFFICES ASSUME Init PROVE Life!Init
    OBVIOUS
  <2>0. MaxRetries \in Nat /\ MaxRetries > 0 /\ Live = {}
    BY EmailAssumption DEF Init, Live
  <2>1. \A e \in Emails : LifeStatus(e) = "new"
    BY <2>0 DEF Init, LifeStatus
  <2>2. \A e \in Emails : LifeTries(e) = 0
    <3> TAKE e \in Emails
    <3>1. {g \in Live : at[g] = "send" /\ id(g) = e} = {}
      BY <2>0
    <3>2. tries[e] = 0
      BY DEF Init
    <3> QED
      BY <3>1, <3>2, FS_EmptySet DEF LifeTries
  <2> QED
    BY <2>1, <2>2 DEF Life!Init
<1>2. EmailInv /\ [Next]_vars => [A]_vars
  BY LifeStep
<1> HIDE DEF A
<1>3. Spec => Life!Init /\ [][A]_vars
  BY <1>1, <1>2, EmailInvariant, PTL DEF Spec
<1> QED
  BY <1>3 DEF ImplementsJobLife, A
=============================================================================
