-------------------------- MODULE ServiceProofs --------------------------
(***************************************************************************)
(* The components MCState puts beside each other and StateProofs does not  *)
(* deal with: the job locks, the job history, the push and provider        *)
(* clients, the audit log and the search of cron expressions.  What a loop *)
(* computes is proved by the least number at which it would go wrong       *)
(* (CountingUp of StateProofs).                                            *)
(***************************************************************************)
EXTENDS MCState, StateProofs, SequenceTheorems, FiniteSetTheorems, WellFoundedInduction, TLAPS

-----------------------------------------------------------------------------
(* The Redis lock excludes, for any number of executions of different
   instances and any ttl, until a handler's own timeout is over.  What makes it
   inductive is that the entry outlives its holder: it lives at least TTL - age,
   across crashes, lost replies, lost and late releases, and handlers that
   overrun. *)

(* The entry of a running handler outlives the time the handler has left. *)
Outlives == \A e \in InTime : ttl >= TTL - age[e]

(* An entry carries the owner id of the execution that created it. *)
EntryOwner == locker = "redis" /\ owner # None => lockRun \in Runs /\ owner = InstanceOf[lockRun]

LockInv == TypeOK /\ LockIsMine /\ Outlives /\ EntryOwner

(* Executions of one instance share its owner id, so the theorems are about
   executions of different instances. *)
Competing == \A e, f \in Runs : InstanceOf[e] = InstanceOf[f] => e = f

(* What recordComplete leaves in the history. *)
LEMMA EndIsWritten ==
    ASSUME TypeOK, NEW e \in Runs, NEW st \in {"completed", "failed", "skipped"}, recordComplete(e, st)
    PROVE  /\ record' \in [Runs -> {"none", "running", "completed", "failed", "skipped"}]
           /\ lost' \subseteq Runs /\ lost \subseteq lost' /\ \A f \in Runs \ {e} : record'[f] = record[f]
           /\ e \in Scheduled /\ history # "none" =>
                  record'[e] = st \/ (history = "redis" /\ (e \in lost' \/ Overdue(e)))
<1>1. CASE record' = [record EXCEPT ![e] = st] /\ UNCHANGED lost
  BY <1>1 DEF TypeOK
<1>2. CASE /\ e \in Scheduled /\ history = "redis"
           /\ lost' = (IF Overdue(e) THEN lost ELSE lost \cup {e}) /\ UNCHANGED record
  <2>1. CASE Overdue(e)
    BY <1>2, <2>1 DEF TypeOK
  <2>2. CASE ~Overdue(e)
    BY <1>2, <2>2 DEF TypeOK
  <2> QED BY <2>1, <2>2
<1>3. CASE (e \notin Scheduled \/ history = "none") /\ UNCHANGED recordVars
  BY <1>3 DEF TypeOK, recordVars
<1> QED BY <1>1, <1>2, <1>3 DEF recordComplete

(* Every step of the executions and of time keeps the lock's invariant. *)
LEMMA LockStep ==
    ASSUME Competing PROVE LockInv /\ [Next]_vars => LockInv'
<1> SUFFICES ASSUME LockInv, [Next]_vars PROVE LockInv'
  OBVIOUS
<1> USE LockAssumption DEF LockInv, TypeOK, Phases, OwnerId, recordVars
<1>0. locker' = locker /\ history' = history
  BY DEF Next, vars
<1>1. ASSUME NEW e \in Runs, Begin(e) PROVE LockInv'
  BY <1>0, <1>1 DEF Begin, Goto, LockIsMine, Outlives, EntryOwner, InTime, Holding
<1>2. ASSUME NEW e \in Runs, Acquire(e) PROVE LockInv'
  <2>1. InTime = {}
    BY <1>2 DEF Acquire, TakeLock, Free, LockIsMine, InTime, Holding
  <2>2. InTime' \subseteq {e}
    BY <1>0, <1>2, <2>1 DEF Acquire, TakeLock, Goto, InTime, Holding
  <2>3. ttl' = TTL /\ lockRun' = e /\ owner' = OwnerId(e)
    BY <1>2 DEF Acquire, TakeLock, SetLock
  <2>4. TypeOK'
    BY <1>0, <1>2 DEF Acquire, TakeLock, SetLock, Goto
  <2> QED
    BY <1>0, <2>2, <2>3, <2>4 DEF LockIsMine, Outlives, EntryOwner
<1>3. ASSUME NEW e \in Runs, Skip(e) PROVE LockInv'
  <2>1. TypeOK'
    BY <1>0, <1>3, EndIsWritten DEF Skip, Goto
  <2> QED BY <1>0, <1>3, <2>1 DEF Skip, Goto, LockIsMine, Outlives, EntryOwner, InTime, Holding
<1>4. ASSUME NEW e \in Runs, AcquireError(e) PROVE LockInv'
  <2>1. TypeOK' /\ InTime' = InTime /\ age' = age
    BY <1>0, <1>4, EndIsWritten DEF AcquireError, SetLock, Goto, InTime, Holding
  <2>2. CASE UNCHANGED <<owner, ttl, lockRun>>
    BY <1>0, <2>1, <2>2 DEF LockIsMine, Outlives, EntryOwner
  <2>3. CASE Free(e) /\ SetLock(e)
    <3>1. InTime = {}
      BY <2>3 DEF Free, LockIsMine, InTime, Holding
    <3>2. EntryOwner'
      BY <1>0, <2>3 DEF SetLock, EntryOwner
    <3> QED
      BY <2>1, <3>1, <3>2 DEF LockIsMine, Outlives
  <2> QED
    BY <1>4, <2>2, <2>3 DEF AcquireError
<1>5. ASSUME NEW e \in Runs, NEW err \in BOOLEAN, HandlerReturns(e, err) PROVE LockInv'
  <2>1. TypeOK'
    BY <1>0, <1>5, EndIsWritten DEF HandlerReturns, Goto
  <2> QED BY <1>0, <1>5, <2>1 DEF HandlerReturns, Goto, LockIsMine, Outlives, EntryOwner, InTime, Holding
<1>6. ASSUME NEW e \in Runs, Extend(e) PROVE LockInv'
  <2>1. InTime \subseteq {e}
    BY <1>6 DEF Extend, LockIsMine, InTime, Holding, Competing
  <2>2. InTime' \subseteq {e}
    BY <1>0, <1>6, <2>1 DEF Extend, InTime, Holding
  <2>3. TypeOK' /\ age'[e] = 0 /\ ttl' = TTL /\ lockRun' = e /\ owner' = OwnerId(e)
    BY <1>0, <1>6 DEF Extend, SetLock
  <2> QED
    BY <1>0, <2>2, <2>3 DEF LockIsMine, Outlives, EntryOwner
<1>7. ASSUME NEW e \in Runs, Release(e) \/ ReleaseLost(e) PROVE LockInv'
  <2>1. TypeOK' /\ InTime' = InTime /\ age' = age /\ e \notin InTime
    BY <1>0, <1>7 DEF Release, ReleaseLost, Unlock, Goto, InTime, Holding
  <2>2. InTime # {} => UNCHANGED <<owner, ttl, lockRun>>
    BY <1>7, <2>1 DEF Release, ReleaseLost, Unlock, LockIsMine, Competing, InTime, Holding
  <2>3. EntryOwner'
    BY <1>0, <1>7 DEF Release, ReleaseLost, Unlock, EntryOwner
  <2> QED
    BY <1>0, <2>1, <2>2, <2>3 DEF LockIsMine, Outlives
<1>8. ASSUME NEW e \in Runs, Crash(e) PROVE LockInv'
  BY <1>0, <1>8 DEF Crash, Goto, LockIsMine, Outlives, EntryOwner, InTime, Holding
<1>9. ASSUME Cleanup PROVE LockInv'
  BY <1>0, <1>9 DEF Cleanup, LockIsMine, Outlives, EntryOwner, InTime
<1>10. CASE Tick
  <2>1. TypeOK' /\ InTime' \subseteq InTime
    BY <1>0, <1>10 DEF Tick, InTime, Holding
  <2>2. ASSUME NEW e \in InTime'
        PROVE  /\ e \in InTime /\ age[e] \in 0..TTL
               /\ age'[e] = age[e] + 1 /\ age'[e] < TTL
               /\ ttl > 1 /\ ttl' = ttl - 1
               /\ UNCHANGED <<owner, lockRun>>
    <3>1. e \in InTime /\ age[e] \in 0..TTL /\ age'[e] = age[e] + 1 /\ age'[e] < TTL
      BY <1>0, <1>10, <2>1, <2>2 DEF Tick, InTime, Holding
    <3>2. ttl > 1
      BY <3>1 DEF Outlives
    <3> QED
      BY <1>10, <3>1, <3>2 DEF Tick
  <2>3. LockIsMine'
    <3> SUFFICES ASSUME NEW e \in InTime'
                 PROVE  lockRun' = e /\ owner' = OwnerId(e) /\ ttl' > 0
      BY <1>0 DEF LockIsMine
    <3> QED
      BY <2>2 DEF LockIsMine
  <2>4. Outlives'
    <3> SUFFICES ASSUME NEW e \in InTime' PROVE ttl' >= TTL - age'[e]
      BY DEF Outlives
    <3>1. ttl >= TTL - age[e]
      BY <2>2 DEF Outlives
    <3> QED
      BY <2>2, <3>1
  <2>5. EntryOwner'
    BY <1>0, <1>10 DEF Tick, EntryOwner
  <2> QED
    BY <2>1, <2>3, <2>4, <2>5
<1>11. CASE UNCHANGED vars
  BY <1>11 DEF vars, LockIsMine, Outlives, EntryOwner, InTime, Holding
<1> QED
  BY <1>1, <1>2, <1>3, <1>4, <1>5, <1>6, <1>7, <1>8, <1>9, <1>10, <1>11 DEF Next

(* It holds before anybody has asked for the lock. *)
LEMMA LockInit == Init => LockInv
BY LockAssumption DEF Init, LockInv, TypeOK, Phases, LockIsMine, Outlives, EntryOwner, InTime, Holding

(* Handlers of different instances that have time left never overlap, and each
   holds the entry it created. *)
THEOREM Exclusion ==
    ASSUME Competing PROVE Spec => [](MutualExclusion /\ LockIsMine)
<1>1. LockInv => MutualExclusion /\ LockIsMine
  BY DEF LockInv, MutualExclusion, LockIsMine
<1>2. LockInv /\ [Next]_vars => LockInv'
  BY LockStep
<1> QED
  BY <1>1, <1>2, LockInit, PTL DEF Spec

(* A release of a Redis lock, however late, removes no other instance's entry. *)
THEOREM OwnRelease ==
    ASSUME Competing PROVE Spec => ReleasesOwnOnly
<1> DEFINE OwnOnly ==
      \A e \in Runs : locker = "redis" /\ pc[e] = "releasing" /\ pc'[e] = "done" =>
          lockRun' = lockRun \/ lockRun = e
<1>1. LockInv /\ [Next]_vars => OwnOnly
  <2> SUFFICES ASSUME LockInv, [Next]_vars, NEW e \in Runs,
                      locker = "redis", pc[e] = "releasing", pc'[e] = "done",
                      lockRun' # lockRun
               PROVE  lockRun = e
    OBVIOUS
  <2>1. Release(e) \/ ReleaseLost(e)
    BY DEF Next, vars, Begin, Acquire, TakeLock, Skip, AcquireError, HandlerReturns, Extend,
           Release, ReleaseLost, Unlock, Crash, Cleanup, Tick, Goto, LockInv, TypeOK, Phases
  <2>2. owner = InstanceOf[e]
    BY <2>1 DEF Release, ReleaseLost, Unlock, OwnerId
  <2> QED
    BY <2>2, LockAssumption DEF LockInv, EntryOwner, Competing
<1>2. LockInv /\ [Next]_vars => LockInv'
  BY LockStep
<1> HIDE DEF OwnOnly
<1>3. Spec => [][OwnOnly]_vars
  BY <1>1, <1>2, LockInit, PTL DEF Spec
<1> QED
  BY <1>3 DEF OwnOnly, ReleasesOwnOnly

(* What an execution that is over with its handler has in the history. *)
EndsRecorded ==
    /\ TypeOK
    /\ \A e \in Scheduled : pc[e] \in {"releasing", "done"} /\ history # "none" =>
          \/ record[e] \in {"completed", "failed", "skipped"}
          \/ history = "redis" /\ (e \in lost \/ Overdue(e))

(* A step after which nobody else has ended, and the records of those who have
   are as they were. *)
LEMMA EndsStay ==
    ASSUME EndsRecorded, TypeOK', history' = history, lost' = lost,
           \A e \in Scheduled : /\ pc'[e] \in {"releasing", "done"} => pc[e] \in {"releasing", "done"}
                                /\ pc[e] \in {"releasing", "done"} =>
                                       record'[e] = record[e] /\ (age[e] >= TTL => age'[e] >= TTL)
    PROVE  EndsRecorded'
<1>1. ASSUME NEW e \in Scheduled, pc'[e] \in {"releasing", "done"}, history' # "none"
      PROVE  record'[e] \in {"completed", "failed", "skipped"} \/ (history' = "redis" /\ (e \in lost' \/ Overdue(e)'))
  <2>0. pc[e] \in {"releasing", "done"}
    BY <1>1
  <2>1. record[e] \in {"completed", "failed", "skipped"} \/ (history = "redis" /\ (e \in lost \/ Overdue(e)))
    BY <1>1, <2>0 DEF EndsRecorded
  <2>2. record'[e] = record[e] /\ (age[e] >= TTL => age'[e] >= TTL)
    BY <2>0
  <2>3. Overdue(e) => Overdue(e)'
    BY <2>2 DEF Overdue
  <2> QED BY <2>1, <2>2, <2>3
<1> QED BY <1>1 DEF EndsRecorded

(* An execution that leaves its handler, or gives up on the lock, records its
   end with it; what comes later touches neither the record nor the context. *)
LEMMA EndsRecordedStep == EndsRecorded /\ [Next]_vars => EndsRecorded'
<1> SUFFICES ASSUME EndsRecorded, [Next]_vars PROVE EndsRecorded'
  OBVIOUS
<1> USE LockAssumption DEF Phases, OwnerId, recordVars
<1>0. locker' = locker /\ history' = history /\ TypeOK
  BY DEF Next, vars, EndsRecorded
<1>1. ASSUME NEW e \in Runs, Begin(e) PROVE EndsRecorded'
  <2>1. TypeOK'
    BY <1>0, <1>1 DEF Begin, Goto, TypeOK
  <2> QED BY <1>0, <1>1, <2>1, EndsStay DEF Begin, Goto, TypeOK
<1>2. ASSUME NEW e \in Runs, Acquire(e) PROVE EndsRecorded'
  <2>1. TypeOK'
    BY <1>0, <1>2 DEF Acquire, TakeLock, SetLock, Goto, TypeOK
  <2>2. \A f \in Scheduled : age'[f] = age[f]
    BY <1>0, <1>2 DEF Acquire, TakeLock, TypeOK
  <2> QED BY <1>0, <1>2, <2>1, <2>2, EndsStay DEF Acquire, TakeLock, Goto, TypeOK
<1>3. ASSUME NEW e \in Runs, NEW st \in {"completed", "failed", "skipped"}, recordComplete(e, st),
             age' = age, TypeOK', \A f \in Runs \ {e} : pc'[f] = pc[f]
      PROVE  EndsRecorded'
  <2>1. \A f \in Scheduled : Overdue(f)' <=> Overdue(f)
    BY <1>3 DEF Overdue
  <2>2. lost \subseteq lost' /\ \A f \in Runs \ {e} : record'[f] = record[f]
    BY <1>0, <1>3, EndIsWritten
  <2>3. e \in Scheduled /\ history # "none" => record'[e] = st \/ (history = "redis" /\ (e \in lost' \/ Overdue(e)'))
    BY <1>0, <1>3, <2>1, EndIsWritten
  <2> QED BY <1>0, <1>3, <2>2, <2>3 DEF EndsRecorded, Overdue
<1>4. ASSUME NEW e \in Runs, Skip(e) PROVE EndsRecorded'
  <2>1. TypeOK'
    BY <1>0, <1>4, EndIsWritten DEF Skip, Goto, TypeOK
  <2> QED BY <1>0, <1>3, <1>4, <2>1 DEF Skip, Goto, TypeOK
<1>5. ASSUME NEW e \in Runs, AcquireError(e) PROVE EndsRecorded'
  <2>1. TypeOK'
    BY <1>0, <1>5, EndIsWritten DEF AcquireError, SetLock, Goto, TypeOK
  <2> QED BY <1>0, <1>3, <1>5, <2>1 DEF AcquireError, Goto, TypeOK
<1>6. ASSUME NEW e \in Runs, NEW err \in BOOLEAN, HandlerReturns(e, err) PROVE EndsRecorded'
  <2>1. TypeOK'
    BY <1>0, <1>6, EndIsWritten DEF HandlerReturns, Goto, TypeOK
  <2> QED BY <1>0, <1>3, <1>6, <2>1 DEF HandlerReturns, Goto, TypeOK
<1>7. ASSUME NEW e \in Runs, Extend(e) PROVE EndsRecorded'
  <2>1. TypeOK'
    BY <1>0, <1>7 DEF Extend, SetLock, TypeOK
  <2>2. \A f \in Scheduled : age'[f] = age[f]
    BY <1>0, <1>7 DEF Extend, TypeOK
  <2> QED BY <1>0, <1>7, <2>1, <2>2, EndsStay DEF Extend, TypeOK
<1>8. ASSUME NEW e \in Runs, Release(e) \/ ReleaseLost(e) PROVE EndsRecorded'
  <2>1. TypeOK'
    BY <1>0, <1>8 DEF Release, ReleaseLost, Unlock, Goto, TypeOK
  <2> QED BY <1>0, <1>8, <2>1, EndsStay DEF Release, ReleaseLost, Unlock, Goto, TypeOK
<1>9. ASSUME NEW e \in Runs, Crash(e) PROVE EndsRecorded'
  <2>1. TypeOK'
    BY <1>0, <1>9 DEF Crash, Goto, TypeOK
  <2> QED BY <1>0, <1>9, <2>1, EndsStay DEF Crash, Goto, TypeOK
<1>10. CASE Cleanup
  <2>1. TypeOK'
    BY <1>0, <1>10 DEF Cleanup, TypeOK
  <2> QED BY <1>0, <1>10, <2>1, EndsStay DEF Cleanup, TypeOK
<1>11. CASE Tick
  <2>1. TypeOK'
    BY <1>0, <1>11 DEF Tick, TypeOK
  <2>2. ASSUME NEW e \in Scheduled PROVE age'[e] >= age[e]
    BY <1>0, <1>11 DEF Tick, TypeOK
  <2>3. \A e \in Scheduled : age[e] >= TTL => age'[e] >= TTL
    BY <1>0, <2>1, <2>2 DEF TypeOK
  <2> QED BY <1>0, <1>11, <2>1, <2>3, EndsStay DEF Tick
<1>12. CASE UNCHANGED vars
  BY <1>12 DEF vars, EndsRecorded, TypeOK, Overdue
<1> QED
  BY <1>1, <1>2, <1>4, <1>5, <1>6, <1>7, <1>8, <1>9, <1>10, <1>11, <1>12 DEF Next

(* Nobody has ended yet. *)
LEMMA EndsRecordedInit == Init => EndsRecorded
BY LockAssumption DEF Init, EndsRecorded, TypeOK, Phases

-----------------------------------------------------------------------------
(* The loop of Cleanup: what it has kept after i executions. *)
KeptBy(list, old, f) ==
    /\ DOMAIN f = 0 .. Len(list) /\ f[0] = << >>
    /\ \A i \in 1 .. Len(list) : f[i] = IF list[i] \in old THEN f[i - 1] ELSE Append(f[i - 1], list[i])

(* The loop of Cleanup runs to its end, and Retained is what it has then. *)
LEMMA LoopRuns ==
    ASSUME NEW S, NEW list \in Seq(S), NEW old
    PROVE  \E f : KeptBy(list, old, f) /\ Retained(list, old) = f[Len(list)]
<1> DEFINE n == Len(list)
           step(f, i) == IF list[i] \in old THEN f[i - 1] ELSE Append(f[i - 1], list[i])
           body(f) == [i \in 0 .. n |-> IF i = 0 THEN << >> ELSE step(f, i)]
           upTo(f, m) == f[0] = << >> /\ \A i \in 1 .. m : f[i] = step(f, i)
           T == {m \in 0 .. n : \E f : upTo(f, m)}
<1>1. n \in Nat
  BY LenProperties
<1>2. 0 \in T
  <2> DEFINE z == [i \in {0} |-> << >>]
  <2>1. upTo(z, 0)
    OBVIOUS
  <2> HIDE DEF upTo, z
  <2> QED BY <1>1, <2>1
<1>3. ASSUME NEW m \in 1 .. n, m - 1 \in T PROVE m \in T
  <2>1. PICK f : upTo(f, m - 1)
    BY <1>3
  <2> DEFINE g == [i \in 0 .. m |-> IF i = m THEN step(f, m) ELSE f[i]]
  <2>2. g[0] = << >>
    BY <2>1
  <2>3. ASSUME NEW i \in 1 .. m PROVE g[i] = step(g, i)
    <3>1. CASE i = m
      BY <3>1
    <3>2. CASE i # m
      BY <2>1, <3>2
    <3> QED BY <3>1, <3>2
  <2>4. upTo(g, m)
    BY <2>2, <2>3
  <2> HIDE DEF g, upTo
  <2> QED BY <1>1, <2>4
<1>4. PICK f : upTo(f, n)
  <2> HIDE DEF T, n, upTo
  <2>0. \A i \in 1 .. n : i - 1 \in T => i \in T
    BY <1>3
  <2>1. \A i \in 0 .. n : i \in T
    BY <1>1, <1>2, <2>0, CountingUp, Zenon
  <2>2. n \in T
    BY <1>1, <2>1
  <2> QED BY <2>2 DEF T
<1>5. \E g : g = body(g)
  <2> DEFINE g == [i \in 0 .. n |-> f[i]]
  <2>1. ASSUME NEW i \in 0 .. n PROVE g[i] = body(g)[i]
    <3>1. CASE i = 0
      BY <1>1, <1>4, <3>1
    <3>2. CASE i # 0
      BY <1>1, <1>4, <3>2
    <3> QED BY <3>1, <3>2
  <2>2. g = body(g)
    BY <2>1
  <2> HIDE DEF g, body
  <2> QED BY <2>2
<1> DEFINE kept == CHOOSE g : g = body(g)
<1>6. kept = body(kept)
  <2> HIDE DEF body
  <2> QED BY <1>5
<1>7. Retained(list, old) = kept[n]
  BY DEF Retained
<1> HIDE DEF kept
<1>8. KeptBy(list, old, kept)
  <2>1. DOMAIN kept = 0 .. n /\ kept[0] = << >>
    BY <1>1, <1>6
  <2>2. ASSUME NEW i \in 1 .. n PROVE kept[i] = step(kept, i)
    <3>1. body(kept)[i] = step(kept, i)
      BY <1>1
    <3> HIDE DEF body, step
    <3> QED BY <1>6, <3>1
  <2> QED BY <2>1, <2>2 DEF KeptBy
<1> QED BY <1>7, <1>8

(* Cleanup keeps what is not old, each execution once if it was there once. *)
LEMMA RetainedFacts ==
    ASSUME NEW S, NEW list \in Seq(S), NEW old
    PROVE  /\ Retained(list, old) \in Seq(S)
           /\ Range(Retained(list, old)) = Range(list) \ old
           /\ (\A i, j \in DOMAIN list : list[i] = list[j] => i = j) =>
                 \A i, j \in DOMAIN Retained(list, old) : Retained(list, old)[i] = Retained(list, old)[j] => i = j
<1> DEFINE n == Len(list)
           once(l) == \A i, j \in DOMAIN l : l[i] = l[j] => i = j
           seen(m) == {list[i] : i \in 1 .. m}
<1>1. n \in Nat /\ DOMAIN list = 1 .. n /\ \A i \in 1 .. n : list[i] \in S
  BY LenProperties
<1>2. PICK f : KeptBy(list, old, f) /\ Retained(list, old) = f[n]
  BY LoopRuns
<1> DEFINE good(i) == f[i] \in Seq(S) /\ Range(f[i]) = seen(i) \ old /\ (once(list) => once(f[i]))
           T == {i \in 0 .. n : good(i)}
<1>3. 0 \in T
  <2>1. f[0] = << >>
    BY <1>2 DEF KeptBy
  <2>2. << >> \in Seq(S) /\ DOMAIN << >> = {}
    OBVIOUS
  <2>3. seen(0) = {} /\ Range(<< >>) = {}
    BY <2>2 DEF Range
  <2>4. once(<< >>)
    BY <2>2
  <2>5. good(0)
    <3> HIDE DEF once, seen
    <3> QED BY <2>1, <2>2, <2>3, <2>4
  <2> HIDE DEF good
  <2> QED BY <1>1, <2>5
<1>4. ASSUME NEW i \in 1 .. n, i - 1 \in T PROVE i \in T
  <2>1. i - 1 \in 0 .. n /\ good(i - 1)
    BY <1>4
  <2>2. f[i] = IF list[i] \in old THEN f[i - 1] ELSE Append(f[i - 1], list[i])
    BY <1>2 DEF KeptBy
  <2>3. seen(i) = seen(i - 1) \cup {list[i]}
    <3>1. 1 .. i = 1 .. i - 1 \cup {i}
      BY <1>1
    <3> QED BY <3>1
  <2> DEFINE old1 == f[i - 1]
             seen1 == seen(i - 1)
             m == Len(old1)
  <2>4. CASE list[i] \in old
    BY <1>1, <2>1, <2>2, <2>3, <2>4
  <2>5. CASE list[i] \notin old
    <3>1. old1 \in Seq(S) /\ list[i] \in S /\ m \in Nat /\ DOMAIN old1 = 1 .. m
      BY <1>1, <2>1, LenProperties
    <3>2. /\ f[i] = Append(old1, list[i]) /\ f[i] \in Seq(S) /\ Len(f[i]) = m + 1 /\ DOMAIN f[i] = 1 .. m + 1
          /\ \A j \in 1 .. m : f[i][j] = old1[j]
          /\ f[i][m + 1] = list[i]
      <4>1. f[i] = Append(old1, list[i])
        BY <2>2, <2>5
      <4> HIDE DEF old1, m
      <4> QED BY <3>1, <4>1, AppendProperties, LenProperties DEF m
    <3>3. Range(f[i]) = Range(old1) \cup {list[i]}
      <4> HIDE DEF old1, m
      <4>1. 1 .. m + 1 = 1 .. m \cup {m + 1}
        BY <3>1
      <4> QED BY <3>1, <3>2, <4>1 DEF Range
    <3>4. Range(f[i]) = seen(i) \ old
      <4> HIDE DEF old1, m, seen
      <4> QED BY <2>1, <2>3, <2>5, <3>3 DEF old1
    <3>5. ASSUME once(list) PROVE once(f[i])
      <4>1. list[i] \notin Range(old1)
        <5>1. \A j \in 1 .. i - 1 : list[j] # list[i]
          BY <1>1, <3>5
        <5>2. list[i] \notin seen1
          BY <5>1
        <5> HIDE DEF seen1, old1, seen
        <5> QED BY <2>1, <5>2 DEF seen1, old1
      <4>2. \A j \in 1 .. m : old1[j] # list[i]
        <5> HIDE DEF old1, m
        <5> QED BY <3>1, <4>1 DEF Range
      <4>3. once(old1)
        BY <2>1, <3>5
      <4> HIDE DEF old1, m
      <4> SUFFICES ASSUME NEW j \in 1 .. m + 1, NEW k \in 1 .. m + 1, f[i][j] = f[i][k] PROVE j = k
        BY <3>2
      <4>4. \A x \in 1 .. m + 1 : x \in 1 .. m \/ x = m + 1
        BY <3>1
      <4> QED BY <3>1, <3>2, <4>2, <4>3, <4>4
    <3>6. good(i)
      <4> HIDE DEF once, seen
      <4> QED BY <3>2, <3>4, <3>5
    <3> HIDE DEF good
    <3> QED BY <1>1, <3>6
  <2> QED BY <2>4, <2>5
<1>5. good(n)
  <2> HIDE DEF T, n, good
  <2>0. \A i \in 1 .. n : i - 1 \in T => i \in T
    BY <1>4
  <2>1. \A i \in 0 .. n : i \in T
    BY <1>1, <1>3, <2>0, CountingUp, Zenon
  <2>2. n \in T
    BY <1>1, <2>1
  <2> QED BY <2>2 DEF T
<1>6. Range(list) = seen(n)
  BY <1>1 DEF Range
<1> HIDE DEF once, seen
<1>7. (once(list) => once(f[n])) /\ f[n] \in Seq(S) /\ Range(f[n]) = Range(list) \ old
  BY <1>5, <1>6
<1> QED BY <1>2, <1>7 DEF once

(* A list without its first element. *)
LEMMA TailFacts ==
    ASSUME NEW S, NEW l \in Seq(S), NEW n \in Nat, Len(l) = n + 1
    PROVE  /\ Tail(l) \in Seq(S) /\ Len(Tail(l)) = n /\ DOMAIN Tail(l) = 1 .. n
           /\ (\A i \in 1 .. n : Tail(l)[i] = l[i + 1]) /\ Head(l) = l[1]
<1>1. l # << >>
  BY EmptySeq
<1>2. Tail(l) \in Seq(S) /\ Len(Tail(l)) = n /\ Head(l) = l[1]
  BY <1>1, HeadTailProperties
<1>3. \A i \in 1 .. n : Tail(l)[i] = l[i + 1]
  BY <1>1, HeadTailProperties
<1> QED BY <1>2, <1>3, LenProperties

(* Of a list without repetition the first element is gone. *)
LEMMA TailOnce ==
    ASSUME NEW S, NEW l \in Seq(S), NEW n \in Nat, Len(l) = n + 1, \A i, j \in DOMAIN l : l[i] = l[j] => i = j
    PROVE  /\ Range(Tail(l)) = Range(l) \ {Head(l)}
           /\ \A i, j \in DOMAIN Tail(l) : Tail(l)[i] = Tail(l)[j] => i = j
<1>1. DOMAIN l = 1 .. n + 1
  BY LenProperties
<1>2. DOMAIN Tail(l) = 1 .. n /\ (\A i \in 1 .. n : Tail(l)[i] = l[i + 1]) /\ Head(l) = l[1]
  BY TailFacts
<1>3. ASSUME NEW i \in 1 .. n PROVE i + 1 \in DOMAIN l /\ 1 \in DOMAIN l /\ i + 1 # 1
  BY <1>1
<1>4. ASSUME NEW x \in Range(l), x # Head(l) PROVE x \in Range(Tail(l))
  <2>1. PICK k \in DOMAIN l : x = l[k]
    BY DEF Range
  <2>2. k \in 1 .. n + 1 /\ k # 1
    BY <1>1, <1>2, <1>4, <2>1
  <2>3. k - 1 \in 1 .. n /\ (k - 1) + 1 = k
    BY <2>2
  <2>4. Tail(l)[k - 1] = x
    BY <1>2, <2>1, <2>3
  <2> QED BY <1>2, <2>3, <2>4 DEF Range
<1>5. ASSUME NEW x \in Range(Tail(l)) PROVE x \in Range(l) \ {Head(l)}
  <2>1. PICK i \in 1 .. n : x = l[i + 1]
    BY <1>2 DEF Range
  <2> QED BY <1>2, <1>3, <2>1 DEF Range
<1>6. ASSUME NEW i \in 1 .. n, NEW j \in 1 .. n, Tail(l)[i] = Tail(l)[j] PROVE i = j
  <2>1. i + 1 = j + 1
    BY <1>2, <1>3, <1>6
  <2> QED BY <2>1
<1> QED BY <1>2, <1>4, <1>5, <1>6

Begun == {e \in Execs : hPc[e] \in {"expire", "running", "endSet", "endCount", "over"}}
Over == {e \in Execs : hPc[e] = "over"}

Stats == [total : Nat, successful : Nat, failed : Nat, skipped : Nat]
EndsOf(r) == r.successful + r.failed + r.skipped

HistoryTypes ==
    /\ hKind \in {"memory", "redis"} /\ hFaults \in Nat
    /\ hPc \in [Execs -> {"new", "set", "push", "trim", "count", "expire", "running", "endSet", "endCount", "over"}]
    /\ \A e \in Execs : hPc[e] \in {"endSet", "endCount", "over"} => hEnd[e] \in Ends
    /\ hEnd \in [Execs -> Ends \cup {""}]
    /\ hList \in Seq(Execs) /\ DOMAIN hById \subseteq Execs
    /\ hStats \in Stats /\ hLease \in BOOLEAN /\ hReset \in BOOLEAN
    /\ hKind = "memory" => ~hLease /\ hPc \in [Execs -> {"new", "running", "over"}]

(* The list and the records. *)
Listed == /\ Range(hList) \subseteq DOMAIN hById \cup hExpired
          /\ \A e \in Execs : hPc[e] = "push" => e \in DOMAIN hById \cup hExpired
          /\ hKind = "memory" => /\ DOMAIN hById = Range(hList) /\ hExpired = {}
                                 /\ \A i, j \in DOMAIN hList : hList[i] = hList[j] => i = j
                                 /\ \A e \in Range(hList) : hPc[e] # "new"

(* A record of an execution that is over. *)
EndRecorded == hFaults = 0 => \A e \in DOMAIN hById : hPc[e] \in {"endCount", "over"} => hById[e] = hEnd[e]

(* The counters are the numbers of executions begun and over. *)
Counted == hFaults = 0 /\ ~hReset =>
               /\ IsFiniteSet(Begun) /\ hStats.total = Cardinality(Begun)
               /\ IsFiniteSet(Over) /\ EndsOf(hStats) = Cardinality(Over)

HistoryInv == HistoryTypes /\ Listed /\ EndRecorded /\ Counted

(* The initial history satisfies the invariant. *)
LEMMA HistoryStarts == HistoryInit => HistoryInv
<1> SUFFICES ASSUME HistoryInit PROVE HistoryInv
  OBVIOUS
<1>0. hList = << >> /\ hById = << >>
  BY DEF HistoryInit
<1>1. DOMAIN hById = {} /\ hList \in Seq(Execs) /\ DOMAIN hList = {} /\ Range(hList) = {}
  BY <1>0 DEF Range
<1>2. hPc = [e \in Execs |-> "new"]
  BY DEF HistoryInit
<1>3. Begun = {} /\ Over = {}
  BY <1>2 DEF Begun, Over
<1>4. HistoryTypes
  BY <1>1 DEF HistoryInit, HistoryTypes, Stats, NoStats
<1>5. Listed
  BY <1>1, <1>2 DEF Listed, HistoryInit
<1>6. EndRecorded
  BY <1>1 DEF EndRecorded
<1>7. Counted
  <2>1. hStats = [total |-> 0, successful |-> 0, failed |-> 0, skipped |-> 0]
    BY DEF HistoryInit, NoStats
  <2>2. hStats.total = 0 /\ EndsOf(hStats) = 0
    BY <2>1 DEF EndsOf
  <2> QED BY <1>3, <2>2, FS_EmptySet DEF Counted
<1> QED BY <1>4, <1>5, <1>6, <1>7 DEF HistoryInv

(* How the two counted sets move with one execution. *)
LEMMA BegunMoves ==
    ASSUME HistoryTypes, NEW e \in Execs, NEW to, HistoryGoto(e, to)
    PROVE  /\ hPc'[e] = to /\ \A f \in Execs \ {e} : hPc'[f] = hPc[f]
           /\ Begun' = IF to \in {"expire", "running", "endSet", "endCount", "over"} THEN Begun \cup {e} ELSE Begun \ {e}
           /\ Over' = IF to = "over" THEN Over \cup {e} ELSE Over \ {e}
<1>1. hPc' = [hPc EXCEPT ![e] = to] /\ DOMAIN hPc = Execs
  BY DEF HistoryGoto, HistoryTypes
<1>2. hPc'[e] = to /\ \A f \in Execs \ {e} : hPc'[f] = hPc[f]
  BY <1>1
<1> QED BY <1>2 DEF Begun, Over

(* Counting one more start, or one more end. *)
LEMMA CountOne ==
    ASSUME NEW r \in Stats
    PROVE  /\ LET q == [r EXCEPT !.total = @ + 1] IN q \in Stats /\ q.total = r.total + 1 /\ EndsOf(q) = EndsOf(r)
           /\ LET q == [r EXCEPT !.successful = @ + 1] IN q \in Stats /\ q.total = r.total /\ EndsOf(q) = EndsOf(r) + 1
           /\ LET q == [r EXCEPT !.failed = @ + 1] IN q \in Stats /\ q.total = r.total /\ EndsOf(q) = EndsOf(r) + 1
           /\ LET q == [r EXCEPT !.skipped = @ + 1] IN q \in Stats /\ q.total = r.total /\ EndsOf(q) = EndsOf(r) + 1
<1>1. LET q == [r EXCEPT !.total = @ + 1] IN q \in Stats /\ q.total = r.total + 1 /\ EndsOf(q) = EndsOf(r)
  <2> DEFINE q == [r EXCEPT !.total = @ + 1]
  <2>1. q \in Stats
    BY DEF Stats
  <2>2. q.total = r.total + 1 /\ q.successful = r.successful /\ q.failed = r.failed /\ q.skipped = r.skipped
    BY DEF Stats
  <2>3. r.total \in Nat /\ r.successful \in Nat /\ r.failed \in Nat /\ r.skipped \in Nat
    BY DEF Stats
  <2> HIDE DEF q
  <2>4. q.total = r.total + 1 /\ EndsOf(q) = EndsOf(r)
    BY <2>2, <2>3 DEF EndsOf
  <2> QED BY <2>1, <2>4 DEF q
<1>2. LET q == [r EXCEPT !.successful = @ + 1] IN q \in Stats /\ q.total = r.total /\ EndsOf(q) = EndsOf(r) + 1
  <2> DEFINE q == [r EXCEPT !.successful = @ + 1]
  <2>1. q \in Stats
    BY DEF Stats
  <2>2. q.successful = r.successful + 1 /\ q.total = r.total /\ q.failed = r.failed /\ q.skipped = r.skipped
    BY DEF Stats
  <2>3. r.total \in Nat /\ r.successful \in Nat /\ r.failed \in Nat /\ r.skipped \in Nat
    BY DEF Stats
  <2> HIDE DEF q
  <2>4. q.total = r.total /\ EndsOf(q) = EndsOf(r) + 1
    BY <2>2, <2>3 DEF EndsOf
  <2> QED BY <2>1, <2>4 DEF q
<1>3. LET q == [r EXCEPT !.failed = @ + 1] IN q \in Stats /\ q.total = r.total /\ EndsOf(q) = EndsOf(r) + 1
  <2> DEFINE q == [r EXCEPT !.failed = @ + 1]
  <2>1. q \in Stats
    BY DEF Stats
  <2>2. q.failed = r.failed + 1 /\ q.total = r.total /\ q.successful = r.successful /\ q.skipped = r.skipped
    BY DEF Stats
  <2>3. r.total \in Nat /\ r.successful \in Nat /\ r.failed \in Nat /\ r.skipped \in Nat
    BY DEF Stats
  <2> HIDE DEF q
  <2>4. q.total = r.total /\ EndsOf(q) = EndsOf(r) + 1
    BY <2>2, <2>3 DEF EndsOf
  <2> QED BY <2>1, <2>4 DEF q
<1>4. LET q == [r EXCEPT !.skipped = @ + 1] IN q \in Stats /\ q.total = r.total /\ EndsOf(q) = EndsOf(r) + 1
  <2> DEFINE q == [r EXCEPT !.skipped = @ + 1]
  <2>1. q \in Stats
    BY DEF Stats
  <2>2. q.skipped = r.skipped + 1 /\ q.total = r.total /\ q.successful = r.successful /\ q.failed = r.failed
    BY DEF Stats
  <2>3. r.total \in Nat /\ r.successful \in Nat /\ r.failed \in Nat /\ r.skipped \in Nat
    BY DEF Stats
  <2> HIDE DEF q
  <2>4. q.total = r.total /\ EndsOf(q) = EndsOf(r) + 1
    BY <2>2, <2>3 DEF EndsOf
  <2> QED BY <2>1, <2>4 DEF q
<1> QED BY <1>1, <1>2, <1>3, <1>4

(* A start in the statistics. *)
LEMMA CountTotal ==
    ASSUME HistoryTypes, hStats' = Count("total")
    PROVE  hStats' \in Stats /\ hStats'.total = hStats.total + 1 /\ EndsOf(hStats') = EndsOf(hStats)
BY CountOne DEF Count, HistoryTypes

(* An end in the statistics. *)
LEMMA CountEnd ==
    ASSUME HistoryTypes, NEW s \in Ends, hStats' = Count(Field[s])
    PROVE  hStats' \in Stats /\ hStats'.total = hStats.total /\ EndsOf(hStats') = EndsOf(hStats) + 1
<1>1. s = "completed" \/ s = "failed" \/ s = "skipped"
  BY DEF Ends
<1>2. CASE s = "completed"
  <2>1. Field[s] = "successful"
    BY <1>2 DEF Field
  <2>2. hStats' = [hStats EXCEPT !.successful = @ + 1]
    BY <2>1 DEF Count
  <2> QED BY <2>2, CountOne DEF HistoryTypes
<1>3. CASE s = "failed"
  <2>1. Field[s] = "failed"
    BY <1>3 DEF Field
  <2>2. hStats' = [hStats EXCEPT !.failed = @ + 1]
    BY <2>1 DEF Count
  <2> QED BY <2>2, CountOne DEF HistoryTypes
<1>4. CASE s = "skipped"
  <2>1. Field[s] = "skipped"
    BY <1>4 DEF Field
  <2>2. hStats' = [hStats EXCEPT !.skipped = @ + 1]
    BY <2>1 DEF Count
  <2> QED BY <2>2, CountOne DEF HistoryTypes
<1> QED BY <1>1, <1>2, <1>3, <1>4

(* A start that is counted. *)
LEMMA BeginsCounted ==
    ASSUME HistoryInv, NEW e \in Execs, hPc[e] \in {"new", "set", "push", "trim", "count"}, HistoryGoto(e, "running") \/ HistoryGoto(e, "expire"),
           hStats' = Count("total"), UNCHANGED <<hFaults, hReset>>
    PROVE  Counted'
<1>1. HistoryTypes /\ Counted
  BY DEF HistoryInv
<1>2. Begun' = Begun \cup {e} /\ Over' = Over \ {e} /\ e \notin Begun /\ e \notin Over
  BY <1>1, BegunMoves DEF Begun, Over
<1>3. Over' = Over
  BY <1>2
<1>4. IsFiniteSet(Begun) => IsFiniteSet(Begun') /\ Cardinality(Begun') = Cardinality(Begun) + 1
  BY <1>2, FS_AddElement
<1> QED BY <1>1, <1>3, <1>4, CountTotal DEF Counted

(* An end that is counted. *)
LEMMA EndsCounted ==
    ASSUME HistoryInv, NEW e \in Execs, hPc[e] \in {"running", "endCount"}, HistoryGoto(e, "over"), NEW s \in Ends,
           hStats' = Count(Field[s]), UNCHANGED <<hFaults, hReset>>
    PROVE  Counted'
<1>1. HistoryTypes /\ Counted
  BY DEF HistoryInv
<1>2. Begun' = Begun \cup {e} /\ Over' = Over \cup {e} /\ e \in Begun /\ e \notin Over
  BY <1>1, BegunMoves DEF Begun, Over
<1>3. Begun' = Begun
  BY <1>2
<1>4. IsFiniteSet(Over) => IsFiniteSet(Over') /\ Cardinality(Over') = Cardinality(Over) + 1
  BY <1>2, FS_AddElement
<1> QED BY <1>1, <1>3, <1>4, CountEnd DEF Counted

(* A step of an execution that counts nothing. *)
LEMMA NothingCounted ==
    ASSUME HistoryInv, NEW e \in Execs, NEW to, HistoryGoto(e, to), UNCHANGED <<hStats, hFaults, hReset>>,
           \/ hPc[e] \in {"new", "set", "push", "trim", "count"} /\ to \in {"new", "set", "push", "trim", "count"}
           \/ hPc[e] \in {"expire", "running", "endSet"} /\ to \in {"running", "endSet", "endCount"}
    PROVE  Counted'
<1>1. HistoryTypes /\ Counted
  BY DEF HistoryInv
<1>2. Begun' = Begun /\ Over' = Over
  BY <1>1, BegunMoves DEF Begun, Over
<1> QED BY <1>1, <1>2 DEF Counted

(* RecordStart of the memory store. *)
LEMMA MemoryStartStep ==
    ASSUME HistoryInv, NEW e \in Execs, MemoryStart(e)
    PROVE  HistoryInv'
<1>0. HistoryTypes /\ Listed /\ EndRecorded /\ Counted
  BY DEF HistoryInv
<1> DEFINE n == Len(hList)
           l == Append(hList, e)
           over == Len(l) > MaxPerJob
<1>1. n \in Nat /\ DOMAIN hList = 1 .. n /\ hList \in Seq(Execs) /\ DOMAIN hById \subseteq Execs
  BY <1>0, LenProperties DEF HistoryTypes
<1>2. /\ hKind = "memory" /\ hPc[e] = "new" /\ HistoryGoto(e, "running")
      /\ UNCHANGED <<hKind, hEnd, hFaults, hLease, hExpired, hReset>>
  BY DEF MemoryStart, redisVars
<1>3. /\ hList' = (IF over THEN Tail(l) ELSE l) /\ hStats' = Count("total")
      /\ hById' = DropRecords(Record(e, "running"), IF over THEN {Head(l)} ELSE {})
  BY DEF MemoryStart
<1>4. hPc'[e] = "running" /\ \A f \in Execs \ {e} : hPc'[f] = hPc[f]
  BY <1>0, <1>2, BegunMoves
<1>5. l \in Seq(Execs) /\ Len(l) = n + 1 /\ DOMAIN l = 1 .. n + 1 /\ (\A i \in 1 .. n : l[i] = hList[i]) /\ l[n + 1] = e
  BY <1>1, AppendProperties, LenProperties
<1>6. e \notin Range(hList) /\ DOMAIN hById = Range(hList)
  BY <1>0, <1>2 DEF Listed
<1>7. \A i, j \in DOMAIN l : l[i] = l[j] => i = j
  <2>1. \A i \in 1 .. n : l[i] # e
    BY <1>1, <1>5, <1>6 DEF Range
  <2>2. \A i, j \in 1 .. n : l[i] = l[j] => i = j
    BY <1>0, <1>1, <1>2, <1>5 DEF Listed
  <2>3. \A i \in DOMAIN l : i \in 1 .. n \/ i = n + 1
    BY <1>1, <1>5
  <2> HIDE DEF n, l
  <2> QED BY <1>5, <2>1, <2>2, <2>3
<1>8. Range(l) = Range(hList) \cup {e}
  <2>1. \A i \in DOMAIN l : i \in 1 .. n \/ i = n + 1
    BY <1>1, <1>5
  <2>2. n + 1 \in DOMAIN l /\ 1 .. n \subseteq DOMAIN l
    BY <1>1, <1>5
  <2> HIDE DEF n, l
  <2> QED BY <1>1, <1>5, <2>1, <2>2 DEF Range
<1>9. /\ hList' \in Seq(Execs) /\ DOMAIN hById' = Range(hList') /\ Range(hList') \subseteq Range(hList) \cup {e}
      /\ \A i, j \in DOMAIN hList' : hList'[i] = hList'[j] => i = j
      /\ \A x \in DOMAIN hById' : hById'[x] = IF x = e THEN "running" ELSE hById[x]
  <2>0. /\ DOMAIN Record(e, "running") = Range(hList) \cup {e}
        /\ \A x \in Range(hList) \cup {e} : Record(e, "running")[x] = IF x = e THEN "running" ELSE hById[x]
    BY <1>6 DEF Record
  <2>1. CASE ~over
    <3>1. hList' = l /\ hById' = DropRecords(Record(e, "running"), {})
      BY <1>3, <2>1
    <3>2. DOMAIN hById' = Range(hList) \cup {e} /\ \A x \in DOMAIN hById' : hById'[x] = Record(e, "running")[x]
      BY <2>0, <3>1 DEF DropRecords
    <3> HIDE DEF l
    <3> QED BY <1>5, <1>7, <1>8, <2>0, <3>1, <3>2
  <2>2. CASE over
    <3>1. hList' = Tail(l) /\ hById' = DropRecords(Record(e, "running"), {Head(l)})
      BY <1>3, <2>2
    <3>2. /\ Tail(l) \in Seq(Execs) /\ DOMAIN Tail(l) = 1 .. n
          /\ (\A i \in 1 .. n : Tail(l)[i] = l[i + 1]) /\ Head(l) = l[1]
      BY <1>1, <1>5, TailFacts
    <3> HIDE DEF l, n
    <3>3. Range(Tail(l)) = Range(l) \ {Head(l)} /\ \A i, j \in DOMAIN Tail(l) : Tail(l)[i] = Tail(l)[j] => i = j
      BY <1>1, <1>5, <1>7, TailOnce
    <3>4. /\ DOMAIN hById' = (Range(hList) \cup {e}) \ {Head(l)}
          /\ \A x \in DOMAIN hById' : hById'[x] = Record(e, "running")[x]
      BY <2>0, <3>1 DEF DropRecords
    <3> QED BY <1>8, <2>0, <3>1, <3>2, <3>3, <3>4
  <2> QED BY <2>1, <2>2
<1>10. HistoryTypes'
  <2>1. hPc' = [hPc EXCEPT ![e] = "running"]
    BY <1>2 DEF HistoryGoto
  <2>2. hStats' \in Stats
    BY <1>0, <1>3, CountTotal
  <2>3. Range(hList') \subseteq Execs
    BY <1>1, <1>6, <1>9
  <2>4. \A f \in Execs : hPc'[f] \in {"endSet", "endCount", "over"} => hEnd'[f] \in Ends
    BY <1>0, <1>2, <1>4 DEF HistoryTypes
  <2> QED BY <1>0, <1>2, <1>9, <2>1, <2>2, <2>3, <2>4 DEF HistoryTypes
<1>11. Listed'
  <2>1. \A f \in Execs : hPc'[f] # "push"
    BY <1>0, <1>2, <1>4 DEF HistoryTypes
  <2>2. \A x \in Range(hList') : hPc'[x] # "new"
    BY <1>0, <1>1, <1>2, <1>4, <1>6, <1>9 DEF Listed
  <2> QED BY <1>0, <1>2, <1>9, <2>1, <2>2 DEF Listed
<1>12. EndRecorded'
  BY <1>0, <1>1, <1>2, <1>4, <1>6, <1>9 DEF EndRecorded
<1>13. Counted'
  BY <1>2, <1>3, BeginsCounted
<1> QED BY <1>10, <1>11, <1>12, <1>13 DEF HistoryInv

(* The types after a step of one execution. *)
LEMMA GoesOn ==
    ASSUME HistoryTypes, NEW e \in Execs, HistoryGoto(e, "over") \/ (hKind = "redis" /\ \E to \in
              {"set", "push", "trim", "count", "expire", "running", "endSet", "endCount"} : HistoryGoto(e, to)),
           UNCHANGED hKind
    PROVE  /\ hPc' \in [Execs -> {"new", "set", "push", "trim", "count", "expire", "running", "endSet", "endCount", "over"}]
           /\ hKind' = "memory" => hPc' \in [Execs -> {"new", "running", "over"}]
BY DEF HistoryTypes, HistoryGoto

(* RecordComplete of the memory store. *)
LEMMA MemoryCompleteStep ==
    ASSUME HistoryInv, NEW e \in Execs, NEW s \in Ends, MemoryComplete(e, s)
    PROVE  HistoryInv'
<1>0. HistoryTypes /\ Listed /\ EndRecorded /\ Counted
  BY DEF HistoryInv
<1>1. /\ hKind = "memory" /\ hPc[e] = "running" /\ HistoryGoto(e, "over") /\ hEnd' = [hEnd EXCEPT ![e] = s]
      /\ hStats' = Count(Field[s]) /\ UNCHANGED <<hKind, hList, hFaults, hLease, hExpired, hReset>>
      /\ hById' = IF e \in DOMAIN hById THEN Record(e, s) ELSE hById
  BY DEF MemoryComplete, redisVars
<1>2. hPc'[e] = "over" /\ \A f \in Execs \ {e} : hPc'[f] = hPc[f]
  BY <1>0, <1>1, BegunMoves
<1>3. DOMAIN hById' = DOMAIN hById /\ \A x \in DOMAIN hById : hById'[x] = IF x = e THEN s ELSE hById[x]
  <2>1. CASE e \in DOMAIN hById
    BY <1>1, <2>1 DEF Record
  <2>2. CASE e \notin DOMAIN hById
    BY <1>1, <2>2
  <2> QED BY <2>1, <2>2
<1>4. HistoryTypes'
  <2>1. hStats' \in Stats
    BY <1>0, <1>1, CountEnd
  <2>2. hEnd' \in [Execs -> Ends \cup {""}] /\ hEnd'[e] = s /\ \A f \in Execs \ {e} : hEnd'[f] = hEnd[f]
    BY <1>0, <1>1 DEF HistoryTypes
  <2>3. \A f \in Execs : hPc'[f] \in {"endSet", "endCount", "over"} => hEnd'[f] \in Ends
    BY <1>0, <1>2, <2>2 DEF HistoryTypes
  <2> QED BY <1>0, <1>1, <1>3, <2>1, <2>2, <2>3, GoesOn DEF HistoryTypes
<1>5. Listed'
  <2>1. Range(hList) = DOMAIN hById /\ DOMAIN hById \subseteq Execs
    BY <1>0, <1>1 DEF Listed, HistoryTypes
  <2> QED BY <1>0, <1>1, <1>2, <1>3, <2>1 DEF Listed
<1>6. EndRecorded'
  <2>1. hEnd'[e] = s /\ \A x \in Execs \ {e} : hEnd'[x] = hEnd[x]
    BY <1>0, <1>1 DEF HistoryTypes
  <2>2. DOMAIN hById \subseteq Execs
    BY <1>0 DEF HistoryTypes
  <2> QED BY <1>0, <1>1, <1>2, <1>3, <2>1, <2>2 DEF EndRecorded
<1>7. Counted'
  BY <1>1, EndsCounted
<1> QED BY <1>4, <1>5, <1>6, <1>7 DEF HistoryInv

(* Cleanup of the memory store. *)
LEMMA CleanupStep ==
    ASSUME HistoryInv, NEW old, CleanupHistory(old)
    PROVE  HistoryInv'
<1>0. HistoryTypes /\ Listed /\ EndRecorded /\ Counted
  BY DEF HistoryInv
<1>1. /\ hKind = "memory" /\ UNCHANGED <<hKind, hPc, hEnd, hStats, hFaults, hLease, hExpired, hReset>>
      /\ hList' = Retained(hList, old) /\ hById' = DropRecords(hById, old)
  BY DEF CleanupHistory, redisVars
<1>2. /\ hList' \in Seq(Execs) /\ Range(hList') = Range(hList) \ old
      /\ \A i, j \in DOMAIN hList' : hList'[i] = hList'[j] => i = j
  <2>1. hList \in Seq(Execs) /\ \A i, j \in DOMAIN hList : hList[i] = hList[j] => i = j
    BY <1>0, <1>1 DEF HistoryTypes, Listed
  <2> QED BY <1>1, <2>1, RetainedFacts
<1>3. DOMAIN hById' = DOMAIN hById \ old /\ \A x \in DOMAIN hById' : hById'[x] = hById[x]
  BY <1>1 DEF DropRecords
<1>4. HistoryTypes'
  BY <1>0, <1>1, <1>2, <1>3 DEF HistoryTypes
<1>5. Listed'
  <2>1. \A f \in Execs : hPc[f] # "push"
    BY <1>0, <1>1 DEF HistoryTypes
  <2> QED BY <1>0, <1>1, <1>2, <1>3, <2>1 DEF Listed
<1>6. EndRecorded'
  BY <1>0, <1>1, <1>3 DEF EndRecorded
<1>7. Counted'
  BY <1>0, <1>1 DEF Counted, Begun, Over
<1> QED BY <1>4, <1>5, <1>6, <1>7 DEF HistoryInv

(* What the next command of an execution does to the list and the records. *)
LEMMA CommandKeeps ==
    ASSUME HistoryInv, NEW e \in Execs, Command(e)
    PROVE  /\ hPc[e] \in DOMAIN Then /\ hList' \in Seq(Execs) /\ DOMAIN hById' \subseteq Execs
           /\ Range(hList') \subseteq DOMAIN hById' \cup hExpired'
           /\ DOMAIN hById \cup hExpired \subseteq DOMAIN hById' \cup hExpired'
           /\ hPc[e] = "set" => e \in DOMAIN hById'
           /\ \A x \in DOMAIN hById' \ {e} : x \in DOMAIN hById /\ hById'[x] = hById[x]
           /\ hPc[e] = "endSet" => hById'[e] = hEnd[e]
           /\ hPc[e] \notin {"set", "endSet"} => hById' = hById
<1>0. /\ hList \in Seq(Execs) /\ DOMAIN hById \subseteq Execs /\ Range(hList) \subseteq DOMAIN hById \cup hExpired
      /\ hPc[e] = "push" => e \in DOMAIN hById \cup hExpired
  BY DEF HistoryInv, HistoryTypes, Listed
<1> DEFINE n == Len(hList)
<1>1. n \in Nat /\ DOMAIN hList = 1 .. n
  BY <1>0, LenProperties
<1>2. DOMAIN Then = {"set", "push", "trim", "count", "expire", "endSet", "endCount"}
  BY DEF Then
<1>3. CASE /\ hPc[e] \in {"set", "endSet"} /\ hById' = Record(e, IF hPc[e] = "set" THEN "running" ELSE hEnd[e])
           /\ hExpired' = hExpired \ {e} /\ UNCHANGED <<hList, hStats, hLease>>
  <2>1. /\ DOMAIN hById' = DOMAIN hById \cup {e} /\ hById'[e] = (IF hPc[e] = "set" THEN "running" ELSE hEnd[e])
        /\ \A x \in DOMAIN hById \ {e} : hById'[x] = hById[x]
    BY <1>3 DEF Record
  <2> QED BY <1>0, <1>2, <1>3, <2>1
<1>4. CASE hPc[e] = "push" /\ hList' = Append(hList, e) /\ UNCHANGED <<hById, hExpired, hStats, hLease>>
  <2>1. hList' \in Seq(Execs) /\ DOMAIN hList' = 1 .. n + 1 /\ (\A i \in 1 .. n : hList'[i] = hList[i]) /\ hList'[n + 1] = e
    BY <1>0, <1>1, <1>4, AppendProperties, LenProperties
  <2>2. \A i \in 1 .. n + 1 : i \in 1 .. n \/ i = n + 1
    BY <1>1
  <2> HIDE DEF n
  <2>3. Range(hList') \subseteq Range(hList) \cup {e}
    BY <1>1, <2>1, <2>2 DEF Range
  <2> QED BY <1>0, <1>2, <1>4, <2>1, <2>3
<1>5. CASE /\ hPc[e] = "trim"
           /\ hList' = SubSeq(hList, IF Len(hList) > MaxPerJob THEN Len(hList) - MaxPerJob + 1 ELSE 1, Len(hList))
           /\ UNCHANGED <<hById, hExpired, hStats, hLease>>
  <2> DEFINE m == IF Len(hList) > MaxPerJob THEN Len(hList) - MaxPerJob + 1 ELSE 1
  <2>1. m \in 1 .. n + 1
    BY <1>1, HistoryAssumption
  <2>2. hList' = SubSeq(hList, m, n)
    BY <1>5
  <2> HIDE DEF m, n
  <2>3. /\ hList' \in Seq(Execs) /\ Len(hList') = (IF m <= n THEN n - m + 1 ELSE 0)
        /\ \A i \in 1 .. n - m + 1 : hList'[i] = hList[m + i - 1]
    BY <1>0, <1>1, <2>1, <2>2, SubSeqProperties DEF n
  <2>4. ASSUME NEW i \in DOMAIN hList' PROVE hList'[i] \in Range(hList)
    <3>1. i \in 1 .. n - m + 1
      BY <1>1, <2>1, <2>3, LenProperties
    <3>2. m + i - 1 \in 1 .. n
      BY <1>1, <2>1, <3>1
    <3> QED BY <1>1, <2>3, <3>1, <3>2 DEF Range
  <2>5. Range(hList') \subseteq Range(hList)
    BY <2>4 DEF Range
  <2> QED BY <1>0, <1>2, <1>5, <2>3, <2>5
<1>6. CASE hPc[e] \in {"count", "endCount", "expire"} /\ UNCHANGED <<hList, hById, hExpired>>
  BY <1>0, <1>2, <1>6
<1> QED BY <1>3, <1>4, <1>5, <1>6 DEF Command

(* What it does to the statistics. *)
LEMMA CommandCounts ==
    ASSUME HistoryTypes, NEW e \in Execs, Command(e)
    PROVE  /\ hStats' \in Stats /\ hLease' \in BOOLEAN
           /\ hPc[e] = "count" => hStats' = Count("total")
           /\ hPc[e] = "endCount" => hEnd[e] \in Ends /\ hStats' = Count(Field[hEnd[e]])
           /\ hPc[e] \notin {"count", "endCount"} => hStats' = hStats
<1>0. hStats \in Stats /\ hLease \in BOOLEAN /\ (hPc[e] = "endCount" => hEnd[e] \in Ends)
  BY DEF HistoryTypes
<1>1. CASE hPc[e] = "count"
  <2>1. hStats' = Count("total") /\ hLease' = hLease
    BY <1>1 DEF Command
  <2> QED BY <1>0, <1>1, <2>1, CountTotal
<1>2. CASE hPc[e] = "endCount"
  <2>1. hStats' = Count(Field[hEnd[e]]) /\ hLease' = hLease
    BY <1>2 DEF Command
  <2> QED BY <1>0, <1>2, <2>1, CountEnd
<1>3. CASE hPc[e] = "expire"
  <2>1. hStats' = hStats /\ hLease' = (hLease \/ hStats # NoStats)
    BY <1>3 DEF Command
  <2>2. hLease' \in BOOLEAN
    BY <2>1
  <2> QED BY <1>0, <1>3, <2>1, <2>2
<1>4. CASE hPc[e] \notin {"count", "endCount", "expire"}
  BY <1>0, <1>4 DEF Command
<1> QED BY <1>1, <1>2, <1>3, <1>4

(* The beginning of RecordStart and of RecordComplete of the Redis store. *)
LEMMA RedisBeginsStep ==
    ASSUME HistoryInv, NEW e \in Execs, RedisStart(e) \/ \E s \in Ends : RedisComplete(e, s)
    PROVE  HistoryInv'
<1>0. HistoryTypes /\ Listed /\ EndRecorded /\ Counted /\ DOMAIN hById \subseteq Execs
  BY DEF HistoryInv, HistoryTypes
<1>1. CASE RedisStart(e)
  <2>0. /\ hKind = "redis" /\ hPc[e] = "new" /\ HistoryGoto(e, "set")
        /\ UNCHANGED <<hKind, hEnd, hList, hById, hStats, hFaults, hLease, hExpired, hReset>>
    BY <1>1 DEF RedisStart, redisVars
  <2>1. hPc'[e] = "set" /\ \A f \in Execs \ {e} : hPc'[f] = hPc[f]
    BY <1>0, <2>0, BegunMoves
  <2>2. HistoryTypes'
    BY <1>0, <2>0, <2>1, GoesOn DEF HistoryTypes
  <2>3. Listed' /\ EndRecorded'
    BY <1>0, <2>0, <2>1 DEF Listed, EndRecorded
  <2>4. Counted'
    BY <2>0, NothingCounted
  <2> QED BY <2>2, <2>3, <2>4 DEF HistoryInv
<1>2. ASSUME NEW s \in Ends, RedisComplete(e, s) PROVE HistoryInv'
  <2>0. /\ hKind = "redis" /\ hPc[e] = "running" /\ HistoryGoto(e, "endSet") /\ hEnd' = [hEnd EXCEPT ![e] = s]
        /\ UNCHANGED <<hKind, hList, hById, hStats, hFaults, hLease, hExpired, hReset>>
    BY <1>2 DEF RedisComplete, redisVars
  <2>1. hPc'[e] = "endSet" /\ \A f \in Execs \ {e} : hPc'[f] = hPc[f]
    BY <1>0, <2>0, BegunMoves
  <2>2. hEnd' \in [Execs -> Ends \cup {""}] /\ hEnd'[e] = s /\ \A x \in Execs \ {e} : hEnd'[x] = hEnd[x]
    BY <1>0, <2>0 DEF HistoryTypes
  <2>3. HistoryTypes'
    BY <1>0, <2>0, <2>1, <2>2, GoesOn DEF HistoryTypes
  <2>4. Listed' /\ EndRecorded'
    BY <1>0, <2>0, <2>1, <2>2 DEF Listed, EndRecorded
  <2>5. Counted'
    BY <2>0, NothingCounted
  <2> QED BY <2>3, <2>4, <2>5 DEF HistoryInv
<1> QED BY <1>1, <1>2

(* A command of the Redis store. *)
LEMMA RedisCommandStep ==
    ASSUME HistoryInv, NEW e \in Execs, RedisCommand(e)
    PROVE  HistoryInv'
<1>0. HistoryTypes /\ Listed /\ EndRecorded /\ Counted /\ DOMAIN hById \subseteq Execs
  BY DEF HistoryInv, HistoryTypes
<1>1. /\ hKind = "redis" /\ hPc[e] \in DOMAIN Then /\ Command(e) /\ HistoryGoto(e, Then[hPc[e]])
      /\ UNCHANGED <<hKind, hEnd, hReset, hFaults>>
  BY DEF RedisCommand
<1>2. \/ hPc[e] = "set" /\ Then[hPc[e]] = "push"
      \/ hPc[e] = "push" /\ Then[hPc[e]] = "trim"
      \/ hPc[e] = "trim" /\ Then[hPc[e]] = "count"
      \/ hPc[e] = "count" /\ Then[hPc[e]] = "expire"
      \/ hPc[e] = "expire" /\ Then[hPc[e]] = "running"
      \/ hPc[e] = "endSet" /\ Then[hPc[e]] = "endCount"
      \/ hPc[e] = "endCount" /\ Then[hPc[e]] = "over"
  BY <1>1 DEF Then
<1>3. hPc'[e] = Then[hPc[e]] /\ \A f \in Execs \ {e} : hPc'[f] = hPc[f]
  BY <1>0, <1>1, BegunMoves
<1>4. HistoryTypes'
  <2>1. hPc' \in [Execs -> {"new", "set", "push", "trim", "count", "expire", "running", "endSet", "endCount", "over"}]
    BY <1>0, <1>1, <1>2, GoesOn
  <2>2. \A f \in Execs : hPc'[f] \in {"endSet", "endCount", "over"} => hEnd'[f] \in Ends
    BY <1>0, <1>1, <1>2, <1>3 DEF HistoryTypes
  <2> QED BY <1>0, <1>1, <2>1, <2>2, CommandKeeps, CommandCounts DEF HistoryTypes
<1>5. Listed'
  <2>1. \A f \in Execs : hPc'[f] = "push" => f \in DOMAIN hById' \cup hExpired'
    BY <1>0, <1>1, <1>2, <1>3, CommandKeeps DEF Listed
  <2> QED BY <1>1, <2>1, CommandKeeps DEF Listed
<1>6. EndRecorded'
  <2> SUFFICES ASSUME hFaults' = 0, NEW x \in DOMAIN hById', hPc'[x] \in {"endCount", "over"} PROVE hById'[x] = hEnd'[x]
    BY DEF EndRecorded
  <2>1. CASE x # e
    BY <1>0, <1>1, <1>3, <2>1, CommandKeeps DEF EndRecorded
  <2>2. CASE x = e
    <3>1. hPc[e] \in {"endSet", "endCount"}
      BY <1>2, <1>3, <2>2
    <3> QED BY <1>0, <1>1, <2>2, <3>1, CommandKeeps DEF EndRecorded
  <2> QED BY <2>1, <2>2
<1>7. Counted'
  <2>1. CASE hPc[e] = "count"
    BY <1>0, <1>1, <1>2, <2>1, BeginsCounted, CommandCounts
  <2>2. CASE hPc[e] = "endCount"
    BY <1>0, <1>1, <1>2, <2>2, EndsCounted, CommandCounts
  <2>3. CASE hPc[e] \notin {"count", "endCount"}
    <3>1. hStats' = hStats
      BY <1>0, <1>1, <2>3, CommandCounts
    <3> QED BY <1>1, <1>2, <2>3, <3>1, NothingCounted
  <2> QED BY <2>1, <2>2, <2>3
<1> QED BY <1>4, <1>5, <1>6, <1>7 DEF HistoryInv

(* A command that fails, done or not. *)
LEMMA RedisFailsStep ==
    ASSUME HistoryInv, NEW e \in Execs, RedisFails(e)
    PROVE  HistoryInv'
<1>0. HistoryTypes /\ Listed /\ DOMAIN hById \subseteq Execs
  BY DEF HistoryInv, HistoryTypes
<1>1. /\ hKind = "redis" /\ hPc[e] \in DOMAIN OnError /\ HistoryGoto(e, OnError[hPc[e]]) /\ hFaults' = hFaults + 1
      /\ (Command(e) \/ UNCHANGED <<hList, hById, hExpired, hStats, hLease>>) /\ UNCHANGED <<hKind, hEnd, hReset>>
  BY DEF RedisFails
<1>2. /\ OnError[hPc[e]] \in {"expire", "running", "over"}
      /\ OnError[hPc[e]] = "over" => hPc[e] \in {"endSet", "endCount"}
  BY <1>1 DEF OnError
<1>3. hPc'[e] = OnError[hPc[e]] /\ \A f \in Execs \ {e} : hPc'[f] = hPc[f]
  BY <1>0, <1>1, BegunMoves
<1>4. hFaults' \in Nat /\ hFaults' # 0
  <2>1. hFaults \in Nat
    BY <1>0 DEF HistoryTypes
  <2> QED BY <1>1, <2>1
<1>5. /\ hList' \in Seq(Execs) /\ DOMAIN hById' \subseteq Execs /\ hStats' \in Stats /\ hLease' \in BOOLEAN
      /\ Range(hList') \subseteq DOMAIN hById' \cup hExpired'
      /\ DOMAIN hById \cup hExpired \subseteq DOMAIN hById' \cup hExpired'
  <2>1. CASE Command(e)
    BY <1>0, <2>1, CommandKeeps, CommandCounts
  <2>2. CASE UNCHANGED <<hList, hById, hExpired, hStats, hLease>>
    BY <1>0, <2>2 DEF HistoryTypes, Listed
  <2> QED BY <1>1, <2>1, <2>2
<1>6. HistoryTypes'
  <2>1. hPc' \in [Execs -> {"new", "set", "push", "trim", "count", "expire", "running", "endSet", "endCount", "over"}]
    BY <1>0, <1>1, <1>2, GoesOn
  <2>2. \A f \in Execs : hPc'[f] \in {"endSet", "endCount", "over"} => hEnd'[f] \in Ends
    BY <1>0, <1>1, <1>2, <1>3 DEF HistoryTypes
  <2> QED BY <1>0, <1>1, <1>4, <1>5, <2>1, <2>2 DEF HistoryTypes
<1>7. Listed'
  <2>1. \A f \in Execs : hPc'[f] = "push" => hPc[f] = "push"
    BY <1>2, <1>3
  <2> QED BY <1>0, <1>1, <1>5, <2>1 DEF Listed
<1> QED BY <1>4, <1>6, <1>7 DEF HistoryInv, EndRecorded, Counted

(* A record, or the statistics, whose time is over. *)
LEMMA ExpiryStep ==
    ASSUME HistoryInv, StatsExpire \/ \E e \in Execs : RecordExpires(e)
    PROVE  HistoryInv'
<1>0. HistoryTypes /\ Listed /\ EndRecorded /\ Counted
  BY DEF HistoryInv
<1>1. CASE StatsExpire
  <2>1. hStats' \in Stats
    BY <1>1 DEF StatsExpire, NoStats, Stats
  <2>2. HistoryTypes' /\ hReset'
    BY <1>0, <1>1, <2>1 DEF StatsExpire, HistoryTypes
  <2>3. Listed' /\ EndRecorded' /\ Counted'
    BY <1>0, <1>1, <2>2 DEF StatsExpire, Listed, EndRecorded, Counted
  <2> QED BY <2>2, <2>3 DEF HistoryInv
<1>2. ASSUME NEW e \in Execs, RecordExpires(e) PROVE HistoryInv'
  <2>1. /\ hKind = "redis" /\ hExpired' = hExpired \cup {e} /\ hById' = DropRecords(hById, {e})
        /\ UNCHANGED <<hKind, hPc, hEnd, hList, hStats, hLease, hReset, hFaults>>
    BY <1>2 DEF RecordExpires
  <2>2. DOMAIN hById' = DOMAIN hById \ {e} /\ \A x \in DOMAIN hById' : hById'[x] = hById[x]
    BY <2>1 DEF DropRecords
  <2>3. HistoryTypes'
    BY <1>0, <2>1, <2>2 DEF HistoryTypes
  <2>4. Listed' /\ EndRecorded'
    BY <1>0, <2>1, <2>2 DEF Listed, EndRecorded
  <2>5. Counted'
    BY <1>0, <2>1 DEF Counted, Begun, Over
  <2> QED BY <2>3, <2>4, <2>5 DEF HistoryInv
<1> QED BY <1>1, <1>2

(* Every step of the history keeps the invariant. *)
LEMMA HistoryStep == HistoryInv /\ [HistoryNext]_historyVars => HistoryInv'
<1> SUFFICES ASSUME HistoryInv, [HistoryNext]_historyVars PROVE HistoryInv'
  OBVIOUS
<1>1. CASE HistoryNext
  BY <1>1, MemoryStartStep, MemoryCompleteStep, CleanupStep, RedisBeginsStep, RedisCommandStep, RedisFailsStep, ExpiryStep
     DEF HistoryNext
<1>2. CASE UNCHANGED historyVars
  BY <1>2 DEF historyVars, redisVars, HistoryInv, HistoryTypes, Listed, EndRecorded, Counted, Begun, Over
<1> QED BY <1>1, <1>2

(* The invariant is what the history promises, and more. *)
LEMMA HistoryHolds == HistoryInv => HistoryAgrees
<1> SUFFICES ASSUME HistoryInv PROVE HistoryAgrees
  OBVIOUS
<1>1. HistoryTypes /\ Listed /\ EndRecorded /\ Counted
  BY DEF HistoryInv
<1>2. ASSUME hFaults = 0, ~hReset PROVE hStats.successful + hStats.failed + hStats.skipped <= hStats.total
  <2>1. Over \subseteq Begun /\ IsFiniteSet(Begun)
    BY <1>1, <1>2 DEF Over, Begun, Counted
  <2>2. Cardinality(Over) <= Cardinality(Begun)
    BY <2>1, FS_Subset
  <2> QED BY <1>1, <1>2, <2>2 DEF Counted, EndsOf
<1> QED BY <1>1, <1>2 DEF HistoryAgrees, Listed, EndRecorded

-----------------------------------------------------------------------------
Targets == Devices \cup {Blank, Nil}
PushTokens == [issued : Nat, taken : Nat]
Replies == {NoAnswer, NotForTopic} \cup UNION {GoodAnswers[f] \cup GoneAnswers[f] \cup BusyAnswers[f] : f \in {"apns", "fcm", "webpush"}}
Outcomes == [to : Targets, answer : Replies, error : BOOLEAN]
SenderPcs == {"idle", "next", "token", "lock", "exchange", "issued", "post", "arrived", "panicked"}
SenderStates == [pc : SenderPcs, kind : {"send", "topic"}, targets : Seq(Targets), left : Seq(Targets),
                 token : PushTokens \cup {NoToken}, since : Nat, results : Seq(Outcomes)]

PushTypes ==
    /\ service \in Services /\ pushTime \in Nat
    /\ tokenMu \in Senders \cup {NoToken} /\ cached \in PushTokens \cup {NoToken}
    /\ sender \in [Senders -> SenderStates]

(* A sender that ends with its current targets: what it has gathered, and what is left. *)
LEMMA EndedMoves ==
    ASSUME PushTypes, NEW s \in Senders, NEW rs \in Seq(Outcomes), Ended(s, rs)
    PROVE  /\ \A t \in Senders \ {s} : sender'[t] = sender[t]
           /\ sender'[s].pc = (IF sender[s].kind = "topic" THEN "idle" ELSE "next")
           /\ sender'[s].kind = sender[s].kind /\ sender'[s].targets = sender[s].targets
           /\ sender'[s].left = SubSeq(sender[s].left, Len(rs) + 1, Len(sender[s].left))
           /\ sender'[s].results = sender[s].results \o rs
           /\ sender'[s].token = NoToken /\ sender'[s].since = sender[s].since
BY DEF Ended, PushTypes, SenderStates

(* ... and it stays a sender. *)
LEMMA EndedTypes ==
    ASSUME PushTypes, NEW s \in Senders, NEW rs \in Seq(Outcomes), Ended(s, rs)
    PROVE  sender' \in [Senders -> SenderStates]
<1>1. sender[s] \in SenderStates /\ sender[s].results \in Seq(Outcomes) /\ sender[s].left \in Seq(Targets)
  BY DEF PushTypes, SenderStates
<1>2. sender[s].results \o rs \in Seq(Outcomes)
  BY <1>1
<1>3. SubSeq(sender[s].left, Len(rs) + 1, Len(sender[s].left)) \in Seq(Targets)
  BY <1>1, SubSeqProperties
<1> DEFINE res == sender[s].results \o rs
           lef == SubSeq(sender[s].left, Len(rs) + 1, Len(sender[s].left))
           p == IF sender[s].kind = "topic" THEN "idle" ELSE "next"
           new == [sender[s] EXCEPT !.pc = p, !.results = res, !.token = NoToken, !.left = lef]
<1>4. sender' = [sender EXCEPT ![s] = new]
  BY DEF Ended, PushTypes, SenderStates
<1>5. new \in SenderStates
  <2>1. res \in Seq(Outcomes) /\ lef \in Seq(Targets) /\ p \in SenderPcs
    BY <1>2, <1>3 DEF SenderPcs
  <2> HIDE DEF res, lef, p
  <2> QED BY <1>1, <2>1 DEF SenderStates
<1> HIDE DEF new
<1> QED BY <1>4, <1>5 DEF PushTypes

(* Two sequences one after the other. *)
LEMMA Joined ==
    ASSUME NEW S, NEW p \in Seq(S), NEW q \in Seq(S)
    PROVE  /\ p \o q \in Seq(S) /\ Len(p \o q) = Len(p) + Len(q)
           /\ \A i \in DOMAIN (p \o q) : \/ i \in DOMAIN p /\ (p \o q)[i] = p[i]
                                         \/ \E j \in DOMAIN q : (p \o q)[i] = q[j]
<1>1. p \o q \in Seq(S) /\ Len(p \o q) = Len(p) + Len(q) /\ Len(p) \in Nat /\ Len(q) \in Nat
  BY ConcatProperties, LenProperties
<1>2. DOMAIN p = 1 .. Len(p) /\ DOMAIN q = 1 .. Len(q) /\ DOMAIN (p \o q) = 1 .. Len(p) + Len(q)
  BY <1>1, LenProperties
<1>3. \A i \in 1 .. Len(p) + Len(q) : (p \o q)[i] = IF i <= Len(p) THEN p[i] ELSE q[i - Len(p)]
  BY ConcatProperties
<1>4. ASSUME NEW i \in 1 .. Len(p) + Len(q), ~(i <= Len(p)) PROVE i - Len(p) \in 1 .. Len(q)
  BY <1>1, <1>4
<1>5. ASSUME NEW i \in 1 .. Len(p) + Len(q), i <= Len(p) PROVE i \in 1 .. Len(p)
  BY <1>1, <1>5
<1> QED BY <1>1, <1>2, <1>3, <1>4, <1>5

(* A sequence without its first n elements. *)
LEMMA Dropped ==
    ASSUME NEW S, NEW p \in Seq(S), NEW n \in Nat, n <= Len(p)
    PROVE  SubSeq(p, n + 1, Len(p)) \in Seq(S) /\ Len(SubSeq(p, n + 1, Len(p))) = Len(p) - n
<1>1. Len(p) \in Nat
  BY LenProperties
<1>2. n + 1 \in 1 .. Len(p) + 1 /\ Len(p) \in n + 1 - 1 .. Len(p)
  BY <1>1
<1>3. SubSeq(p, n + 1, Len(p)) \in Seq(S) /\ Len(SubSeq(p, n + 1, Len(p))) = IF n + 1 <= Len(p) THEN Len(p) - (n + 1) + 1 ELSE 0
  BY <1>2, SubSeqProperties
<1> QED BY <1>1, <1>3

(* The answers after which the application drops a device. *)
Worn(a) == CASE Family = "apns" -> a.reason \in {"BadDeviceToken", "Unregistered", "DeviceTokenNotForTopic"}
             [] Family = "fcm" -> a.reason = "UNREGISTERED"
             [] OTHER -> a.status \in {404, 410}

(* Answers of each service after which it does not. *)
LEMMA ApnsKeeps ==
    ASSUME Family = "apns", NEW x, NEW y \in {"", "TooManyRequests", "InvalidProviderToken"}
    PROVE  ~Worn(Answer(x, y))
<1>1. Answer(x, y).reason = y
  BY DEF Answer
<1> QED BY <1>1 DEF Worn

(* FCM's busy answers do not condemn a token either. *)
LEMMA FcmKeeps ==
    ASSUME Family = "fcm", NEW x, NEW y \in {"", "QUOTA_EXCEEDED", "UNAVAILABLE"}
    PROVE  ~Worn(Answer(x, y))
<1>1. Answer(x, y).reason = y
  BY DEF Answer
<1> QED BY <1>1 DEF Worn

(* Nor do those of a web push service that do not say 404 or 410. *)
LEMMA WebpushKeeps ==
    ASSUME Family = "webpush", NEW x, x = 0 \/ x = 201 \/ x = 413 \/ x = 503, NEW y
    PROVE  ~Worn(Answer(x, y))
<1>1. Answer(x, y).status = x
  BY DEF Answer
<1>2. ~(x \in {404, 410})
  OBVIOUS
<1>3. ~(Answer(x, y).status \in {404, 410})
  BY <1>1, <1>2
<1> QED BY <1>3 DEF Worn

(* A request without an answer condemns nothing. *)
LEMMA NoAnswerKeeps == ASSUME service \in Services PROVE ~Worn(NoAnswer)
<1>1. CASE Family = "apns"
  BY <1>1, ApnsKeeps, Zenon DEF NoAnswer
<1>2. CASE Family = "fcm"
  BY <1>2, FcmKeeps, Zenon DEF NoAnswer
<1>3. CASE Family = "webpush"
  BY <1>3, WebpushKeeps, Zenon DEF NoAnswer
<1> QED BY <1>1, <1>2, <1>3 DEF Services, Family

(* What a service says of a device it knows. *)
LEMMA KnownKeeps ==
    ASSUME service \in Services, NEW a \in GoodAnswers[Family] \cup BusyAnswers[Family]
    PROVE  ~Worn(a)
<1>1. CASE Family = "apns"
  <2>1. GoodAnswers["apns"] = {Answer(200, "")} /\ BusyAnswers["apns"] = apnsBusy
    BY DEF GoodAnswers, BusyAnswers
  <2>2. a = Answer(200, "") \/ a = Answer(429, "TooManyRequests") \/ a = Answer(503, "") \/ a = Answer(403, "InvalidProviderToken")
    BY <1>1, <2>1 DEF apnsBusy
  <2>3. CASE a = Answer(200, "")
    BY <1>1, <2>3, ApnsKeeps, Zenon
  <2>4. CASE a = Answer(429, "TooManyRequests")
    BY <1>1, <2>4, ApnsKeeps, Zenon
  <2>5. CASE a = Answer(503, "")
    BY <1>1, <2>5, ApnsKeeps, Zenon
  <2>6. CASE a = Answer(403, "InvalidProviderToken")
    BY <1>1, <2>6, ApnsKeeps, Zenon
  <2> QED BY <2>2, <2>3, <2>4, <2>5, <2>6
<1>2. CASE Family = "fcm"
  <2>1. GoodAnswers["fcm"] = {Answer(200, "")} /\ BusyAnswers["fcm"] = fcmBusy
    BY DEF GoodAnswers, BusyAnswers
  <2>2. a = Answer(200, "") \/ a = Answer(429, "QUOTA_EXCEEDED") \/ a = Answer(503, "UNAVAILABLE") \/ a = Answer(503, "")
    BY <1>2, <2>1 DEF fcmBusy
  <2>3. CASE a = Answer(200, "")
    BY <1>2, <2>3, FcmKeeps, Zenon
  <2>4. CASE a = Answer(429, "QUOTA_EXCEEDED")
    BY <1>2, <2>4, FcmKeeps, Zenon
  <2>5. CASE a = Answer(503, "UNAVAILABLE")
    BY <1>2, <2>5, FcmKeeps, Zenon
  <2>6. CASE a = Answer(503, "")
    BY <1>2, <2>6, FcmKeeps, Zenon
  <2> QED BY <2>2, <2>3, <2>4, <2>5, <2>6
<1>3. CASE Family = "webpush"
  <2>1. GoodAnswers["webpush"] = {Answer(201, "")} /\ BusyAnswers["webpush"] = webpushBusy
    BY DEF GoodAnswers, BusyAnswers
  <2>2. a = Answer(201, "") \/ a = Answer(413, "") \/ a = Answer(503, "")
    BY <1>3, <2>1 DEF webpushBusy
  <2>3. CASE a = Answer(201, "")
    BY <1>3, <2>3, WebpushKeeps, Zenon
  <2>4. CASE a = Answer(413, "")
    BY <1>3, <2>4, WebpushKeeps, Zenon
  <2>5. CASE a = Answer(503, "")
    BY <1>3, <2>5, WebpushKeeps, Zenon
  <2> QED BY <2>2, <2>3, <2>4, <2>5
<1> QED BY <1>1, <1>2, <1>3 DEF Family, Services

(* A sender's batch: what is left and what has a result make up the targets, and
   the results so far are true.  A batch that panics has come to a nil notification. *)
Lengths(q) ==
    /\ q.kind = "send" => /\ Len(q.results) + Len(q.left) = Len(q.targets)
                          /\ q.pc = "idle" => Len(q.left) = 0
    /\ q.kind = "topic" => /\ q.pc # "next"
                           /\ q.pc # "idle" => Len(q.results) = 0 /\ Len(q.left) = Len(q.targets)
                           /\ q.pc = "idle" => Len(q.results) \in {0, Len(q.targets)}
    /\ q.pc \notin {"idle", "next"} => q.left # << >>
TrueSoFar(s, q) ==
    /\ \A i \in DOMAIN q.results :
        /\ q.kind = "send" /\ ~q.results[i].error => <<s, q.results[i].to>> \in reached
        /\ Worn(q.results[i].answer) => q.results[i].to \notin registered \/ q.results[i].answer = NotForTopic
    /\ q.pc = "panicked" => Family = "apns" /\ q.left # << >> /\ Head(q.left) = Nil
Reporting == \A s \in Senders : Lengths(sender[s]) /\ TrueSoFar(s, sender[s])

(* A sender goes on with the target it has. *)
Onward == {"token", "lock", "exchange", "issued", "post", "arrived"}
GoesOnward(s) ==
    /\ sender' \in [Senders -> SenderStates] /\ \A t \in Senders \ {s} : sender'[t] = sender[t]
    /\ sender'[s].pc \in Onward
    /\ sender'[s].kind = sender[s].kind /\ sender'[s].targets = sender[s].targets
    /\ sender'[s].left = sender[s].left /\ sender'[s].results = sender[s].results

(* A step on the way to an answer changes no report. *)
LEMMA OnwardReports ==
    ASSUME PushTypes, Reporting, NEW s \in Senders, GoesOnward(s),
           sender[s].pc \in Onward \/ (sender[s].kind = "send" /\ sender[s].left # << >>),
           UNCHANGED <<service, registered, reached>>
    PROVE  Reporting'
<1>0. service' = service /\ registered' = registered /\ reached' = reached
  OBVIOUS
<1>1. Lengths(sender[s]) /\ TrueSoFar(s, sender[s])
  BY DEF Reporting
<1>2. Lengths(sender'[s])
  BY <1>1 DEF Lengths, GoesOnward, Onward
<1>3. TrueSoFar(s, sender[s])'
  BY <1>0, <1>1 DEF TrueSoFar, GoesOnward, Onward, Worn, Family
<1>4. ASSUME NEW t \in Senders \ {s} PROVE Lengths(sender'[t]) /\ TrueSoFar(t, sender[t])'
  <2>1. sender'[t] = sender[t] /\ Lengths(sender[t]) /\ TrueSoFar(t, sender[t])
    BY DEF Reporting, GoesOnward
  <2> QED BY <1>0, <2>1 DEF TrueSoFar, Worn, Family
<1> QED BY <1>2, <1>3, <1>4 DEF Reporting

(* A batch goes on by one result, or a topic request is over. *)
LEMMA EndedReports ==
    ASSUME PushTypes, Reporting, NEW s \in Senders, NEW rs \in Seq(Outcomes), Ended(s, rs),
           sender[s].pc \in Onward \/ sender[s].pc = "next", sender[s].left # << >>,
           Len(rs) = IF sender[s].kind = "topic" THEN Len(sender[s].left) ELSE 1,
           \A i \in DOMAIN rs : /\ sender[s].kind = "send" /\ ~rs[i].error => <<s, rs[i].to>> \in reached'
                                /\ Worn(rs[i].answer) => rs[i].to \notin registered \/ rs[i].answer = NotForTopic,
           service' = service, registered' = registered, reached \subseteq reached'
    PROVE  Reporting'
<1>1. Lengths(sender[s]) /\ TrueSoFar(s, sender[s])
  BY DEF Reporting
<1>2. /\ \A t \in Senders \ {s} : sender'[t] = sender[t]
      /\ sender'[s].pc = (IF sender[s].kind = "topic" THEN "idle" ELSE "next")
      /\ sender'[s].kind = sender[s].kind /\ sender'[s].targets = sender[s].targets
      /\ sender'[s].left = SubSeq(sender[s].left, Len(rs) + 1, Len(sender[s].left))
      /\ sender'[s].results = sender[s].results \o rs
  BY EndedMoves
<1>3. /\ sender[s].results \in Seq(Outcomes) /\ sender[s].left \in Seq(Targets) /\ sender[s].targets \in Seq(Targets)
      /\ sender[s].kind \in {"send", "topic"}
  BY DEF PushTypes, SenderStates
<1> DEFINE a == Len(sender[s].results)
           b == Len(rs)
           c == Len(sender[s].left)
           d == Len(sender[s].targets)
<1>4. a \in Nat /\ b \in Nat /\ c \in Nat /\ c # 0 /\ b <= c /\ d \in Nat
  <2>1. a \in Nat /\ b \in Nat /\ c \in Nat /\ d \in Nat /\ c # 0
    BY <1>3, EmptySeq, LenProperties
  <2>2. b = IF sender[s].kind = "topic" THEN c ELSE 1
    OBVIOUS
  <2> HIDE DEF a, b, c, d
  <2> QED BY <2>1, <2>2
<1>5. Len(sender'[s].results) = a + b
  <2>1. Len(sender[s].results \o rs) = Len(sender[s].results) + Len(rs)
    BY <1>3, Joined
  <2> QED BY <1>2, <2>1
<1>6. Len(sender'[s].left) = c - b
  BY <1>2, <1>3, <1>4, Dropped
<1>7. Lengths(sender'[s])
  <2>1. CASE sender[s].kind = "send"
    <3>1. a + c = d /\ b = 1
      BY <1>1, <2>1 DEF Lengths
    <3>2. Len(sender'[s].targets) = d
      BY <1>2
    <3>3. sender'[s].pc = "next" /\ sender'[s].kind = "send"
      BY <1>2, <2>1
    <3> HIDE DEF a, b, c, d
    <3>4. Len(sender'[s].results) + Len(sender'[s].left) = Len(sender'[s].targets)
      BY <1>4, <1>5, <1>6, <3>1, <3>2
    <3> QED BY <3>3, <3>4 DEF Lengths
  <2>2. CASE sender[s].kind = "topic"
    <3>1. a = 0 /\ c = d /\ b = c
      BY <1>1, <2>2 DEF Lengths, Onward
    <3>2. Len(sender'[s].targets) = d
      BY <1>2
    <3> HIDE DEF a, b, c, d
    <3> QED BY <1>2, <1>4, <1>5, <1>6, <2>2, <3>1, <3>2 DEF Lengths
  <2> QED BY <1>3, <2>1, <2>2
<1>8. TrueSoFar(s, sender[s])'
  <2>1. \A i \in DOMAIN sender'[s].results :
            \/ i \in DOMAIN sender[s].results /\ sender'[s].results[i] = sender[s].results[i]
            \/ \E j \in DOMAIN rs : sender'[s].results[i] = rs[j]
    BY <1>2, <1>3, Joined
  <2>2. \A a0 : Worn(a0)' <=> Worn(a0)
    BY DEF Worn, Family
  <2> QED BY <1>1, <1>2, <2>1, <2>2 DEF TrueSoFar
<1>9. ASSUME NEW t \in Senders \ {s} PROVE Lengths(sender'[t]) /\ TrueSoFar(t, sender[t])'
  <2>1. sender'[t] = sender[t] /\ Lengths(sender[t]) /\ TrueSoFar(t, sender[t])
    BY <1>2 DEF Reporting
  <2> QED BY <2>1 DEF TrueSoFar, Worn, Family
<1> QED BY <1>7, <1>8, <1>9 DEF Reporting

(* A target fails: a batch keeps the failure, a topic request is over. *)
LEMMA FailedReports ==
    ASSUME PushTypes, Reporting, NEW s \in Senders, Failed(s),
           sender[s].pc \in Onward \cup {"next"}, sender[s].left # << >>,
           UNCHANGED <<service, registered, reached>>
    PROVE  /\ Reporting' /\ sender' \in [Senders -> SenderStates]
           /\ \A t \in Senders \ {s} : sender'[t] = sender[t]
           /\ sender'[s].pc \in {"idle", "next"}
<1>0. /\ sender[s] \in SenderStates /\ sender[s].kind \in {"send", "topic"} /\ sender[s].left \in Seq(Targets)
      /\ Lengths(sender[s]) /\ TrueSoFar(s, sender[s])
  BY DEF PushTypes, SenderStates, Reporting
<1>1. CASE sender[s].kind = "topic"
  <2>1. sender' = [sender EXCEPT ![s].pc = "idle", ![s].token = NoToken]
    BY <1>1 DEF Failed
  <2>2. sender' \in [Senders -> SenderStates]
    BY <1>0, <2>1 DEF PushTypes, SenderStates, SenderPcs
  <2>3. /\ \A t \in Senders \ {s} : sender'[t] = sender[t]
        /\ sender'[s].pc = "idle" /\ sender'[s].kind = "topic" /\ sender'[s].targets = sender[s].targets
        /\ sender'[s].results = sender[s].results
    BY <1>0, <1>1, <2>1 DEF PushTypes, SenderStates
  <2>4. Len(sender[s].results) = 0
    BY <1>0, <1>1 DEF Lengths, Onward
  <2>5. Lengths(sender'[s])
    BY <2>3, <2>4 DEF Lengths
  <2>6. TrueSoFar(s, sender[s])'
    BY <1>0, <2>3, <1>1 DEF TrueSoFar, Worn, Family
  <2>7. ASSUME NEW t \in Senders \ {s} PROVE Lengths(sender'[t]) /\ TrueSoFar(t, sender[t])'
    <3>1. sender'[t] = sender[t] /\ Lengths(sender[t]) /\ TrueSoFar(t, sender[t])
      BY <2>3 DEF Reporting
    <3> QED BY <3>1 DEF TrueSoFar, Worn, Family
  <2> QED BY <2>2, <2>3, <2>5, <2>6, <2>7 DEF Reporting
<1>2. CASE sender[s].kind # "topic"
  <2> DEFINE r == Result(Head(sender[s].left), NoAnswer, TRUE)
             rs == <<r>>
  <2>1. Head(sender[s].left) \in Targets
    BY <1>0, HeadTailProperties
  <2>2. r \in Outcomes /\ r.error = TRUE /\ ~Worn(r.answer)
    BY <2>1, NoAnswerKeeps DEF Result, Outcomes, Replies, PushTypes
  <2>3. Ended(s, rs)
    BY <1>2 DEF Failed
  <2> HIDE DEF r
  <2>4. rs \in Seq(Outcomes) /\ Len(rs) = 1 /\ \A i \in DOMAIN rs : rs[i] = r
    BY <2>2
  <2> HIDE DEF rs
  <2>5. sender' \in [Senders -> SenderStates]
    BY <2>3, <2>4, EndedTypes
  <2>6. (\A t \in Senders \ {s} : sender'[t] = sender[t]) /\ sender'[s].pc = "next"
    BY <1>2, <2>3, <2>4, EndedMoves
  <2>7. \A i \in DOMAIN rs : /\ sender[s].kind = "send" /\ ~rs[i].error => <<s, rs[i].to>> \in reached'
                             /\ Worn(rs[i].answer) => rs[i].to \notin registered \/ rs[i].answer = NotForTopic
    BY <2>2, <2>4
  <2>8. Reporting'
    BY <1>2, <2>3, <2>4, <2>7, EndedReports
  <2> QED BY <2>5, <2>6, <2>8
<1> QED BY <1>1, <1>2

-----------------------------------------------------------------------------
(* How long the client lives with a token. *)
TokenGap == IF service = "apns" THEN RefreshAge ELSE PushLifetime - Margin

(* The token in the cache is the last one put there, and was at most a request
   old then; whoever holds the write lock has found it used up. *)
CacheKept ==
    /\ issues \in Seq(Nat)
    /\ issues # << >> => cached \in PushTokens /\ issues[Len(issues)] = cached.taken
    /\ cached \in PushTokens => cached.taken <= cached.issued + (IF service = "apns" THEN 0 ELSE HTTPTimeout)
    /\ tokenMu \in Senders /\ issues # << >> => pushTime >= cached.taken + TokenGap
    /\ \A i \in 1 .. Len(issues) - 1 : issues[i + 1] - issues[i] >= TokenGap

(* Who gets a token holds the lock; a request under way has not run out of time,
   and a token sent with it by a client that is Prompt lives longer than that. *)
TokenHeld(s, q) ==
    /\ q.pc \in {"exchange", "issued"} => tokenMu = s
    /\ q.pc \in {"exchange", "issued", "post", "arrived"} => q.since <= pushTime /\ pushTime <= q.since + HTTPTimeout
    /\ q.pc = "issued" => q.token \in PushTokens /\ q.since <= q.token.issued
    /\ q.pc = "post" /\ service \in {"apns", "fcm"} =>
           q.token \in PushTokens /\ (Prompt => q.since + HTTPTimeout < q.token.issued + PushLifetime)
Sharing == CacheKept /\ (Prompt => ~lateUse) /\ \A s \in Senders : TokenHeld(s, sender[s])

PushInv == PushTypes /\ Reporting /\ Sharing

(* The invariant of the push clients holds before the first send. *)
LEMMA PushStarts == PushInit => PushInv
<1> SUFFICES ASSUME PushInit PROVE PushInv
  OBVIOUS
<1>1. IdleSender \in SenderStates
  BY DEF IdleSender, SenderStates, SenderPcs
<1>2. /\ sender = [s \in Senders |-> IdleSender] /\ service \in Services /\ cached = NoToken /\ tokenMu = NoToken
      /\ lateUse = FALSE /\ issues = << >> /\ pushTime = 0
  BY DEF PushInit
<1>3. PushTypes
  BY <1>1, <1>2 DEF PushTypes
<1>4. Lengths(IdleSender) /\ \A s \in Senders : TrueSoFar(s, IdleSender) /\ TokenHeld(s, IdleSender)
  BY DEF Lengths, TrueSoFar, IdleSender, TokenHeld
<1>5. CacheKept
  BY <1>2, PushAssumption DEF CacheKept, PushTokens
<1> QED BY <1>2, <1>3, <1>4, <1>5 DEF PushInv, Reporting, Sharing

(* A sender that is not at the token and not under way says nothing of the token. *)
LEMMA AtRestShares ==
    ASSUME PushTypes, Sharing, NEW s \in Senders, \A t \in Senders \ {s} : sender'[t] = sender[t],
           sender'[s].pc \in {"idle", "next", "token", "lock", "panicked"},
           UNCHANGED <<service, cached, lateUse, issues, pushTime>>,
           tokenMu' = tokenMu \/ (tokenMu' = NoToken /\ sender[s].pc \in {"exchange", "issued"})
    PROVE  Sharing'
<1>0. service' = service /\ cached' = cached /\ lateUse' = lateUse /\ issues' = issues /\ pushTime' = pushTime
  OBVIOUS
<1>1. CacheKept /\ (Prompt => ~lateUse) /\ (\A t \in Senders : TokenHeld(t, sender[t])) /\ Prompt' = Prompt
  BY <1>0 DEF Sharing, Prompt
<1>2. CacheKept'
  BY <1>0, <1>1, PushAssumption DEF CacheKept, TokenGap
<1>3. TokenHeld(s, sender[s])'
  BY DEF TokenHeld
<1>4. ASSUME NEW t \in Senders \ {s} PROVE TokenHeld(t, sender[t])'
  <2>1. sender'[t] = sender[t] /\ TokenHeld(t, sender[t]) /\ TokenHeld(s, sender[s])
    BY <1>1
  <2> QED BY <1>0, <1>1, <2>1 DEF TokenHeld
<1> QED BY <1>0, <1>1, <1>2, <1>3, <1>4 DEF Sharing

(* A sender that makes or waits for a request, with the token left alone. *)
LEMMA OnwardShares ==
    ASSUME PushTypes, Sharing, NEW s \in Senders, \A t \in Senders \ {s} : sender'[t] = sender[t],
           TokenHeld(s, sender[s])', Prompt => ~lateUse',
           UNCHANGED <<service, cached, tokenMu, issues, pushTime>>
    PROVE  Sharing'
<1>0. service' = service /\ cached' = cached /\ tokenMu' = tokenMu /\ issues' = issues /\ pushTime' = pushTime
  OBVIOUS
<1>1. CacheKept /\ (\A t \in Senders : TokenHeld(t, sender[t])) /\ Prompt' = Prompt
  BY <1>0 DEF Sharing, Prompt
<1>2. CacheKept'
  BY <1>0, <1>1, PushAssumption DEF CacheKept, TokenGap
<1>4. ASSUME NEW t \in Senders \ {s} PROVE TokenHeld(t, sender[t])'
  <2>1. sender'[t] = sender[t] /\ TokenHeld(t, sender[t])
    BY <1>1
  <2> QED BY <1>0, <1>1, <2>1 DEF TokenHeld
<1> QED BY <1>1, <1>2, <1>4 DEF Sharing

(* Setting a sender's place, token and time. *)
LEMMA TakesMoves ==
    ASSUME PushTypes, NEW s \in Senders, NEW token \in PushTokens, Takes(s, token)
    PROVE  GoesOnward(s) /\ sender'[s].pc = "post" /\ sender'[s].token = token /\ sender'[s].since = pushTime
<1>1. sender[s] \in SenderStates /\ pushTime \in Nat
  BY DEF PushTypes
<1>2. sender' \in [Senders -> SenderStates]
  BY <1>1 DEF Takes, PushTypes, SenderStates, SenderPcs
<1> QED BY <1>1, <1>2 DEF Takes, PushTypes, SenderStates, GoesOnward, Onward

(* A step that only moves on. *)
LEMMA PcMoves ==
    ASSUME PushTypes, NEW s \in Senders, NEW p \in Onward, sender' = [sender EXCEPT ![s].pc = p]
    PROVE  GoesOnward(s) /\ sender'[s].pc = p /\ sender'[s].token = sender[s].token /\ sender'[s].since = sender[s].since
<1>1. sender[s] \in SenderStates
  BY DEF PushTypes
<1>2. sender' \in [Senders -> SenderStates]
  BY <1>1 DEF PushTypes, SenderStates, SenderPcs, Onward
<1> QED BY <1>1, <1>2 DEF PushTypes, SenderStates, GoesOnward, Onward

(* A token that is still used is good for another request. *)
LEMMA UsableLasts ==
    ASSUME PushTypes, Sharing, Usable, service \in {"apns", "fcm"}
    PROVE  cached \in PushTokens /\ (Prompt => pushTime + HTTPTimeout < cached.issued + PushLifetime)
<1>1. cached \in PushTokens /\ pushTime \in Nat
  BY DEF Usable, PushTypes
<1>2. cached.taken \in Nat /\ cached.issued \in Nat
  BY <1>1 DEF PushTokens
<1>3. cached.taken <= cached.issued + (IF service = "apns" THEN 0 ELSE HTTPTimeout)
  BY <1>1 DEF Sharing, CacheKept
<1> QED BY <1>1, <1>2, <1>3, PushAssumption DEF Usable, Prompt

(* One that is not has lived its time. *)
LEMMA UsedUp ==
    ASSUME PushTypes, Sharing, ~Usable, issues # << >>
    PROVE  pushTime >= cached.taken + TokenGap
<1>1. cached \in PushTokens /\ pushTime \in Nat /\ cached # NoToken
  BY PushAssumption DEF PushTypes, Sharing, CacheKept, PushTokens
<1>2. cached.taken \in Nat
  BY <1>1 DEF PushTokens
<1> QED BY <1>1, <1>2, PushAssumption DEF Usable, TokenGap

(* The cached token is taken for the request. *)
LEMMA TakesCachedStep ==
    ASSUME PushInv, NEW s \in Senders, sender[s].pc \in {"token", "lock"}, Usable, Takes(s, cached),
           UNCHANGED <<service, cached, tokenMu, registered, reached, lateUse, issues, pushTime>>
    PROVE  PushInv'
<1>0. PushTypes /\ Reporting /\ Sharing /\ TokenHeld(s, sender[s])
  BY DEF PushInv, Sharing
<1>1. cached \in PushTokens
  BY <1>0 DEF PushTypes, Usable
<1>2. GoesOnward(s) /\ sender'[s].pc = "post" /\ sender'[s].token = cached /\ sender'[s].since = pushTime
  BY <1>0, <1>1, TakesMoves
<1>3. TokenHeld(s, sender[s])'
  <2>1. pushTime' <= pushTime' /\ pushTime' <= pushTime' + HTTPTimeout
    BY <1>0, PushAssumption DEF PushTypes
  <2>2. service' \in {"apns", "fcm"} /\ Prompt' => pushTime' + HTTPTimeout < cached.issued + PushLifetime
    BY <1>0, UsableLasts DEF Prompt
  <2>3. sender'[s].since = pushTime'
    BY <1>2
  <2> QED BY <1>1, <1>2, <2>1, <2>2, <2>3 DEF TokenHeld
<1>4. Reporting'
  BY <1>0, <1>2, OnwardReports DEF Onward
<1>5. Sharing'
  BY <1>0, <1>2, <1>3, OnwardShares DEF GoesOnward, Sharing
<1> QED BY <1>0, <1>2, <1>4, <1>5 DEF PushInv, PushTypes, GoesOnward

(* getToken under the read lock. *)
LEMMA ReadTokenStep == ASSUME PushInv, NEW s \in Senders, ReadToken(s) PROVE PushInv'
<1>0. PushTypes /\ Reporting /\ Sharing
  BY DEF PushInv
<1>1. /\ sender[s].pc = "token" /\ IF Usable THEN Takes(s, cached) ELSE sender' = [sender EXCEPT ![s].pc = "lock"]
      /\ UNCHANGED <<service, cached, tokenMu, registered, reached, lateUse, issues, sends, pushTime>>
  BY DEF ReadToken
<1>2. CASE Usable
  BY <1>1, <1>2, TakesCachedStep
<1>3. CASE ~Usable
  <2>1. GoesOnward(s) /\ sender'[s].pc = "lock"
    BY <1>0, <1>1, <1>3, PcMoves DEF Onward
  <2>2. Reporting'
    BY <1>0, <1>1, <2>1, OnwardReports DEF Onward
  <2>3. Sharing'
    BY <1>0, <1>1, <2>1, AtRestShares DEF GoesOnward
  <2> QED BY <1>0, <1>1, <2>1, <2>2, <2>3 DEF PushInv, PushTypes, GoesOnward
<1> QED BY <1>2, <1>3

(* getToken takes the write lock, and looks again. *)
LEMMA LockTokenStep == ASSUME PushInv, NEW s \in Senders, LockToken(s) PROVE PushInv'
<1>0. PushTypes /\ Reporting /\ Sharing /\ sender[s] \in SenderStates
  BY DEF PushInv, PushTypes
<1>1. /\ sender[s].pc = "lock" /\ tokenMu = NoToken
      /\ UNCHANGED <<service, cached, registered, reached, lateUse, issues, sends, pushTime>>
  BY DEF LockToken
<1>2. CASE Usable
  BY <1>1, <1>2, TakesCachedStep DEF LockToken
<1>3. CASE ~Usable
  <2>0. tokenMu' = s /\ sender' = [sender EXCEPT ![s].pc = "exchange", ![s].since = pushTime]
    BY <1>3 DEF LockToken
  <2>1. sender' \in [Senders -> SenderStates]
    BY <1>0, <2>0 DEF PushTypes, SenderStates, SenderPcs
  <2>2. GoesOnward(s) /\ sender'[s].pc = "exchange" /\ sender'[s].since = pushTime
    BY <1>0, <2>0, <2>1 DEF PushTypes, SenderStates, GoesOnward, Onward
  <2>3. Reporting'
    BY <1>0, <1>1, <2>2, OnwardReports DEF Onward
  <2>4. CacheKept'
    <3>1. issues # << >> => pushTime >= cached.taken + TokenGap
      BY <1>0, <1>3, UsedUp
    <3> QED BY <1>0, <1>1, <3>1 DEF Sharing, CacheKept, TokenGap
  <2>5. TokenHeld(s, sender[s])'
    <3>1. sender'[s].since <= pushTime' /\ pushTime' <= sender'[s].since + HTTPTimeout
      BY <1>0, <1>1, <2>2, PushAssumption DEF PushTypes
    <3> QED BY <2>0, <2>2, <3>1 DEF TokenHeld
  <2>6. ASSUME NEW t \in Senders \ {s} PROVE TokenHeld(t, sender[t])'
    <3>1. sender'[t] = sender[t] /\ TokenHeld(t, sender[t]) /\ tokenMu # t
      BY <1>0, <1>1, <2>2, PushAssumption DEF Sharing, GoesOnward
    <3> QED BY <1>1, <3>1 DEF TokenHeld, Prompt
  <2>7. Sharing'
    BY <1>0, <1>1, <2>4, <2>5, <2>6 DEF Sharing, Prompt
  <2> QED BY <1>0, <1>1, <2>0, <2>1, <2>3, <2>7 DEF PushInv, PushTypes
<1> QED BY <1>2, <1>3

(* A new token goes into the cache, its life counted from now. *)
LEMMA KeepTokenStep ==
    ASSUME PushInv, NEW s \in Senders, NEW token \in PushTokens, KeepToken(s, token),
           sender[s].pc \in {"exchange", "issued"}, service \in {"apns", "fcm"}, token.taken = pushTime,
           pushTime <= token.issued + (IF service = "apns" THEN 0 ELSE HTTPTimeout),
           UNCHANGED <<service, registered, reached, lateUse, pushTime>>
    PROVE  PushInv'
<1>0. PushTypes /\ Reporting /\ Sharing /\ tokenMu = s
  BY DEF PushInv, Sharing, TokenHeld
<1>1. cached' = token /\ tokenMu' = NoToken /\ issues' = Append(issues, pushTime) /\ Takes(s, token)
  BY DEF KeepToken
<1>2. GoesOnward(s) /\ sender'[s].pc = "post" /\ sender'[s].token = token /\ sender'[s].since = pushTime
  BY <1>0, <1>1, TakesMoves
<1>3. Reporting'
  BY <1>0, <1>2, OnwardReports DEF Onward
<1>4. pushTime \in Nat /\ token.issued \in Nat /\ token.taken \in Nat
  BY <1>0 DEF PushTypes, PushTokens
<1>5. TokenHeld(s, sender[s])'
  <2>1. sender'[s].since <= pushTime' /\ pushTime' <= sender'[s].since + HTTPTimeout
    BY <1>2, <1>4, PushAssumption
  <2>2. Prompt' => sender'[s].since + HTTPTimeout < token.issued + PushLifetime
    BY <1>2, <1>4, PushAssumption DEF Prompt
  <2> QED BY <1>2, <2>1, <2>2 DEF TokenHeld
<1>6. ASSUME NEW t \in Senders \ {s} PROVE TokenHeld(t, sender[t])'
  <2>1. sender'[t] = sender[t] /\ TokenHeld(t, sender[t]) /\ tokenMu # t
    BY <1>0, <1>2 DEF Sharing, GoesOnward
  <2> QED BY <2>1 DEF TokenHeld, Prompt
<1>7. CacheKept'
  <2> DEFINE n == Len(issues)
  <2>0. issues \in Seq(Nat) /\ n \in Nat
    BY <1>0, LenProperties DEF Sharing, CacheKept
  <2>1. /\ issues' \in Seq(Nat) /\ Len(issues') = n + 1 /\ issues'[n + 1] = pushTime
        /\ \A i \in 1 .. n : issues'[i] = issues[i]
    BY <1>1, <1>4, <2>0, AppendProperties
  <2>2. issues # << >> => issues[n] = cached.taken /\ pushTime >= cached.taken + TokenGap /\ cached.taken \in Nat
    BY <1>0 DEF Sharing, CacheKept, PushTokens
  <2>3. n # 0 => issues # << >>
    OBVIOUS
  <2>4. \A i \in 1 .. n - 1 : issues[i + 1] - issues[i] >= TokenGap
    BY <1>0 DEF Sharing, CacheKept
  <2>5. TokenGap' = TokenGap /\ TokenGap \in Int
    BY PushAssumption DEF TokenGap
  <2> HIDE DEF n
  <2>6. ASSUME NEW i \in 1 .. n PROVE issues'[i + 1] - issues'[i] >= TokenGap
    <3>1. CASE i = n
      BY <1>4, <2>0, <2>1, <2>2, <2>3, <2>5, <3>1
    <3>2. CASE i # n
      <4>1. i \in 1 .. n - 1 /\ i + 1 \in 1 .. n
        BY <2>0, <3>2
      <4> QED BY <2>1, <2>4, <4>1
    <3> QED BY <3>1, <3>2
  <2>7. \A i \in 1 .. Len(issues') - 1 : issues'[i + 1] - issues'[i] >= TokenGap'
    <3>1. Len(issues') - 1 = n
      BY <2>0, <2>1
    <3> QED BY <2>5, <2>6, <3>1
  <2>8. NoToken \notin Senders
    BY PushAssumption
  <2> QED BY <1>1, <1>4, <2>0, <2>1, <2>7, <2>8 DEF CacheKept
<1>8. Sharing'
  BY <1>0, <1>5, <1>6, <1>7 DEF Sharing, Prompt
<1> QED BY <1>0, <1>1, <1>2, <1>3, <1>8 DEF PushInv, PushTypes, GoesOnward

(* No token is to be had. *)
LEMMA GiveUpStep ==
    ASSUME PushInv, NEW s \in Senders, GiveUp(s), sender[s].pc \in {"exchange", "issued"},
           UNCHANGED <<service, registered, reached, lateUse, pushTime>>
    PROVE  PushInv'
<1>0. PushTypes /\ Reporting /\ Sharing
  BY DEF PushInv
<1>1. tokenMu' = NoToken /\ cached' = cached /\ issues' = issues /\ Failed(s)
  BY DEF GiveUp
<1>2. sender[s].left # << >>
  BY <1>0 DEF Reporting, Lengths
<1>3. /\ Reporting' /\ sender' \in [Senders -> SenderStates] /\ \A t \in Senders \ {s} : sender'[t] = sender[t]
      /\ sender'[s].pc \in {"idle", "next"}
  BY <1>0, <1>1, <1>2, FailedReports DEF Onward
<1>4. Sharing'
  BY <1>0, <1>1, <1>3, AtRestShares
<1> QED BY <1>0, <1>1, <1>3, <1>4 DEF PushInv, PushTypes

(* A token is issued and kept, or the attempt fails. *)
LEMMA PushTokenStep ==
    ASSUME PushInv, NEW s \in Senders, NEW ok \in BOOLEAN,
           TokenIssued(s) \/ GenerateToken(s, ok) \/ ExchangeToken(s, ok)
    PROVE  PushInv'
<1>0. PushTypes /\ Reporting /\ Sharing /\ TokenHeld(s, sender[s]) /\ sender[s] \in SenderStates /\ pushTime \in Nat
  BY DEF PushInv, Sharing, PushTypes
<1>1. CASE TokenIssued(s)
  <2> DEFINE token == [issued |-> pushTime, taken |-> pushTime]
  <2>1. /\ sender[s].pc = "exchange" /\ sender' = [sender EXCEPT ![s].pc = "issued", ![s].token = token]
        /\ UNCHANGED <<service, cached, tokenMu, registered, reached, lateUse, issues, pushTime>>
    BY <1>1 DEF TokenIssued
  <2>2. token \in PushTokens /\ token.issued = pushTime
    BY <1>0 DEF PushTokens
  <2> HIDE DEF token
  <2>3. sender' \in [Senders -> SenderStates]
    BY <1>0, <2>1, <2>2 DEF PushTypes, SenderStates, SenderPcs
  <2>4. GoesOnward(s) /\ sender'[s].pc = "issued" /\ sender'[s].since = sender[s].since /\ sender'[s].token = token
    BY <1>0, <2>1, <2>3 DEF PushTypes, SenderStates, GoesOnward, Onward
  <2>5. Reporting'
    BY <1>0, <2>1, <2>4, OnwardReports DEF Onward
  <2>6. TokenHeld(s, sender[s])'
    BY <1>0, <2>1, <2>2, <2>4 DEF TokenHeld
  <2>7. Sharing'
    BY <1>0, <2>1, <2>4, <2>6, OnwardShares DEF GoesOnward, Sharing
  <2> QED BY <1>0, <2>1, <2>3, <2>5, <2>7 DEF PushInv, PushTypes
<1>2. CASE GenerateToken(s, ok)
  <2> DEFINE token == [issued |-> pushTime, taken |-> pushTime]
  <2>1. /\ sender[s].pc = "exchange" /\ service = "apns" /\ IF ok THEN KeepToken(s, token) ELSE GiveUp(s)
        /\ UNCHANGED <<service, registered, reached, lateUse, pushTime>>
    BY <1>2 DEF GenerateToken
  <2>2. token \in PushTokens /\ token.issued = pushTime /\ token.taken = pushTime
    BY <1>0 DEF PushTokens
  <2> HIDE DEF token
  <2>3. pushTime <= token.issued + (IF service = "apns" THEN 0 ELSE HTTPTimeout)
    BY <1>0, <2>1, <2>2
  <2> QED BY <2>1, <2>2, <2>3, KeepTokenStep, GiveUpStep
<1>3. CASE ExchangeToken(s, ok)
  <2> DEFINE token == [sender[s].token EXCEPT !.taken = pushTime]
  <2>1. /\ service = "fcm" /\ sender[s].pc \in {"exchange", "issued"}
        /\ UNCHANGED <<service, registered, reached, lateUse, pushTime>>
    BY <1>3 DEF ExchangeToken
  <2>2. CASE ok
    <3>1. sender[s].pc = "issued" /\ KeepToken(s, token)
      BY <1>3, <2>2 DEF ExchangeToken
    <3>2. sender[s].token \in PushTokens /\ sender[s].since <= sender[s].token.issued
      BY <1>0, <3>1 DEF TokenHeld
    <3>3. token \in PushTokens /\ token.issued = sender[s].token.issued /\ token.taken = pushTime
      BY <1>0, <3>2 DEF PushTokens
    <3>4. pushTime <= sender[s].since + HTTPTimeout /\ sender[s].since \in Nat
      BY <1>0, <3>1 DEF TokenHeld, SenderStates
    <3> HIDE DEF token
    <3>5. token.issued \in Nat
      BY <3>3 DEF PushTokens
    <3>6. pushTime <= token.issued + HTTPTimeout
      BY <1>0, <3>2, <3>3, <3>4, <3>5, PushAssumption
    <3>7. pushTime <= token.issued + (IF service = "apns" THEN 0 ELSE HTTPTimeout)
      BY <2>1, <3>6
    <3> QED BY <2>1, <3>1, <3>3, <3>7, KeepTokenStep
  <2>3. CASE ~ok
    BY <1>3, <2>1, <2>3, GiveUpStep DEF ExchangeToken
  <2> QED BY <2>2, <2>3
<1> QED BY <1>1, <1>2, <1>3

(* The request arrives, or is lost. *)
LEMMA PostStep ==
    ASSUME PushInv, NEW s \in Senders, PostArrives(s) \/ Lost(s) PROVE PushInv'
<1>0. PushTypes /\ Reporting /\ Sharing /\ TokenHeld(s, sender[s]) /\ sender[s] \in SenderStates /\ pushTime \in Nat
  BY DEF PushInv, Sharing, PushTypes
<1>1. CASE PostArrives(s)
  <2>1. /\ sender[s].pc = "post" /\ sender' = [sender EXCEPT ![s].pc = "arrived"]
        /\ lateUse' = (lateUse \/ (service \in {"apns", "fcm"} /\ pushTime >= sender[s].token.issued + PushLifetime))
        /\ UNCHANGED <<service, cached, tokenMu, registered, reached, issues, pushTime>>
    BY <1>1 DEF PostArrives
  <2>2. GoesOnward(s) /\ sender'[s].pc = "arrived" /\ sender'[s].since = sender[s].since
    BY <1>0, <2>1, PcMoves DEF Onward
  <2>3. Reporting'
    BY <1>0, <2>1, <2>2, OnwardReports DEF Onward
  <2>4. TokenHeld(s, sender[s])'
    BY <1>0, <2>1, <2>2 DEF TokenHeld
  <2>5. ASSUME Prompt PROVE ~lateUse'
    <3>1. ~lateUse
      BY <1>0, <2>5 DEF Sharing
    <3>2. ASSUME service \in {"apns", "fcm"} PROVE ~(pushTime >= sender[s].token.issued + PushLifetime)
      <4>1. /\ sender[s].token \in PushTokens /\ sender[s].since + HTTPTimeout < sender[s].token.issued + PushLifetime
            /\ pushTime <= sender[s].since + HTTPTimeout /\ sender[s].since \in Nat
        BY <1>0, <2>1, <2>5, <3>2 DEF TokenHeld, SenderStates
      <4>2. sender[s].token.issued \in Nat
        BY <4>1 DEF PushTokens
      <4> QED BY <1>0, <4>1, <4>2, PushAssumption
    <3> QED BY <2>1, <3>1, <3>2
  <2>6. Sharing'
    BY <1>0, <2>1, <2>2, <2>4, <2>5, OnwardShares DEF GoesOnward
  <2> QED BY <1>0, <2>1, <2>2, <2>3, <2>6 DEF PushInv, PushTypes, GoesOnward
<1>2. CASE Lost(s)
  <2>1. /\ sender[s].pc \in {"post", "arrived"} /\ Failed(s)
        /\ UNCHANGED <<service, cached, tokenMu, registered, reached, lateUse, issues, pushTime>>
    BY <1>2 DEF Lost
  <2>2. sender[s].left # << >>
    BY <1>0, <2>1 DEF Reporting, Lengths
  <2>3. /\ Reporting' /\ sender' \in [Senders -> SenderStates] /\ \A t \in Senders \ {s} : sender'[t] = sender[t]
        /\ sender'[s].pc \in {"idle", "next"}
    BY <1>0, <2>1, <2>2, FailedReports DEF Onward
  <2>4. Sharing'
    BY <1>0, <2>1, <2>3, AtRestShares
  <2> QED BY <1>0, <2>1, <2>3, <2>4 DEF PushInv, PushTypes
<1> QED BY <1>1, <1>2

(* What a service may answer is a reply. *)
LEMMA AnswersAreReplies ==
    ASSUME service \in Services, NEW d, NEW a \in AnswersFor(d)
    PROVE  a \in Replies /\ (d \in registered => ~Worn(a) \/ a = NotForTopic)
<1>1. Family \in {"apns", "fcm", "webpush"}
  BY DEF Family, Services
<1>2. OtherApp[Family] \subseteq {NotForTopic}
  BY <1>1 DEF OtherApp
<1>3. CASE a \in OtherApp[Family]
  BY <1>2, <1>3 DEF Replies
<1>4. CASE a \notin OtherApp[Family]
  <2>1. a \in GoodAnswers[Family] \cup GoneAnswers[Family] \cup BusyAnswers[Family]
    BY <1>4 DEF AnswersFor
  <2>2. d \in registered => a \in GoodAnswers[Family] \cup BusyAnswers[Family]
    BY <1>4 DEF AnswersFor
  <2> QED BY <1>1, <2>1, <2>2, KnownKeeps DEF Replies
<1> QED BY <1>3, <1>4

(* The service answers a send. *)
LEMMA PushAnsweredStep ==
    ASSUME PushInv, NEW s \in Senders, NEW a, NEW garbled \in BOOLEAN, PushAnswered(s, a, garbled)
    PROVE  PushInv'
<1>0. PushTypes /\ Reporting /\ Sharing /\ sender[s] \in SenderStates /\ service \in Services
  BY DEF PushInv, Sharing, PushTypes
<1> DEFINE d == Head(sender[s].left)
           good == a \in GoodAnswers[Family]
           r == Result(d, IF garbled THEN NoAnswer ELSE a, garbled \/ ~good)
           rs == <<r>>
<1>1. /\ sender[s].pc = "arrived" /\ sender[s].kind = "send" /\ a \in AnswersFor(d)
      /\ garbled => good
      /\ reached' = IF good THEN reached \cup {<<s, d>>} ELSE reached
      /\ Ended(s, rs)
      /\ UNCHANGED <<service, cached, tokenMu, registered, lateUse, issues, pushTime>>
  BY DEF PushAnswered
<1>2. sender[s].left \in Seq(Targets) /\ sender[s].left # << >>
  BY <1>0, <1>1 DEF Reporting, Lengths, SenderStates
<1>3. d \in Targets
  BY <1>2, HeadTailProperties
<1>4. /\ r \in Outcomes /\ r.to = d /\ (r.error <=> garbled \/ ~good)
      /\ d \in registered => ~Worn(r.answer) \/ r.answer = NotForTopic
  <2>1. a \in Replies /\ (d \in registered => ~Worn(a) \/ a = NotForTopic) /\ NoAnswer \in Replies /\ ~Worn(NoAnswer)
    BY <1>0, <1>1, AnswersAreReplies, NoAnswerKeeps DEF Replies
  <2> HIDE DEF d, good
  <2>2. r.to = d /\ (r.error <=> garbled \/ ~good) /\ r.answer = IF garbled THEN NoAnswer ELSE a
    BY DEF Result
  <2>3. r \in Outcomes
    BY <1>3, <2>1 DEF Result, Outcomes
  <2> HIDE DEF r
  <2> QED BY <2>1, <2>2, <2>3
<1> HIDE DEF r
<1>5. rs \in Seq(Outcomes) /\ Len(rs) = 1 /\ \A i \in DOMAIN rs : rs[i] = r
  BY <1>4
<1> HIDE DEF rs, d, good
<1>6. sender' \in [Senders -> SenderStates]
  BY <1>0, <1>1, <1>5, EndedTypes
<1>7. (\A t \in Senders \ {s} : sender'[t] = sender[t]) /\ sender'[s].pc = "next"
  BY <1>0, <1>1, <1>5, EndedMoves
<1>8. reached \subseteq reached' /\ (good => <<s, d>> \in reached')
  BY <1>1
<1>9. \A i \in DOMAIN rs : /\ sender[s].kind = "send" /\ ~rs[i].error => <<s, rs[i].to>> \in reached'
                           /\ Worn(rs[i].answer) => rs[i].to \notin registered \/ rs[i].answer = NotForTopic
  BY <1>4, <1>5, <1>8
<1>10. Reporting'
  BY <1>0, <1>1, <1>2, <1>5, <1>8, <1>9, EndedReports DEF Onward
<1>11. Sharing'
  BY <1>0, <1>1, <1>7, AtRestShares
<1> QED BY <1>0, <1>1, <1>6, <1>10, <1>11 DEF PushInv, PushTypes

(* The service answers for a whole topic request. *)
LEMMA TopicAnsweredStep == ASSUME PushInv, NEW s \in Senders, TopicAnswered(s) PROVE PushInv'
<1>0. PushTypes /\ Reporting /\ Sharing /\ sender[s] \in SenderStates /\ service \in Services
  BY DEF PushInv, Sharing, PushTypes
<1> DEFINE l == sender[s].left
           rs == [i \in DOMAIN l |-> Result(l[i], NoAnswer, l[i] \notin registered)]
<1>1. /\ sender[s].pc = "arrived" /\ sender[s].kind = "topic" /\ Ended(s, rs)
      /\ UNCHANGED <<service, cached, tokenMu, registered, reached, lateUse, issues, pushTime>>
  BY DEF TopicAnswered
<1>2. l \in Seq(Targets) /\ l # << >>
  BY <1>0, <1>1 DEF Reporting, Lengths, SenderStates
<1>3. DOMAIN l = 1 .. Len(l) /\ Len(l) \in Nat /\ \A i \in DOMAIN l : l[i] \in Targets
  BY <1>2
<1> HIDE DEF l
<1>4. \A i \in DOMAIN l : rs[i] \in Outcomes /\ rs[i].answer = NoAnswer
  BY <1>3 DEF Result, Outcomes, Replies
<1>5. rs \in Seq(Outcomes) /\ Len(rs) = Len(l) /\ DOMAIN rs = DOMAIN l
  <2>1. DOMAIN rs = 1 .. Len(l)
    BY <1>3
  <2>2. rs \in [1 .. Len(l) -> Outcomes]
    BY <1>3, <1>4
  <2> HIDE DEF rs
  <2> QED BY <1>3, <2>1, <2>2, LenProperties
<1> HIDE DEF rs
<1>6. sender' \in [Senders -> SenderStates]
  BY <1>0, <1>1, <1>5, EndedTypes
<1>7. (\A t \in Senders \ {s} : sender'[t] = sender[t]) /\ sender'[s].pc = "idle"
  BY <1>0, <1>1, <1>5, EndedMoves
<1>8. \A i \in DOMAIN rs : /\ sender[s].kind = "send" /\ ~rs[i].error => <<s, rs[i].to>> \in reached'
                           /\ Worn(rs[i].answer) => rs[i].to \notin registered \/ rs[i].answer = NotForTopic
  BY <1>0, <1>1, <1>4, <1>5, NoAnswerKeeps
<1>9. Reporting'
  BY <1>0, <1>1, <1>2, <1>5, <1>8, EndedReports DEF Onward, l
<1>10. Sharing'
  BY <1>0, <1>1, <1>7, AtRestShares
<1> QED BY <1>0, <1>1, <1>6, <1>9, <1>10 DEF PushInv, PushTypes

(* The loop over the targets goes on, or is done. *)
LEMMA NextTargetStep == ASSUME PushInv, NEW s \in Senders, NextTarget(s) PROVE PushInv'
<1>0. /\ PushTypes /\ Reporting /\ Sharing /\ sender[s] \in SenderStates /\ service \in Services /\ pushTime \in Nat
      /\ Lengths(sender[s]) /\ TrueSoFar(s, sender[s])
  BY DEF PushInv, Sharing, PushTypes, Reporting
<1>1. sender[s].pc = "next" /\ UNCHANGED <<service, cached, tokenMu, registered, reached, lateUse, issues, pushTime>>
  BY DEF NextTarget
<1>2. sender[s].kind = "send"
  BY <1>0, <1>1 DEF Lengths, SenderStates
<1>3. CASE sender[s].left = << >>
  <2>1. sender' = [sender EXCEPT ![s].pc = "idle"]
    BY <1>3 DEF NextTarget
  <2>2. sender' \in [Senders -> SenderStates]
    BY <1>0, <2>1 DEF PushTypes, SenderStates, SenderPcs
  <2>3. /\ \A t \in Senders \ {s} : sender'[t] = sender[t]
        /\ sender'[s].pc = "idle" /\ sender'[s].kind = "send" /\ sender'[s].targets = sender[s].targets
        /\ sender'[s].left = sender[s].left /\ sender'[s].results = sender[s].results
    BY <1>0, <1>2, <2>1 DEF PushTypes, SenderStates
  <2>4. Lengths(sender'[s])
    <3>1. Len(sender[s].left) = 0
      BY <1>3
    <3> QED BY <1>0, <1>2, <2>3, <3>1 DEF Lengths
  <2>5. TrueSoFar(s, sender[s])'
    BY <1>0, <1>1, <1>2, <2>3 DEF TrueSoFar, Worn, Family
  <2>6. ASSUME NEW t \in Senders \ {s} PROVE Lengths(sender'[t]) /\ TrueSoFar(t, sender[t])'
    <3>1. sender'[t] = sender[t] /\ Lengths(sender[t]) /\ TrueSoFar(t, sender[t])
      BY <1>0, <2>3 DEF Reporting
    <3> QED BY <1>1, <3>1 DEF TrueSoFar, Worn, Family
  <2>7. Reporting'
    BY <2>4, <2>5, <2>6 DEF Reporting
  <2>8. Sharing'
    BY <1>0, <1>1, <2>3, AtRestShares
  <2> QED BY <1>0, <1>1, <2>2, <2>7, <2>8 DEF PushInv, PushTypes
<1>6. CASE sender[s].left # << >> /\ Head(sender[s].left) = Nil /\ Family = "apns"
  <2>1. sender' = [sender EXCEPT ![s].pc = "panicked"]
    BY <1>6 DEF NextTarget
  <2>2. sender' \in [Senders -> SenderStates]
    BY <1>0, <2>1 DEF PushTypes, SenderStates, SenderPcs
  <2>3. /\ \A t \in Senders \ {s} : sender'[t] = sender[t]
        /\ sender'[s].pc = "panicked" /\ sender'[s].kind = "send" /\ sender'[s].targets = sender[s].targets
        /\ sender'[s].left = sender[s].left /\ sender'[s].results = sender[s].results
    BY <1>0, <1>2, <2>1 DEF PushTypes, SenderStates
  <2>4. Lengths(sender'[s])
    BY <1>0, <1>2, <1>6, <2>3 DEF Lengths
  <2>5. TrueSoFar(s, sender[s])'
    BY <1>0, <1>1, <1>2, <1>6, <2>3 DEF TrueSoFar, Worn, Family
  <2>6. ASSUME NEW t \in Senders \ {s} PROVE Lengths(sender'[t]) /\ TrueSoFar(t, sender[t])'
    <3>1. sender'[t] = sender[t] /\ Lengths(sender[t]) /\ TrueSoFar(t, sender[t])
      BY <1>0, <2>3 DEF Reporting
    <3> QED BY <1>1, <3>1 DEF TrueSoFar, Worn, Family
  <2>7. Reporting'
    BY <2>4, <2>5, <2>6 DEF Reporting
  <2>8. Sharing'
    BY <1>0, <1>1, <2>3, AtRestShares
  <2> QED BY <1>0, <1>1, <2>2, <2>7, <2>8 DEF PushInv, PushTypes
<1>4. CASE sender[s].left # << >> /\ Head(sender[s].left) \in {Blank, Nil} /\ ~(Head(sender[s].left) = Nil /\ Family = "apns")
  <2>1. Failed(s)
    BY <1>4 DEF NextTarget
  <2>2. /\ Reporting' /\ sender' \in [Senders -> SenderStates] /\ \A t \in Senders \ {s} : sender'[t] = sender[t]
        /\ sender'[s].pc \in {"idle", "next"}
    BY <1>0, <1>1, <1>4, <2>1, FailedReports
  <2>3. Sharing'
    BY <1>0, <1>1, <2>2, AtRestShares
  <2> QED BY <1>0, <1>1, <2>2, <2>3 DEF PushInv, PushTypes
<1>5. CASE sender[s].left # << >> /\ Head(sender[s].left) \notin {Blank, Nil}
  <2> DEFINE p == IF service \in {"apns", "fcm"} THEN "token" ELSE "post"
  <2>1. sender' = [sender EXCEPT ![s].pc = p, ![s].since = pushTime, ![s].token = VapidToken]
    BY <1>5 DEF NextTarget
  <2>2. VapidToken \in PushTokens \cup {NoToken} /\ p \in Onward /\ p \in SenderPcs
    BY <1>0 DEF VapidToken, PushTokens, Onward, SenderPcs
  <2>a. (service \in {"apns", "fcm"} => p = "token") /\ p \in {"token", "post"}
    OBVIOUS
  <2> HIDE DEF p
  <2>3. sender' \in [Senders -> SenderStates]
    BY <1>0, <2>1, <2>2 DEF PushTypes, SenderStates
  <2>4. GoesOnward(s) /\ sender'[s].pc = p /\ sender'[s].since = pushTime
    BY <1>0, <2>1, <2>2, <2>3 DEF PushTypes, SenderStates, GoesOnward
  <2>5. Reporting'
    BY <1>0, <1>1, <1>2, <1>5, <2>4, OnwardReports
  <2>6. TokenHeld(s, sender[s])'
    <3>1. sender'[s].since <= pushTime' /\ pushTime' <= sender'[s].since + HTTPTimeout
      BY <1>0, <1>1, <2>4, PushAssumption
    <3> QED BY <1>1, <2>a, <2>4, <3>1 DEF TokenHeld
  <2>7. Sharing'
    BY <1>0, <1>1, <2>4, <2>6, OnwardShares DEF GoesOnward, Sharing
  <2> QED BY <1>0, <1>1, <2>3, <2>5, <2>7 DEF PushInv, PushTypes
<1> QED BY <1>3, <1>4, <1>5, <1>6

(* A new send or topic request. *)
LEMMA NewBatchStep ==
    ASSUME PushInv, NEW s \in Senders, NEW b \in Batches, SendMultiple(s, b) \/ ManageTopic(s, b)
    PROVE  PushInv'
<1>0. /\ PushTypes /\ Reporting /\ Sharing
  BY DEF PushInv
<1>1. b \in Seq(Targets) /\ b # << >> /\ UNCHANGED <<service, cached, tokenMu, registered, reached, lateUse, issues, pushTime>>
  BY DEF SendMultiple, ManageTopic, Batches, Targets
<1>2. IdleSender \in SenderStates /\ IdleSender.kind = "send" /\ IdleSender.results = << >>
  BY DEF IdleSender, SenderStates, SenderPcs
<1> DEFINE q == sender'[s]
<1>3. /\ sender' \in [Senders -> SenderStates] /\ \A t \in Senders \ {s} : sender'[t] = sender[t]
      /\ (q.pc = "next" /\ q.kind = "send") \/ (q.pc = "token" /\ q.kind = "topic")
      /\ q.targets = b /\ q.left = b /\ q.results = << >>
  <2>1. CASE SendMultiple(s, b)
    <3> DEFINE new == [IdleSender EXCEPT !.pc = "next", !.targets = b, !.left = b]
    <3>1. new \in SenderStates
      BY <1>1, <1>2 DEF SenderStates, SenderPcs
    <3>2. new.pc = "next" /\ new.kind = "send" /\ new.targets = b /\ new.left = b /\ new.results = << >>
      BY <1>2 DEF SenderStates
    <3>3. sender' = [sender EXCEPT ![s] = new]
      BY <2>1 DEF SendMultiple
    <3> HIDE DEF new
    <3> QED BY <1>0, <3>1, <3>2, <3>3 DEF PushTypes
  <2>2. CASE ManageTopic(s, b)
    <3> DEFINE new == [IdleSender EXCEPT !.pc = "token", !.kind = "topic", !.targets = b, !.left = b]
    <3>1. new \in SenderStates
      BY <1>1, <1>2 DEF SenderStates, SenderPcs
    <3>2. new.pc = "token" /\ new.kind = "topic" /\ new.targets = b /\ new.left = b /\ new.results = << >>
      BY <1>2 DEF SenderStates
    <3>3. sender' = [sender EXCEPT ![s] = new]
      BY <2>2 DEF ManageTopic
    <3> HIDE DEF new
    <3> QED BY <1>0, <3>1, <3>2, <3>3 DEF PushTypes
  <2> QED BY <2>1, <2>2
<1> HIDE DEF q
<1>6. Lengths(q)
  <2>1. Len(q.results) = 0 /\ Len(b) \in Nat
    BY <1>1, <1>3, LenProperties
  <2>2. CASE q.kind = "send"
    <3>1. Len(q.results) + Len(q.left) = Len(q.targets)
      BY <1>3, <2>1
    <3> QED BY <1>1, <1>3, <2>2, <3>1 DEF Lengths
  <2>3. CASE q.kind = "topic"
    BY <1>1, <1>3, <2>1, <2>3 DEF Lengths
  <2> QED BY <1>3, <2>2, <2>3
<1>7. ASSUME NEW t \in Senders PROVE Lengths(sender'[t]) /\ TrueSoFar(t, sender[t])'
  <2>1. CASE t = s
    BY <1>3, <1>6, <2>1 DEF TrueSoFar, q
  <2>2. CASE t # s
    <3>1. sender'[t] = sender[t] /\ Lengths(sender[t]) /\ TrueSoFar(t, sender[t])
      BY <1>0, <1>3, <2>2 DEF Reporting
    <3> QED BY <1>1, <3>1 DEF TrueSoFar, Worn, Family
  <2> QED BY <2>1, <2>2
<1>8. Reporting'
  BY <1>7 DEF Reporting
<1>9. Sharing'
  BY <1>0, <1>1, <1>3, AtRestShares DEF q
<1> QED BY <1>0, <1>1, <1>3, <1>8, <1>9 DEF PushInv, PushTypes

(* A device goes, or time passes. *)
LEMMA WorldStep == ASSUME PushInv, PushTick \/ \E d \in Devices : Unregister(d) PROVE PushInv'
<1>0. PushTypes /\ Reporting /\ Sharing /\ pushTime \in Nat
  BY DEF PushInv, PushTypes
<1>1. /\ UNCHANGED <<service, cached, tokenMu, sender, reached, lateUse, issues>> /\ registered' \subseteq registered
      /\ pushTime' = pushTime \/ (pushTime' = pushTime + 1 /\ \A s \in Senders : UnderWay(s) => pushTime - sender[s].since < HTTPTimeout)
  BY DEF PushTick, Unregister
<1>2. PushTypes'
  BY <1>0, <1>1 DEF PushTypes
<1>3. Reporting'
  <2>1. ASSUME NEW s \in Senders PROVE Lengths(sender'[s]) /\ TrueSoFar(s, sender[s])'
    <3>1. Lengths(sender[s]) /\ TrueSoFar(s, sender[s])
      BY <1>0 DEF Reporting
    <3> QED BY <1>1, <3>1 DEF TrueSoFar, Worn, Family
  <2> QED BY <2>1 DEF Reporting
<1>4. ASSUME NEW s \in Senders PROVE TokenHeld(s, sender[s])'
  <2>1. TokenHeld(s, sender[s]) /\ sender[s].since \in Nat
    BY <1>0 DEF Sharing, PushTypes, SenderStates
  <2>2. UnderWay(s) => sender[s].since <= pushTime' /\ pushTime' <= sender[s].since + HTTPTimeout
    BY <1>0, <1>1, <2>1, PushAssumption DEF TokenHeld, UnderWay
  <2> QED BY <1>1, <2>1, <2>2 DEF TokenHeld, UnderWay, Prompt
<1>5. CacheKept'
  <2>1. CacheKept
    BY <1>0 DEF Sharing
  <2>2. TokenGap' = TokenGap /\ TokenGap \in Int
    BY <1>1, PushAssumption DEF TokenGap
  <2>3. tokenMu \in Senders /\ issues # << >> => pushTime' >= cached.taken + TokenGap
    <3>1. tokenMu \in Senders /\ issues # << >> => pushTime >= cached.taken + TokenGap /\ cached.taken \in Nat
      BY <2>1 DEF CacheKept, PushTokens
    <3> QED BY <1>0, <1>1, <2>2, <3>1
  <2> QED BY <1>1, <2>1, <2>2, <2>3 DEF CacheKept
<1>6. Sharing'
  BY <1>0, <1>1, <1>4, <1>5 DEF Sharing, Prompt
<1> QED BY <1>2, <1>3, <1>6 DEF PushInv

(* Every step of the push clients keeps their invariant. *)
LEMMA PushStep == PushInv /\ [PushNext]_pushVars => PushInv'
<1> SUFFICES ASSUME PushInv, [PushNext]_pushVars PROVE PushInv'
  OBVIOUS
<1>1. ASSUME NEW s \in Senders, NEW b \in Batches, SendMultiple(s, b) \/ ManageTopic(s, b) PROVE PushInv'
  BY <1>1, NewBatchStep
<1>2. ASSUME NEW s \in Senders, NextTarget(s) \/ ReadToken(s) \/ LockToken(s) PROVE PushInv'
  BY <1>2, NextTargetStep, ReadTokenStep, LockTokenStep
<1>3. ASSUME NEW s \in Senders, NEW ok \in BOOLEAN, TokenIssued(s) \/ GenerateToken(s, ok) \/ ExchangeToken(s, ok)
      PROVE  PushInv'
  BY <1>3, PushTokenStep
<1>4. ASSUME NEW s \in Senders, PostArrives(s) \/ Lost(s) \/ TopicAnswered(s) PROVE PushInv'
  BY <1>4, PostStep, TopicAnsweredStep
<1>5. ASSUME NEW s \in Senders, NEW a, NEW g \in BOOLEAN, PushAnswered(s, a, g) PROVE PushInv'
  BY <1>5, PushAnsweredStep
<1>6. CASE PushTick \/ \E d \in Devices : Unregister(d)
  BY <1>6, WorldStep
<1>7. CASE UNCHANGED pushVars
  <2>1. UNCHANGED <<service, cached, tokenMu, sender, registered, reached, lateUse, issues, sends, pushTime>>
    BY <1>7 DEF pushVars
  <2>2. PushTypes'
    BY <2>1 DEF PushInv, PushTypes
  <2>3. Reporting'
    BY <2>1 DEF PushInv, Reporting, TrueSoFar, Worn, Family
  <2>4. Sharing'
    BY <2>1 DEF PushInv, Sharing, CacheKept, TokenHeld, TokenGap, Prompt
  <2> QED BY <2>2, <2>3, <2>4 DEF PushInv
<1>8. CASE PushNext
  <2>1. ASSUME NEW s \in Senders, TokenIssued(s) PROVE PushInv'
    BY <2>1, <1>3
  <2>2. TokenLists \subseteq Batches
    BY DEF TokenLists
  <2> QED BY <1>1, <1>2, <1>3, <1>4, <1>5, <1>6, <1>8, <2>1, <2>2 DEF PushNext
<1> QED BY <1>7, <1>8

(* What is dropped has such an answer, and is not what is tried again. *)
LEMMA DropListWorn ==
    ASSUME NEW rs, NEW x \in DropList(rs) PROVE \E r \in rs : x = r.to /\ Worn(r.answer)
<1>1. CASE Family = "apns"
  BY <1>1 DEF DropList, InvalidTokens, Worn
<1>2. CASE Family # "apns" /\ Family = "fcm"
  BY <1>2 DEF DropList, UnregisteredTokens, Worn
<1>3. CASE Family # "apns" /\ Family # "fcm"
  BY <1>3 DEF DropList, ExpiredSubscriptions, Worn
<1> QED BY <1>1, <1>2, <1>3

(* A target that is to be dropped is never to be tried again. *)
LEMMA WornIsFinal ==
    ASSUME NEW r, Worn(r.answer) PROVE r.to \notin RetryList({r})
<1>1. CASE Family = "apns"
  BY <1>1 DEF RetryList, apnsIsRetryable, Worn
<1>2. CASE Family # "apns" /\ Family = "fcm"
  BY <1>2 DEF RetryList, fcmIsRetryable, Worn
<1>3. CASE Family # "apns" /\ Family # "fcm"
  <2>1. r.answer.status \in {404, 410}
    BY <1>3 DEF Worn
  <2>2. ~(r.answer.status \in {429, 500, 502, 503, 504})
    <3>1. \A x : x \in {404, 410} => ~(x \in {429, 500, 502, 503, 504})
      OBVIOUS
    <3> QED BY <2>1, <3>1
  <2> QED BY <1>3, <2>2 DEF RetryList, notifyIsRetryable
<1> QED BY <1>1, <1>2, <1>3

(* The invariant is what the push clients promise. *)
LEMMA PushHolds == PushInv => PushSound
<1> SUFFICES ASSUME PushInv PROVE PushSound
  OBVIOUS
<1>1. TokensAreShared
  BY DEF PushInv, Sharing, CacheKept, TokenGap, TokensAreShared
<1>2. ASSUME NEW s \in Senders, sender[s].pc = "idle"
      PROVE  /\ sender[s].results # << >> => SuccessCount(s) + FailureCount(s) = Len(sender[s].targets)
             /\ sender[s].kind = "send" => \A r \in ResultSet(s) : ~r.error => <<s, r.to>> \in reached
             /\ sender[s].kind = "send" /\ sender[s].targets # << >> => sender[s].results # << >>
             /\ \A r \in ResultSet(s) : r.to \in DropList({r}) => r.to \notin registered \/ r.answer = NotForTopic
             /\ \A r \in ResultSet(s) : ~(r.to \in DropList({r}) /\ r.to \in RetryList({r}))
  <2>1. /\ sender[s].results \in Seq(Outcomes) /\ sender[s].targets \in Seq(Targets) /\ sender[s].left \in Seq(Targets)
        /\ Lengths(sender[s]) /\ TrueSoFar(s, sender[s]) /\ sender[s].kind \in {"send", "topic"}
    BY DEF PushInv, PushTypes, SenderStates, Reporting
  <2> DEFINE n == Len(sender[s].results)
  <2>2. n \in Nat /\ DOMAIN sender[s].results = 1 .. n /\ Len(sender[s].targets) \in Nat
    BY <2>1, LenProperties
  <2>3. sender[s].results # << >> => n # 0
    BY <2>1, EmptySeq
  <2>4. sender[s].targets # << >> => Len(sender[s].targets) # 0
    BY <2>1, EmptySeq
  <2>5. /\ n # 0 => n = Len(sender[s].targets)
        /\ sender[s].kind = "send" => n = Len(sender[s].targets)
    <3> DEFINE m == Len(sender[s].targets)
               l == Len(sender[s].left)
    <3>1. sender[s].kind = "send" => n + l = m /\ l = 0
      BY <1>2, <2>1 DEF Lengths
    <3>2. sender[s].kind = "topic" => n \in {0, m}
      BY <1>2, <2>1 DEF Lengths
    <3> HIDE DEF n, m, l
    <3>3. n # 0 => n = m
      BY <2>1, <2>2, <3>1, <3>2
    <3>4. sender[s].kind = "send" => n = m
      BY <2>2, <3>1
    <3> QED BY <3>3, <3>4 DEF m
  <2>7. SuccessCount(s) \in Nat
    <3>1. IsFiniteSet(1 .. n)
      BY <2>2, FS_Interval
    <3>2. {i \in DOMAIN sender[s].results : ~sender[s].results[i].error} \subseteq 1 .. n
      BY <2>2
    <3> QED BY <3>1, <3>2, FS_Subset, FS_CardinalityType DEF SuccessCount
  <2>8. SuccessCount(s) + FailureCount(s) = n
    BY <2>2, <2>7 DEF FailureCount
  <2>9. \A r \in ResultSet(s) : /\ sender[s].kind = "send" /\ ~r.error => <<s, r.to>> \in reached
                                /\ Worn(r.answer) => r.to \notin registered \/ r.answer = NotForTopic
    BY <2>1 DEF ResultSet, TrueSoFar
  <2>10. ASSUME NEW r \in ResultSet(s), r.to \in DropList({r}) PROVE r.to \notin registered \/ r.answer = NotForTopic
    <3>1. Worn(r.answer)
      BY <2>10, DropListWorn
    <3> QED BY <2>9, <3>1
  <2>11. ASSUME NEW r \in ResultSet(s), r.to \in DropList({r}), r.to \in RetryList({r}) PROVE FALSE
    <3>1. Worn(r.answer)
      BY <2>11, DropListWorn
    <3> QED BY <2>11, <3>1, WornIsFinal
  <2>12. n # 0 => sender[s].results # << >>
    OBVIOUS
  <2> HIDE DEF n
  <2> QED BY <2>2, <2>3, <2>4, <2>5, <2>8, <2>9, <2>10, <2>11, <2>12
<1>3. ASSUME NEW s \in Senders, sender[s].pc = "panicked"
      PROVE  Family = "apns" /\ sender[s].left # << >> /\ Head(sender[s].left) = Nil
  BY <1>3 DEF PushInv, Reporting, TrueSoFar
<1> QED BY <1>1, <1>2, <1>3 DEF PushSound, BatchesAreTrue

-----------------------------------------------------------------------------
(* A method of one request: until it is answered nothing has been gathered. *)
ClientsInv ==
    ~TwoRequests =>
        /\ held \in [{1} -> Nat] /\ page \in Nat /\ clientCall \in {"made", "asked", "ok", "error"}
        /\ clientCall \in {"made", "asked"} => asks = {1} /\ heard = << >> /\ gathered = 0
        /\ SuccessIsAnswered

(* Nothing has been asked yet. *)
LEMMA ClientsStart == ClientsInit \/ ClientIdle => ClientsInv
<1> SUFFICES ASSUME ClientsInit \/ ClientIdle, ~TwoRequests PROVE ClientsInv
  BY DEF ClientsInv
<1>1. held \in [{1} -> Nat] /\ page \in Nat
  <2>1. CASE ClientsInit
    <3>1. held \in [1 .. 1 -> 0 .. MaxItems] /\ page \in 1 .. MaxItems
      BY <2>1 DEF ClientsInit
    <3> QED BY <3>1, ClientsAssumption
  <2>2. CASE ClientIdle
    BY <2>2 DEF ClientIdle
  <2> QED BY <2>1, <2>2
<1>2. clientCall = "made" /\ asks = {1} /\ heard = << >> /\ gathered = 0
  BY <1>1 DEF ClientsInit, ClientIdle
<1> QED BY <1>1, <1>2 DEF ClientsInv, SuccessIsAnswered

(* Every step of a method keeps the invariant. *)
LEMMA ClientsStep == ClientsInv /\ [ClientsNext]_clientVars => ClientsInv'
<1> SUFFICES ASSUME ClientsInv, [ClientsNext]_clientVars, ~TwoRequests PROVE ClientsInv'
  BY DEF ClientsInv, ClientsNext, Ask, Cancel, Abandoned, Answered, TwoRequests, clientVars
<1>0. /\ held \in [{1} -> Nat] /\ page \in Nat /\ clientCall \in {"made", "asked", "ok", "error"}
      /\ clientCall \in {"made", "asked"} => asks = {1} /\ heard = << >> /\ gathered = 0
      /\ SuccessIsAnswered
  BY DEF ClientsInv
<1>1. held' = held /\ page' = page /\ method' = method /\ Op' = Op /\ ~TwoRequests'
  BY DEF ClientsNext, Ask, Cancel, Abandoned, Answered, TwoRequests, clientVars, Op
<1>2. CASE Ask \/ Cancel \/ Abandoned \/ UNCHANGED clientVars
  BY <1>0, <1>1, <1>2 DEF Ask, Cancel, Abandoned, clientVars, ClientsInv, SuccessIsAnswered
<1>3. ASSUME NEW a \in {"net", "status", "garbled", "errobj", "ok"}, Answered(a) PROVE ClientsInv'
  <2> DEFINE h == held[1]
             n == CASE a = "net" -> -1
                    [] a \in {"status", "garbled"} /\ TwoRequests -> 0
                    [] a = "status" -> -1
                    [] a = "garbled" /\ Op.shape # "posted" -> -1
                    [] a = "errobj" -> IF Op.shape = "inner" THEN 0 ELSE -1
                    [] OTHER -> Yields(h)
  <2>1. asks = {1} /\ heard = << >> /\ gathered = 0 /\ h \in Nat /\ Len(heard) = 0
    BY <1>0, <1>3 DEF Answered
  <2>2. held[Len(heard) + 1] = h
    BY <2>1
  <2>3. /\ heard' = Append(heard, a) /\ asks' = asks \ {Len(heard) + 1}
        /\ gathered' = IF n = -1 THEN gathered ELSE gathered + n
        /\ clientCall' = IF n = -1 THEN "error" ELSE IF asks' = {} THEN "ok" ELSE "asked"
        /\ a = "errobj" => method[1] = "moodle"
    BY <1>3, <2>2 DEF Answered
  <2>4. asks' = {} /\ heard' = <<a>>
    BY <2>1, <2>3
  <2>5. \/ n = -1
        \/ n = Yields(h) /\ (a = "ok" \/ (Op.shape = "posted" /\ a = "garbled"))
        \/ n = 0 /\ a = "errobj" /\ Op.shape = "inner"
    BY <1>3
  <2>6. Op.shape \in {"list", "wrapped", "inner", "mine"} =>
            Yields(h) \in Nat /\ Yields(h) <= h /\ (h <= page => Yields(h) = h)
    BY <1>0, <2>1 DEF Yields, Least
  <2>8. Op.shape = "first" => Yields(h) = IF h = 0 THEN -1 ELSE 1
    BY DEF Yields
  <2> HIDE DEF n, h
  <2>9. CASE n = -1
    BY <1>0, <1>1, <2>3, <2>9 DEF ClientsInv, SuccessIsAnswered
  <2>10. CASE n # -1
    <3>1. clientCall' = "ok" /\ gathered' = 0 + n
      BY <2>1, <2>3, <2>4, <2>10
    <3>2. heard' = <<"ok">> => a = "ok"
      BY <2>4
    <3>3. ASSUME heard' = <<"ok">>, Op.shape \in {"list", "wrapped", "inner", "mine"}
          PROVE  gathered' <= h /\ (h <= page => gathered' = h)
      <4>1. n = Yields(h)
        BY <2>5, <2>10, <3>2, <3>3
      <4> QED BY <2>6, <3>1, <3>3, <4>1
    <3>4. Op.shape = "first" => h > 0
      BY <2>1, <2>5, <2>8, <2>10
    <3>5. \/ heard' = <<"ok">>
          \/ Op.shape = "posted" /\ heard' = <<"garbled">>
          \/ Op.shape = "inner" /\ method[1] = "moodle" /\ heard' = <<"errobj">> /\ gathered' = 0
      BY <2>3, <2>4, <2>5, <2>10, <3>1
    <3>6. SuccessIsAnswered'
      BY <1>1, <3>3, <3>4, <3>5 DEF SuccessIsAnswered, h
    <3> QED BY <1>0, <1>1, <3>1, <3>6 DEF ClientsInv
  <2> QED BY <2>9, <2>10
<1> QED BY <1>2, <1>3 DEF ClientsNext

(* The invariant is what the method promises. *)
LEMMA ClientsHold == ClientsInv => SuccessIsAnswered
BY DEF ClientsInv, SuccessIsAnswered

-----------------------------------------------------------------------------
Records == AEvents \cup {Torn}
FileSets == [0 .. Rotation -> Seq(Nat)]

(* The files in order, and the newest record at the end of the current one. *)
Ordered(f, n) ==
    /\ \A i, j \in 0 .. Rotation : \A k \in DOMAIN f[i], l \in DOMAIN f[j] :
          i < j \/ (i = j /\ l < k) => f[j][l] < f[i][k]
    /\ \A i \in 0 .. Rotation : \A k \in DOMAIN f[i] : f[i][k] <= n
    /\ f[0] # << >> => f[0][Len(f[0])] = n

(* Where the files end in what has been written, as long as every rename works:
   file i holds the records after cut[i + 1] up to cut[i], and a rotated one is
   full or there is nothing older. *)
Run(a, b) == [k \in 1 .. b - a |-> a + k]
Cuts(f, n, cut) ==
    /\ cut \in [0 .. Rotation + 1 -> Nat] /\ cut[0] = n
    /\ \A i \in 0 .. Rotation : cut[i + 1] <= cut[i] /\ cut[i] <= n /\ f[i] = Run(cut[i + 1], cut[i])
    /\ \A i \in 1 .. Rotation : cut[i] > 0 => cut[i] - cut[i + 1] >= FileMax
HoldNewest(f, rs, mis) == Ordered(f, Len(rs)) /\ (~mis => \E cut : Cuts(f, Len(rs), cut))

(* A run of record numbers, one that is empty and one that grows. *)
LEMMA RunIs ==
    ASSUME NEW a \in Nat, NEW b \in Nat, a <= b
    PROVE  /\ Run(a, b) \in Seq(Nat) /\ Len(Run(a, b)) = b - a /\ DOMAIN Run(a, b) = 1 .. b - a
           /\ Run(a, a) = << >> /\ Append(Run(a, b), b + 1) = Run(a, b + 1)
<1>1. b - a \in Nat /\ a - a = 0 /\ (b + 1) - a = (b - a) + 1
  OBVIOUS
<1>2. Run(a, b) \in Seq(Nat) /\ Len(Run(a, b)) = b - a /\ DOMAIN Run(a, b) = 1 .. b - a
  <2>1. \A k \in 1 .. b - a : a + k \in Nat
    OBVIOUS
  <2> QED BY <1>1, <2>1 DEF Run
<1>3. Run(a, a) = << >>
  <2>1. Run(a, a) \in Seq(Nat) /\ Len(Run(a, a)) = 0
    BY <1>1 DEF Run
  <2> QED BY <2>1, EmptySeq
<1>4. Append(Run(a, b), b + 1) = Run(a, b + 1)
  <2> DEFINE p == Append(Run(a, b), b + 1)
             q == Run(a, b + 1)
             m == b - a
  <2>1. p \in Seq(Nat) /\ Len(p) = m + 1 /\ (\A k \in 1 .. m : p[k] = Run(a, b)[k]) /\ p[m + 1] = b + 1
    BY <1>2, AppendProperties
  <2>2. q \in Seq(Nat) /\ Len(q) = m + 1 /\ \A k \in 1 .. m + 1 : q[k] = a + k
    <3>1. \A k \in 1 .. (b + 1) - a : a + k \in Nat
      OBVIOUS
    <3> QED BY <1>1, <3>1 DEF Run
  <2>3. \A k \in 1 .. m : Run(a, b)[k] = a + k
    BY DEF Run
  <2>4. ASSUME NEW k \in 1 .. m + 1 PROVE p[k] = q[k]
    <3>1. CASE k = m + 1
      <4>1. a + k = b + 1
        BY <3>1
      <4> HIDE DEF p, q, m
      <4> QED BY <2>1, <2>2, <3>1, <4>1
    <3>2. CASE k # m + 1
      <4>1. k \in 1 .. m
        BY <1>1, <3>2
      <4> HIDE DEF p, q, m
      <4> QED BY <2>1, <2>2, <2>3, <4>1
    <3> QED BY <3>1, <3>2
  <2> HIDE DEF p, q, m
  <2>5. p = q
    BY <2>1, <2>2, <2>4, SeqEqual
  <2> QED BY <2>5 DEF p, q
<1> QED BY <1>2, <1>3, <1>4

(* Lengths of the files that hold the newest records. *)
LEMMA CutsSize ==
    ASSUME NEW f, NEW n \in Nat, NEW cut, Cuts(f, n, cut), NEW i \in 0 .. Rotation
    PROVE  /\ i \in 0 .. Rotation + 1 /\ i + 1 \in 0 .. Rotation + 1
           /\ cut[i] \in Nat /\ cut[i + 1] \in Nat /\ cut[i + 1] <= cut[i] /\ cut[i] <= n
           /\ f[i] \in Seq(Nat) /\ Len(f[i]) = cut[i] - cut[i + 1]
<1>1. i \in 0 .. Rotation + 1 /\ i + 1 \in 0 .. Rotation + 1
  BY AuditAssumption
<1>2. cut[i] \in Nat /\ cut[i + 1] \in Nat /\ cut[i + 1] <= cut[i] /\ cut[i] <= n /\ f[i] = Run(cut[i + 1], cut[i])
  BY <1>1 DEF Cuts
<1> QED BY <1>1, <1>2, RunIs

(* Where a file of a rotation comes from. *)
LEMMA RotateFrom ==
    ASSUME NEW f \in FileSets, NEW stuck
    PROVE  LET g == Rotate(f, stuck)
               moves(i) == i < Rotation /\ i \notin stuck /\ f[i] # << >>
           IN /\ g \in FileSets
              /\ \A i \in 0 .. Rotation : \/ i > 0 /\ moves(i - 1) /\ g[i] = f[i - 1]
                                          \/ ~(i > 0 /\ moves(i - 1)) /\ moves(i) /\ g[i] = << >>
                                          \/ ~(i > 0 /\ moves(i - 1)) /\ ~moves(i) /\ g[i] = f[i]
<1> DEFINE g == Rotate(f, stuck)
           moves(i) == i < Rotation /\ i \notin stuck /\ f[i] # << >>
           from(i) == IF i > 0 /\ moves(i - 1) THEN f[i - 1] ELSE IF moves(i) THEN << >> ELSE f[i]
<1>0. Rotation \in Nat /\ << >> \in Seq(Nat)
  BY AuditAssumption
<1>1. ASSUME NEW i \in 0 .. Rotation PROVE from(i) \in Seq(Nat)
  <2>1. i > 0 => i - 1 \in 0 .. Rotation
    BY <1>0
  <2>2. CASE i > 0 /\ moves(i - 1)
    BY <2>1, <2>2 DEF FileSets
  <2>3. CASE ~(i > 0 /\ moves(i - 1))
    <3>1. from(i) = << >> \/ from(i) = f[i]
      BY <2>3
    <3> QED BY <1>0, <3>1 DEF FileSets
  <2> QED BY <2>2, <2>3
<1>2. g = [i \in 0 .. Rotation |-> from(i)]
  BY DEF Rotate
<1>3. g \in FileSets
  BY <1>1, <1>2 DEF FileSets
<1>4. \A i \in 0 .. Rotation : g[i] = from(i)
  BY <1>2
<1> HIDE DEF g
<1>5. ASSUME NEW i \in 0 .. Rotation
      PROVE  \/ i > 0 /\ moves(i - 1) /\ g[i] = f[i - 1]
             \/ ~(i > 0 /\ moves(i - 1)) /\ moves(i) /\ g[i] = << >>
             \/ ~(i > 0 /\ moves(i - 1)) /\ ~moves(i) /\ g[i] = f[i]
  BY <1>4, Zenon
<1> QED BY <1>3, <1>5 DEF g

(* Rotation never changes the order, whichever renames fail. *)
LEMMA RotateOrders ==
    ASSUME NEW f \in FileSets, NEW n \in Nat, Ordered(f, n), NEW stuck
    PROVE  Ordered(Rotate(f, stuck), n)
<1> DEFINE g == Rotate(f, stuck)
           moves(i) == i < Rotation /\ i \notin stuck /\ f[i] # << >>
<1>0. Rotation \in Nat /\ Rotation > 0
  BY AuditAssumption
<1>1. /\ g \in FileSets
      /\ \A i \in 0 .. Rotation : \/ i > 0 /\ moves(i - 1) /\ g[i] = f[i - 1]
                                  \/ ~(i > 0 /\ moves(i - 1)) /\ moves(i) /\ g[i] = << >>
                                  \/ ~(i > 0 /\ moves(i - 1)) /\ ~moves(i) /\ g[i] = f[i]
  BY RotateFrom
<1> HIDE DEF g, moves
<1>2. ASSUME NEW i \in 0 .. Rotation, NEW k \in DOMAIN g[i]
      PROVE  \E s \in 0 .. Rotation : g[i] = f[s] /\ (s = i \/ s = i - 1)
                                      /\ (s = i => ~moves(i)) /\ (s # i => moves(i - 1))
  <2>1. g[i] # << >>
    BY <1>2
  <2>2. CASE i > 0 /\ moves(i - 1) /\ g[i] = f[i - 1]
    <3>1. i - 1 \in 0 .. Rotation /\ i - 1 # i
      BY <1>0, <2>2
    <3> QED BY <2>2, <3>1
  <2>3. CASE ~moves(i) /\ g[i] = f[i]
    BY <2>3
  <2> QED BY <1>1, <2>1, <2>2, <2>3
<1>3. ASSUME NEW i \in 0 .. Rotation, NEW j \in 0 .. Rotation, NEW k \in DOMAIN g[i], NEW l \in DOMAIN g[j],
             i < j \/ (i = j /\ l < k)
      PROVE  g[j][l] < g[i][k]
  <2>1. PICK s \in 0 .. Rotation : g[i] = f[s] /\ (s = i \/ s = i - 1)
                                   /\ (s = i => ~moves(i)) /\ (s # i => moves(i - 1))
    BY <1>2
  <2>2. PICK t \in 0 .. Rotation : g[j] = f[t] /\ (t = j \/ t = j - 1)
                                   /\ (t = j => ~moves(j)) /\ (t # j => moves(j - 1))
    BY <1>2
  <2>3. CASE i = j
    <3>1. g[j] = f[s] /\ l < k
      BY <1>0, <1>3, <2>1, <2>3
    <3> QED BY <2>1, <2>3, <3>1 DEF Ordered
  <2>4. CASE i < j
    <3>1. s < t
      <4>1. CASE t = j
        BY <1>0, <2>1, <2>4, <4>1
      <4>2. CASE t = j - 1 /\ t # j /\ i = j - 1
        <5>1. moves(i)
          BY <2>2, <4>2
        <5>2. s = i - 1
          BY <2>1, <5>1
        <5> QED BY <1>0, <4>2, <5>2
      <4>3. CASE t = j - 1 /\ i # j - 1
        <5>1. i < j - 1
          BY <1>0, <2>4, <4>3
        <5> QED BY <1>0, <2>1, <4>3, <5>1
      <4>4. t = j \/ (t = j - 1 /\ t # j)
        BY <1>0, <2>2
      <4> QED BY <4>1, <4>2, <4>3, <4>4
    <3> QED BY <2>1, <2>2, <3>1 DEF Ordered
  <2> QED BY <1>3, <2>3, <2>4
<1>4. ASSUME NEW i \in 0 .. Rotation, NEW k \in DOMAIN g[i] PROVE g[i][k] <= n
  BY <1>2, <1>4 DEF Ordered
<1>5. g[0] # << >> => g[0][Len(g[0])] = n
  <2>1. 0 \in 0 .. Rotation /\ ~(0 > 0)
    BY <1>0
  <2>2. g[0] = << >> \/ g[0] = f[0]
    BY <1>1, <2>1
  <2> QED BY <2>2 DEF Ordered
<1>6. Ordered(g, n)
  BY <1>3, <1>4, <1>5 DEF Ordered
<1> QED BY <1>6 DEF g

(* When every rename works, rotation moves every file one on, and only ever
   drops the oldest. *)
LEMMA RotateKeeps ==
    ASSUME NEW f \in FileSets, NEW n \in Nat, NEW cut, Cuts(f, n, cut), Len(f[0]) >= FileMax
    PROVE  \E c : Cuts(Rotate(f, {}), n, c)
<1> DEFINE c == [i \in 0 .. Rotation + 1 |-> IF i = 0 THEN cut[0] ELSE cut[i - 1]]
           g == Rotate(f, {})
<1>0. Rotation \in Nat /\ Rotation > 0 /\ FileMax \in Nat /\ FileMax > 0
  BY AuditAssumption
<1>1. cut \in [0 .. Rotation + 1 -> Nat] /\ cut[0] = n
  BY DEF Cuts
<1>2. c[0] = n
  BY <1>0, <1>1
<1>3. \A i \in 1 .. Rotation + 1 : c[i] = cut[i - 1] /\ i - 1 \in 0 .. Rotation + 1
  BY <1>0
<1>4. c \in [0 .. Rotation + 1 -> Nat]
  <2>1. \A i \in 0 .. Rotation + 1 : (IF i = 0 THEN cut[0] ELSE cut[i - 1]) \in Nat
    BY <1>0, <1>1
  <2> QED BY <2>1
<1> HIDE DEF c
<1>5. \A i \in 0 .. Rotation : \/ i > 0 /\ g[i] = f[i - 1] /\ f[i - 1] # << >>
                               \/ ~(i > 0 /\ f[i - 1] # << >>) /\ f[i] # << >> /\ i < Rotation /\ g[i] = << >>
                               \/ ~(i > 0 /\ f[i - 1] # << >>) /\ ~(i < Rotation /\ f[i] # << >>) /\ g[i] = f[i]
  <2>1. \A i \in 0 .. Rotation : i > 0 => i - 1 < Rotation
    BY <1>0
  <2> QED BY <2>1, RotateFrom
<1> HIDE DEF g
<1>6. g[0] = << >>
  <2>1. 0 \in 0 .. Rotation /\ ~(0 > 0)
    BY <1>0
  <2>2. f[0] # << >>
    <3>1. f[0] = << >> => Len(f[0]) = 0
      OBVIOUS
    <3> QED BY <1>0, <3>1
  <2> QED BY <1>0, <1>5, <2>1, <2>2
<1>7. ASSUME NEW i \in 1 .. Rotation PROVE g[i] = f[i - 1]
  <2>0. i \in 0 .. Rotation /\ i > 0
    BY <1>0
  <2>1. CASE f[i - 1] # << >>
    BY <1>5, <2>0, <2>1
  <2>2. CASE f[i - 1] = << >>
    <3> DEFINE j == i - 1
    <3>1. j \in 0 .. Rotation /\ j + 1 = i
      BY <1>0
    <3>2. Len(f[j]) = 0
      BY <2>2
    <3> HIDE DEF j
    <3>3. cut[j] \in Nat /\ cut[i] \in Nat /\ Len(f[j]) = cut[j] - cut[i]
      BY <3>1, CutsSize
    <3>4. j # 0
      BY <1>0, <3>2
    <3>5. cut[j] > 0 => cut[j] - cut[i] >= FileMax
      BY <1>0, <3>1, <3>4 DEF Cuts
    <3>6. cut[j] = 0 /\ cut[i] = 0
      BY <1>0, <3>2, <3>3, <3>5
    <3>7. Len(f[i]) = 0 /\ f[i] \in Seq(Nat)
      <4>1. /\ cut[i + 1] \in Nat /\ cut[i + 1] <= cut[i] /\ Len(f[i]) = cut[i] - cut[i + 1]
            /\ f[i] \in Seq(Nat)
        BY <2>0, CutsSize
      <4> QED BY <3>6, <4>1
    <3>8. f[i] = << >>
      BY <3>7, EmptySeq
    <3> QED BY <1>5, <2>0, <2>2, <3>8
  <2> QED BY <2>1, <2>2
<1>8. ASSUME NEW i \in 0 .. Rotation
      PROVE  c[i + 1] <= c[i] /\ c[i] <= n /\ g[i] = Run(c[i + 1], c[i])
  <2>1. i + 1 \in 1 .. Rotation + 1 /\ (i + 1) - 1 = i
    BY <1>0
  <2>2. c[i + 1] = cut[i]
    BY <1>3, <2>1
  <2>3. CASE i = 0
    <3>1. c[i] = n /\ c[i + 1] = n
      BY <1>1, <1>2, <2>2, <2>3
    <3>2. Run(n, n) = << >> /\ n <= n
      BY RunIs
    <3> QED BY <1>6, <2>3, <3>1, <3>2, Zenon
  <2>4. CASE i # 0
    <3> DEFINE j == i - 1
    <3>1. j \in 0 .. Rotation /\ i \in 1 .. Rotation /\ i \in 1 .. Rotation + 1 /\ j + 1 = i
      BY <1>0, <2>4
    <3>2. c[i] = cut[j] /\ g[i] = f[j]
      BY <1>3, <1>7, <3>1
    <3> HIDE DEF j
    <3>3. cut[j + 1] <= cut[j] /\ cut[j] <= n /\ f[j] = Run(cut[j + 1], cut[j])
      BY <3>1 DEF Cuts
    <3> QED BY <2>2, <3>1, <3>2, <3>3, Zenon
  <2> QED BY <2>3, <2>4
<1>9. ASSUME NEW i \in 1 .. Rotation, c[i] > 0 PROVE c[i] - c[i + 1] >= FileMax
  <2> DEFINE j == i - 1
  <2>1. /\ i + 1 \in 1 .. Rotation + 1 /\ (i + 1) - 1 = i /\ i \in 1 .. Rotation + 1 
        /\ j \in 0 .. Rotation /\ j + 1 = i
    BY <1>0
  <2>2. c[i + 1] = cut[i] /\ c[i] = cut[j]
    BY <1>3, <2>1
  <2> HIDE DEF j
  <2>3. CASE j = 0
    <3>1. Len(f[0]) = cut[j] - cut[i]
      BY <2>1, <2>3, CutsSize
    <3> QED BY <2>2, <3>1
  <2>4. CASE j # 0
    <3>1. j \in 1 .. Rotation
      BY <2>1, <2>4
    <3>2. cut[j] > 0 => cut[j] - cut[j + 1] >= FileMax
      BY <3>1 DEF Cuts
    <3> QED BY <1>9, <2>1, <2>2, <3>2
  <2> QED BY <2>3, <2>4
<1>10. Cuts(g, n, c)
  BY <1>2, <1>4, <1>8, <1>9 DEF Cuts
<1> QED BY <1>10 DEF g

(* A record is put at the end of the current file: the order. *)
LEMMA PutOrders ==
    ASSUME NEW f \in FileSets, NEW n \in Nat, Ordered(f, n)
    PROVE  /\ [f EXCEPT ![0] = Append(@, n + 1)] \in FileSets
           /\ Ordered([f EXCEPT ![0] = Append(@, n + 1)], n + 1)
<1> DEFINE g == [f EXCEPT ![0] = Append(@, n + 1)]
           m == Len(f[0])
<1>0. Rotation \in Nat /\ 0 \in 0 .. Rotation
  BY AuditAssumption
<1>1. f[0] \in Seq(Nat) /\ m \in Nat /\ DOMAIN f[0] = 1 .. m
  BY <1>0, LenProperties DEF FileSets
<1>2. /\ g[0] = Append(f[0], n + 1) /\ g \in FileSets
      /\ \A i \in 0 .. Rotation : i # 0 => g[i] = f[i]
  BY <1>0, <1>1, AppendProperties DEF FileSets
<1>3. /\ Len(g[0]) = m + 1 /\ DOMAIN g[0] = 1 .. m + 1 /\ g[0] # << >>
      /\ (\A k \in 1 .. m : g[0][k] = f[0][k]) /\ g[0][m + 1] = n + 1
  <2>1. g[0] \in Seq(Nat) /\ Len(g[0]) = m + 1 /\ (\A k \in 1 .. m : g[0][k] = f[0][k]) /\ g[0][m + 1] = n + 1
    <3> HIDE DEF g, m
    <3> QED BY <1>1, <1>2, AppendProperties DEF m
  <2>2. DOMAIN g[0] = 1 .. m + 1
    BY <2>1, LenProperties
  <2>3. g[0] # << >>
    <3> HIDE DEF g, m
    <3> QED BY <1>1, <2>1
  <2> QED BY <2>1, <2>2, <2>3
<1> HIDE DEF g, m
<1>4. \A i \in 0 .. Rotation : \A k \in DOMAIN f[i] : f[i][k] \in Nat /\ f[i][k] <= n
  BY LenProperties DEF FileSets, Ordered
<1>5. ASSUME NEW i \in 0 .. Rotation, NEW k \in DOMAIN g[i]
      PROVE  (k \in DOMAIN f[i] /\ g[i][k] = f[i][k]) \/ (i = 0 /\ k = m + 1 /\ g[i][k] = n + 1)
  <2>1. CASE i # 0
    BY <1>2, <1>5, <2>1
  <2>2. CASE i = 0
    BY <1>1, <1>3, <1>5, <2>2
  <2> QED BY <2>1, <2>2
<1>6. ASSUME NEW i \in 0 .. Rotation, NEW j \in 0 .. Rotation, NEW k \in DOMAIN g[i], NEW l \in DOMAIN g[j],
             i < j \/ (i = j /\ l < k)
      PROVE  g[j][l] < g[i][k]
  <2>1. l \in DOMAIN f[j] /\ g[j][l] = f[j][l]
    <3>1. CASE j = 0 /\ l = m + 1
      <4>1. i = 0 /\ k \in 1 .. m + 1 /\ l < k
        BY <1>0, <1>3, <1>6, <3>1
      <4> QED BY <1>1, <3>1, <4>1
    <3> QED BY <1>5, <3>1
  <2>2. CASE k \in DOMAIN f[i] /\ g[i][k] = f[i][k]
    BY <1>6, <2>1, <2>2 DEF Ordered
  <2>3. CASE g[i][k] = n + 1
    <3>1. f[j][l] \in Nat /\ f[j][l] <= n
      BY <1>4, <2>1
    <3> QED BY <2>1, <2>3, <3>1
  <2> QED BY <1>5, <2>2, <2>3
<1>7. ASSUME NEW i \in 0 .. Rotation, NEW k \in DOMAIN g[i] PROVE g[i][k] <= n + 1
  <2>1. CASE k \in DOMAIN f[i] /\ g[i][k] = f[i][k]
    <3>1. f[i][k] \in Nat /\ f[i][k] <= n
      BY <1>4, <2>1
    <3> QED BY <2>1, <3>1
  <2> QED BY <1>5, <1>7, <2>1
<1>8. Ordered(g, n + 1)
  BY <1>3, <1>6, <1>7 DEF Ordered
<1> QED BY <1>2, <1>8 DEF g

(* A record is put at the end of the current file: the newest are still there. *)
LEMMA PutKeeps ==
    ASSUME NEW f \in FileSets, NEW n \in Nat, NEW cut, Cuts(f, n, cut)
    PROVE  \E c : Cuts([f EXCEPT ![0] = Append(@, n + 1)], n + 1, c)
<1> DEFINE g == [f EXCEPT ![0] = Append(@, n + 1)]
           c == [cut EXCEPT ![0] = n + 1]
<1>0. Rotation \in Nat /\ Rotation > 0
  BY AuditAssumption
<1>2. cut \in [0 .. Rotation + 1 -> Nat] /\ cut[0] = n
  BY DEF Cuts
<1>3. c \in [0 .. Rotation + 1 -> Nat] /\ c[0] = n + 1 /\ \A i \in 1 .. Rotation + 1 : c[i] = cut[i]
  <2>1. n + 1 \in Nat /\ 0 \in 0 .. Rotation + 1
    BY <1>0
  <2> QED BY <1>2, <2>1
<1>4. g[0] = Append(f[0], n + 1) /\ \A i \in 1 .. Rotation : g[i] = f[i]
  <2>1. 0 \in 0 .. Rotation /\ \A i \in 1 .. Rotation : i \in 0 .. Rotation /\ i # 0
    BY <1>0
  <2> QED BY <2>1 DEF FileSets
<1> HIDE DEF c, g
<1>5. ASSUME NEW i \in 0 .. Rotation
      PROVE  c[i + 1] <= c[i] /\ c[i] <= n + 1 /\ g[i] = Run(c[i + 1], c[i])
  <2>1. i + 1 \in 1 .. Rotation + 1 /\ c[i + 1] = cut[i + 1]
    BY <1>0, <1>3
  <2>2. cut[i] \in Nat /\ cut[i + 1] \in Nat /\ cut[i + 1] <= cut[i] /\ cut[i] <= n
    BY CutsSize
  <2>3. f[i] = Run(cut[i + 1], cut[i])
    BY DEF Cuts
  <2>4. CASE i = 0
    <3> DEFINE z == cut[i + 1]
    <3>1. z \in Nat /\ z <= n
      BY <1>2, <2>2, <2>4
    <3>2. f[0] = Run(z, n)
      BY <1>2, <2>3, <2>4
    <3>3. c[i + 1] = z /\ c[i] = n + 1
      BY <1>3, <2>1, <2>4
    <3> HIDE DEF z
    <3>4. g[i] = Run(z, n + 1)
      BY <1>4, <2>4, <3>1, <3>2, RunIs
    <3>5. z <= n + 1 /\ n + 1 <= n + 1
      BY <3>1
    <3> QED BY <3>3, <3>4, <3>5, Zenon
  <2>5. CASE i # 0
    <3>1. i \in 1 .. Rotation /\ i \in 1 .. Rotation + 1
      BY <2>5, <1>0
    <3>2. c[i] = cut[i] /\ g[i] = f[i]
      BY <1>3, <1>4, <3>1
    <3>3. c[i + 1] <= c[i] /\ c[i] <= n + 1
      BY <2>1, <2>2, <3>2
    <3> QED BY <2>1, <2>3, <3>2, <3>3, Zenon
  <2> QED BY <2>4, <2>5
<1>6. ASSUME NEW i \in 1 .. Rotation, c[i] > 0 PROVE c[i] - c[i + 1] >= FileMax
  <2>1. i \in 1 .. Rotation + 1 /\ i + 1 \in 1 .. Rotation + 1
    BY <1>0
  <2>2. c[i] = cut[i] /\ c[i + 1] = cut[i + 1]
    BY <1>3, <2>1
  <2> QED BY <1>6, <2>2 DEF Cuts
<1>7. Cuts(g, n + 1, c)
  BY <1>3, <1>5, <1>6 DEF Cuts
<1> QED BY <1>7 DEF g

(* ... for whatever record it is. *)
LEMMA RecordPutKeeps ==
    ASSUME NEW f \in FileSets, NEW rs \in Seq(Records), NEW r \in Records, NEW mis, HoldNewest(f, rs, mis)
    PROVE  LET g == [f EXCEPT ![0] = Append(@, Len(rs) + 1)]
           IN g \in FileSets /\ HoldNewest(g, Append(rs, r), mis)
<1> DEFINE n == Len(rs)
           g == [f EXCEPT ![0] = Append(@, n + 1)]
<1>1. n \in Nat /\ Len(Append(rs, r)) = n + 1
  BY LenProperties, AppendProperties
<1>2. g \in FileSets /\ Ordered(g, n + 1)
  <2> HIDE DEF n
  <2> QED BY <1>1, PutOrders DEF HoldNewest, n
<1>3. ~mis => \E c : Cuts(g, n + 1, c)
  <2> SUFFICES ASSUME ~mis PROVE \E c : Cuts(g, n + 1, c)
    OBVIOUS
  <2>1. PICK cut : Cuts(f, n, cut)
    BY DEF HoldNewest
  <2> HIDE DEF n
  <2> QED BY <1>1, <2>1, PutKeeps
<1> QED BY <1>1, <1>2, <1>3 DEF HoldNewest

Fates == {"open", "rejected", "lost", "stored"}
Stores == [files : FileSets, records : Seq(Records), fate : [AEvents -> Fates], broken : BOOLEAN,
           encErr : BOOLEAN, misplaced : BOOLEAN]
KeptFiles(st) == HoldNewest(st.files, st.records, st.misplaced)
WriteOutcomes == {"ok", "fail", "torn", "open"}

(* The files of a store that may have to be rotated first. *)
LEMMA MadeRoom ==
    ASSUME NEW f \in FileSets, NEW rs \in Seq(Records), NEW mis \in BOOLEAN, HoldNewest(f, rs, mis), NEW stuck
    PROVE  LET full == Len(f[0]) >= FileMax
               g == IF full THEN Rotate(f, stuck) ELSE f
           IN g \in FileSets /\ HoldNewest(g, rs, mis \/ (full /\ stuck # {}))
<1>0. Len(rs) \in Nat
  BY LenProperties
<1>1. CASE ~(Len(f[0]) >= FileMax)
  BY <1>1 DEF HoldNewest
<1>2. CASE Len(f[0]) >= FileMax
  <2>1. Rotate(f, stuck) \in FileSets
    BY RotateFrom
  <2>2. Ordered(Rotate(f, stuck), Len(rs))
    BY <1>0, RotateOrders DEF HoldNewest
  <2>3. ASSUME ~mis, stuck = {} PROVE \E c : Cuts(Rotate(f, stuck), Len(rs), c)
    <3>1. PICK cut : Cuts(f, Len(rs), cut)
      BY <2>3 DEF HoldNewest
    <3> QED BY <1>0, <1>2, <2>3, <3>1, RotateKeeps
  <2> QED BY <1>2, <2>1, <2>2, <2>3 DEF HoldNewest
<1> QED BY <1>1, <1>2

(* One event written, whatever becomes of it: the files still hold what they
   should, and this event is settled and no other. *)
LEMMA WriteKeeps ==
    ASSUME NEW st \in Stores, KeptFiles(st), NEW e \in AEvents, NEW o \in WriteOutcomes, NEW stuck
    PROVE  LET new == WriteRecord(st, e, o, stuck)
           IN /\ new \in Stores /\ KeptFiles(new)
              /\ new.fate[e] # "open" /\ \A x \in AEvents \ {e} : new.fate[x] = st.fate[x]
<1> DEFINE full == Len(st.files[0]) >= FileMax
           f == IF full THEN Rotate(st.files, stuck) ELSE st.files
           dropped == [st.fate EXCEPT ![e] = "lost"]
           stored == [st.fate EXCEPT ![e] = "stored"]
           gone == st.misplaced \/ (full /\ stuck # {})
           put == [f EXCEPT ![0] = Append(@, Len(st.records) + 1)]
           wrote(r, fate, err) == [st EXCEPT !.files = put, !.records = Append(@, r), !.fate = fate,
                                             !.encErr = err, !.misplaced = gone]
           new == WriteRecord(st, e, o, stuck)
<1>1. /\ st.files \in FileSets /\ st.records \in Seq(Records)
      /\ st.fate \in [AEvents -> Fates] /\ st.broken \in BOOLEAN /\ st.encErr \in BOOLEAN /\ st.misplaced \in BOOLEAN
  BY DEF Stores
<1>2. f \in FileSets /\ HoldNewest(f, st.records, gone)
  BY <1>1, MadeRoom DEF KeptFiles
<1>3. /\ dropped \in [AEvents -> Fates] /\ dropped[e] # "open" /\ \A x \in AEvents \ {e} : dropped[x] = st.fate[x]
      /\ stored \in [AEvents -> Fates] /\ stored[e] # "open" /\ \A x \in AEvents \ {e} : stored[x] = st.fate[x]
  BY <1>1 DEF Fates
<1>4. gone \in BOOLEAN
  BY <1>1
<1>5. ASSUME NEW r \in Records
      PROVE  put \in FileSets /\ Append(st.records, r) \in Seq(Records) /\ HoldNewest(put, Append(st.records, r), gone)
  <2> HIDE DEF f, gone
  <2> QED BY <1>1, <1>2, RecordPutKeeps, AppendProperties
<1>6. e \in Records /\ Torn \in Records
  BY DEF Records
<1>7. \/ new = [st EXCEPT !.fate = dropped]
      \/ new = [st EXCEPT !.files = f, !.fate = dropped, !.broken = TRUE, !.misplaced = gone]
      \/ new = [st EXCEPT !.files = f, !.fate = dropped, !.encErr = TRUE, !.misplaced = gone]
      \/ new = wrote(Torn, dropped, TRUE)
      \/ new = wrote(e, stored, FALSE)
  BY Zenon DEF WriteRecord
<1> HIDE DEF new, put, f, dropped, full, stored, gone
<1> DEFINE good(s) == /\ s \in Stores /\ KeptFiles(s)
                      /\ s.fate[e] # "open" /\ \A x \in AEvents \ {e} : s.fate[x] = st.fate[x]
           is(fs, rs, ft, b, er, mi) ==
               new = [files |-> fs, records |-> rs, fate |-> ft, broken |-> b, encErr |-> er, misplaced |-> mi]
<1>8. ASSUME NEW fs \in FileSets, NEW rs \in Seq(Records), NEW mi \in BOOLEAN, HoldNewest(fs, rs, mi),
             NEW ft, ft = dropped \/ ft = stored, NEW b \in BOOLEAN, NEW er \in BOOLEAN, is(fs, rs, ft, b, er, mi)
      PROVE  good(new)
  <2>1. new \in Stores /\ new.files = fs /\ new.records = rs /\ new.fate = ft /\ new.misplaced = mi
    <3>1. ft \in [AEvents -> Fates]
      BY <1>3, <1>8
    <3> QED BY <1>8, <3>1 DEF Stores
  <2> QED BY <1>3, <1>8, <2>1 DEF KeptFiles
<1>9. st = [files |-> st.files, records |-> st.records, fate |-> st.fate, broken |-> st.broken,
            encErr |-> st.encErr, misplaced |-> st.misplaced]
  BY DEF Stores
<1>10. \/ is(st.files, st.records, dropped, st.broken, st.encErr, st.misplaced)
       \/ is(f, st.records, dropped, TRUE, st.encErr, gone)
       \/ is(f, st.records, dropped, st.broken, TRUE, gone)
       \/ is(put, Append(st.records, Torn), dropped, st.broken, TRUE, gone)
       \/ is(put, Append(st.records, e), stored, st.broken, FALSE, gone)
  BY <1>7, <1>9
<1>11. HoldNewest(st.files, st.records, st.misplaced) /\ TRUE \in BOOLEAN /\ FALSE \in BOOLEAN
  BY DEF KeptFiles
<1>12. good(new)
  <2> HIDE DEF good, is
  <2>1. CASE is(st.files, st.records, dropped, st.broken, st.encErr, st.misplaced)
    BY <1>1, <1>8, <1>11, <2>1, Zenon
  <2>2. CASE is(f, st.records, dropped, TRUE, st.encErr, gone)
    BY <1>1, <1>2, <1>4, <1>8, <1>11, <2>2, Zenon
  <2>3. CASE is(f, st.records, dropped, st.broken, TRUE, gone)
    BY <1>1, <1>2, <1>4, <1>8, <1>11, <2>3, Zenon
  <2>4. CASE is(put, Append(st.records, Torn), dropped, st.broken, TRUE, gone)
    BY <1>1, <1>4, <1>5, <1>6, <1>8, <1>11, <2>4, Zenon
  <2>5. CASE is(put, Append(st.records, e), stored, st.broken, FALSE, gone)
    BY <1>1, <1>4, <1>5, <1>6, <1>8, <1>11, <2>5, Zenon
  <2> QED BY <1>10, <2>1, <2>2, <2>3, <2>4, <2>5, Zenon
<1> QED BY <1>12 DEF new

(* The loop of flushLocked: the stores it goes through, one per event. *)
FlushRun(n, b, o, stuck, s0) ==
    LET st[i \in 0 .. n] == IF i = 0 THEN s0 ELSE WriteRecord(st[i - 1], b[i], o[i], stuck[i]) IN st

(* The loop runs to its end: each store is the one before with one more event. *)
LEMMA FlushLoop ==
    ASSUME NEW n \in Nat, NEW b, NEW o, NEW stuck, NEW s0, NEW st, st = FlushRun(n, b, o, stuck, s0)
    PROVE  st[0] = s0 /\ \A i \in 1 .. n : st[i] = WriteRecord(st[i - 1], b[i], o[i], stuck[i])
<1> DEFINE step(f, i) == WriteRecord(f[i - 1], b[i], o[i], stuck[i])
           body(f) == [i \in 0 .. n |-> IF i = 0 THEN s0 ELSE step(f, i)]
           upTo(f, m) == f[0] = s0 /\ \A i \in 1 .. m : f[i] = step(f, i)
           T == {m \in 0 .. n : \E f : upTo(f, m)}
<1>1. 0 \in T
  <2> DEFINE z == [i \in {0} |-> s0]
  <2>1. upTo(z, 0)
    OBVIOUS
  <2> HIDE DEF upTo, z
  <2> QED BY <2>1
<1>2. ASSUME NEW m \in 1 .. n, m - 1 \in T PROVE m \in T
  <2>1. PICK f : upTo(f, m - 1)
    BY <1>2
  <2> DEFINE g == [i \in 0 .. m |-> IF i = m THEN step(f, m) ELSE f[i]]
  <2>2. g[0] = s0
    BY <2>1
  <2>3. ASSUME NEW i \in 1 .. m PROVE g[i] = step(g, i)
    <3>1. g[i - 1] = f[i - 1]
      OBVIOUS
    <3>2. CASE i = m
      <4>1. g[i] = step(f, i)
        BY <3>2
      <4> HIDE DEF g
      <4> QED BY <3>1, <4>1
    <3>3. CASE i # m
      <4>1. g[i] = f[i] /\ i \in 1 .. m - 1
        BY <3>3
      <4> HIDE DEF g
      <4> QED BY <2>1, <3>1, <4>1
    <3> QED BY <3>2, <3>3
  <2>4. upTo(g, m)
    BY <2>2, <2>3
  <2> HIDE DEF g, upTo
  <2> QED BY <2>4
<1>3. PICK f : upTo(f, n)
  <2> HIDE DEF T, upTo
  <2>0. \A i \in 1 .. n : i - 1 \in T => i \in T
    BY <1>2
  <2>1. \A i \in 0 .. n : i \in T
    BY <1>1, <2>0, CountingUp, Zenon
  <2>2. n \in T
    BY <2>1
  <2> QED BY <2>2 DEF T
<1>4. \E g : g = body(g)
  <2> DEFINE g == [i \in 0 .. n |-> f[i]]
  <2>1. ASSUME NEW i \in 0 .. n PROVE g[i] = body(g)[i]
    <3>1. CASE i = 0
      BY <1>3, <3>1
    <3>2. CASE i # 0
      <4>1. i \in 1 .. n /\ i - 1 \in 0 .. n
        BY <3>2
      <4>2. g[i] = step(f, i) /\ g[i - 1] = f[i - 1]
        BY <1>3, <4>1
      <4>3. body(g)[i] = step(g, i)
        BY <4>1
      <4> HIDE DEF g, body
      <4> QED BY <4>2, <4>3
    <3> QED BY <3>1, <3>2
  <2>2. g = body(g)
    BY <2>1
  <2> HIDE DEF g, body
  <2> QED BY <2>2
<1>5. st = body(st)
  <2>1. st = CHOOSE g : g = body(g)
    BY DEF FlushRun
  <2> HIDE DEF body
  <2> QED BY <1>4, <2>1
<1>6. st[0] = s0
  <2>1. body(st)[0] = s0
    OBVIOUS
  <2> HIDE DEF body
  <2> QED BY <1>5, <2>1
<1>7. ASSUME NEW i \in 1 .. n PROVE st[i] = step(st, i)
  <2>1. body(st)[i] = step(st, i)
    OBVIOUS
  <2> HIDE DEF body, step
  <2> QED BY <1>5, <2>1
<1> QED BY <1>6, <1>7

(* What a flush makes of a store: every event of the batch is settled, and no other. *)
LEMMA FlushKeeps ==
    ASSUME NEW b \in Seq(AEvents), NEW o \in [1 .. Len(b) -> Writes], NEW stuck,
           NEW s0 \in Stores, KeptFiles(s0)
    PROVE  LET end == FlushRun(Len(b), b, o, stuck, s0)[Len(b)]
           IN /\ end \in Stores /\ KeptFiles(end)
              /\ \A x \in AEvents : end.fate[x] = "open" => s0.fate[x] = "open" /\ x \notin Range(b)
<1> DEFINE n == Len(b)
           st == FlushRun(n, b, o, stuck, s0)
           good(i) == /\ st[i] \in Stores /\ KeptFiles(st[i])
                      /\ \A x \in AEvents : st[i].fate[x] = "open" => s0.fate[x] = "open" /\ \A j \in 1 .. i : b[j] # x
           T == {i \in 0 .. n : good(i)}
<1>1. n \in Nat /\ DOMAIN b = 1 .. n /\ \A i \in 1 .. n : b[i] \in AEvents
  BY LenProperties
<1>2. \A i \in 1 .. n : o[i] \in WriteOutcomes
  <2>1. Writes \subseteq WriteOutcomes
    BY AuditAssumption DEF WriteOutcomes, Writes
  <2> QED BY <2>1
<1>3. st[0] = s0 /\ \A i \in 1 .. n : st[i] = WriteRecord(st[i - 1], b[i], o[i], stuck[i])
  <2>1. st = FlushRun(n, b, o, stuck, s0) /\ n \in Nat
    BY <1>1
  <2> HIDE DEF st, n
  <2> QED BY <2>1, FlushLoop
<1> HIDE DEF st
<1>4. 0 \in T
  <2>1. good(0)
    BY <1>3
  <2> HIDE DEF good
  <2> QED BY <1>1, <2>1
<1>5. ASSUME NEW i \in 1 .. n, i - 1 \in T PROVE i \in T
  <2> DEFINE old == st[i - 1]
             new == st[i]
  <2>1. good(i - 1)
    BY <1>5
  <2>2. old \in Stores /\ KeptFiles(old)
    BY <2>1
  <2>3. new = WriteRecord(old, b[i], o[i], stuck[i]) /\ b[i] \in AEvents /\ o[i] \in WriteOutcomes
    BY <1>1, <1>2, <1>3
  <2>4. /\ new \in Stores /\ KeptFiles(new)
        /\ new.fate[b[i]] # "open" /\ \A x \in AEvents \ {b[i]} : new.fate[x] = old.fate[x]
    <3> HIDE DEF old, new
    <3> QED BY <2>2, <2>3, WriteKeeps
  <2>5. ASSUME NEW x \in AEvents, new.fate[x] = "open"
        PROVE  s0.fate[x] = "open" /\ \A j \in 1 .. i : b[j] # x
    <3>1. x # b[i]
      BY <2>4, <2>5
    <3>2. old.fate[x] = "open"
      <4> HIDE DEF old, new
      <4> QED BY <2>4, <2>5, <3>1
    <3>3. s0.fate[x] = "open" /\ \A j \in 1 .. i - 1 : b[j] # x
      BY <2>1, <3>2
    <3>4. \A j \in 1 .. i : j \in 1 .. i - 1 \/ j = i
      BY <1>1
    <3> QED BY <3>1, <3>3, <3>4
  <2>6. good(i)
    BY <2>4, <2>5
  <2> HIDE DEF good
  <2> QED BY <1>1, <2>6
<1>6. good(n)
  <2> HIDE DEF T, n, good
  <2>0. \A i \in 1 .. n : i - 1 \in T => i \in T
    BY <1>5
  <2>1. \A i \in 0 .. n : i \in T
    BY <1>1, <1>4, <2>0, CountingUp, Zenon
  <2>2. n \in T
    BY <1>1, <2>1
  <2> QED BY <2>2 DEF T
<1>7. \A x : (\A j \in 1 .. n : b[j] # x) => x \notin Range(b)
  BY <1>1 DEF Range
<1>8. /\ st[n] \in Stores /\ KeptFiles(st[n])
      /\ \A x \in AEvents : st[n].fate[x] = "open" => s0.fate[x] = "open" /\ x \notin Range(b)
  BY <1>6, <1>7
<1> QED BY <1>8 DEF st

(* One more full file. *)
LEMMA OneMore ==
    ASSUME NEW i \in Nat, NEW k \in Nat, i > 0
    PROVE  (i - 1) * k + k = i * k /\ (i - 1) * k \in Nat /\ i * k \in Nat /\ 0 * k = 0
OBVIOUS

(* Unless everything is still there, the rotated files are full. *)
LEMMA RotatedFull ==
    ASSUME NEW f, NEW n \in Nat, NEW cut, Cuts(f, n, cut)
    PROVE  cut[Rotation + 1] > 0 => cut[1] - cut[Rotation + 1] >= Rotation * FileMax
<1> DEFINE R == Rotation
           T == {i \in 0 .. R : cut[i + 1] > 0 => cut[1] - cut[i + 1] >= i * FileMax}
<1>0. R \in Nat /\ R > 0 /\ FileMax \in Nat
  BY AuditAssumption
<1>1. \A i \in 0 .. R : cut[i] \in Nat /\ cut[i + 1] \in Nat /\ cut[i + 1] <= cut[i]
  BY CutsSize
<1>2. \A i \in 1 .. R : cut[i] > 0 => cut[i] - cut[i + 1] >= FileMax
  BY DEF Cuts
<1> HIDE DEF R
<1>3. 0 \in T
  <2>1. 0 * FileMax = 0 /\ 0 + 1 = 1 /\ 0 \in 0 .. R
    BY <1>0
  <2>2. cut[1] \in Nat
    BY <1>1, <2>1
  <2> QED BY <2>1, <2>2
<1>4. ASSUME NEW i \in 1 .. R, i - 1 \in T PROVE i \in T
  <2>1. i \in 0 .. R /\ (i - 1) + 1 = i
    BY <1>0
  <2>2. cut[i] > 0 => cut[1] - cut[i] >= (i - 1) * FileMax
    BY <1>4, <2>1
  <2>3. cut[i] \in Nat /\ cut[i + 1] \in Nat /\ cut[i + 1] <= cut[i] /\ (cut[i] > 0 => cut[i] - cut[i + 1] >= FileMax)
    BY <1>1, <1>2, <2>1
  <2>4. (i - 1) * FileMax + FileMax = i * FileMax /\ (i - 1) * FileMax \in Nat /\ i * FileMax \in Nat
    BY <1>0, OneMore
  <2>5. cut[1] \in Nat
    BY <1>0, <1>1
  <2> DEFINE x == (i - 1) * FileMax
             y == i * FileMax
             a == cut[i]
             c == cut[i + 1]
  <2>6. c > 0 => cut[1] - c >= y
    <3> HIDE DEF x, y, a, c
    <3> QED BY <1>0, <2>2, <2>3, <2>4, <2>5 DEF x, y, a, c
  <2> QED BY <2>1, <2>6
<1>5. R \in T
  <2> HIDE DEF T
  <2>0. \A i \in 1 .. R : i - 1 \in T => i \in T
    BY <1>4
  <2>1. \A i \in 0 .. R : i \in T
    BY <1>0, <1>3, <2>0, CountingUp, Zenon
  <2> QED BY <1>0, <2>1
<1> QED BY <1>5 DEF R

(* Every number after the oldest cut is in a file. *)
LEMMA InSomeFile ==
    ASSUME NEW f, NEW n \in Nat, NEW cut, Cuts(f, n, cut), NEW p \in 1 .. n, p > cut[Rotation + 1]
    PROVE  \E i \in 0 .. Rotation : p \in Range(f[i])
<1> DEFINE R == Rotation
           T == {i \in 0 .. R : p <= cut[i] \/ \E j \in 0 .. R : p \in Range(f[j])}
<1>0. R \in Nat
  BY AuditAssumption
<1>1. \A i \in 0 .. R : cut[i] \in Nat /\ cut[i + 1] \in Nat /\ cut[i + 1] <= cut[i]
  BY CutsSize
<1>2. \A i \in 0 .. R : f[i] = Run(cut[i + 1], cut[i])
  BY DEF Cuts
<1> HIDE DEF R
<1>3. 0 \in T
  BY <1>0 DEF Cuts
<1>4. ASSUME NEW i \in 0 .. R, p <= cut[i], p > cut[i + 1] PROVE p \in Range(f[i])
  <2> DEFINE a == cut[i + 1]
             b == cut[i]
  <2>1. a \in Nat /\ b \in Nat /\ p - a \in 1 .. b - a /\ f[i] = Run(a, b) /\ a + (p - a) = p
    BY <1>1, <1>2, <1>4
  <2> HIDE DEF a, b
  <2>2. p - a \in DOMAIN f[i] /\ f[i][p - a] = p
    BY <2>1 DEF Run
  <2> QED BY <2>2 DEF Range
<1>5. ASSUME NEW i \in 1 .. R, i - 1 \in T PROVE i \in T
  <2>1. i - 1 \in 0 .. R /\ (i - 1) + 1 = i /\ i \in 0 .. R
    BY <1>0
  <2>2. cut[i] \in Nat /\ (p <= cut[i - 1] /\ p > cut[i] => p \in Range(f[i - 1]))
    BY <1>1, <1>4, <2>1
  <2> QED BY <1>5, <2>1, <2>2
<1>6. R \in T
  <2> HIDE DEF T
  <2>0. \A i \in 1 .. R : i - 1 \in T => i \in T
    BY <1>5
  <2>1. \A i \in 0 .. R : i \in T
    BY <1>0, <1>3, <2>0, CountingUp, Zenon
  <2> QED BY <1>0, <2>1
<1>7. p <= cut[R] => p \in Range(f[R])
  BY <1>0, <1>4 DEF R
<1> QED BY <1>0, <1>6, <1>7 DEF R

(* The invariant of the files is what rotation promises. *)
LEMMA NewestHeld ==
    ASSUME records \in Seq(Records), HoldNewest(files, records, misplaced)
    PROVE  FilesHoldNewest
<1> DEFINE n == Len(records)
           y == Rotation * FileMax
<1>0. n \in Nat /\ Rotation \in Nat /\ Rotation > 0 /\ y \in Nat
  BY AuditAssumption, LenProperties, OneMore
<1>1. Ordered(files, n)
  BY DEF HoldNewest
<1>2. ASSUME ~misplaced, NEW p \in 1 .. n, p > n - Len(files[0]) - y
      PROVE  \E i \in 0 .. Rotation : p \in Range(files[i])
  <2>1. PICK cut : Cuts(files, n, cut)
    BY <1>2 DEF HoldNewest
  <2> HIDE DEF n
  <2>2. cut[0] = n /\ 0 \in 0 .. Rotation /\ 0 + 1 = 1
    BY <1>0, <2>1 DEF Cuts
  <2>3. cut[1] \in Nat /\ Len(files[0]) = n - cut[1]
    BY <1>0, <2>1, <2>2, CutsSize
  <2>4. cut[Rotation + 1] > 0 => cut[1] - cut[Rotation + 1] >= y
    BY <1>0, <2>1, RotatedFull
  <2>5. cut[Rotation + 1] \in Nat
    <3>1. Rotation \in 0 .. Rotation
      BY <1>0
    <3> QED BY <1>0, <2>1, <3>1, CutsSize
  <2>6. p > cut[Rotation + 1]
    <3> DEFINE z == cut[Rotation + 1]
    <3> HIDE DEF y, z
    <3> QED BY <1>0, <1>2, <2>3, <2>4, <2>5 DEF z
  <2> QED BY <1>0, <2>1, <2>6, InSomeFile
<1> QED BY <1>1, <1>2, Zenon DEF FilesHoldNewest, Ordered

AuditTypes ==
    /\ aCaller \in [AEvents -> {"new", "left"}] /\ eventCh \in Seq(AEvents)
    /\ aWorker \in [AWorkers -> [pc : {"select", "hold", "drain", "drainHold", "exited"}, ev : AEvents \cup {NoEvent}]]
    /\ aDone \in BOOLEAN /\ aClosed \in {"no", "returned", "flushed", "closed"}
FileTypes ==
    /\ batch \in Seq(AEvents) /\ flushes \in Nat /\ broken \in BOOLEAN /\ encErr \in BOOLEAN /\ misplaced \in BOOLEAN
    /\ files \in FileSets /\ records \in Seq(Records) /\ aFate \in [AEvents -> Fates]

(* A worker that holds an event says so, and leaves only once done is closed
   and the buffer was empty: what is in it then came later. *)
WorkersDrain ==
    /\ \A w \in AWorkers : aWorker[w].ev # NoEvent <=> aWorker[w].pc \in {"hold", "drainHold"}
    /\ \A w \in AWorkers : aWorker[w].pc \in {"drain", "drainHold", "exited"} => aDone
    /\ \A w \in AWorkers : aWorker[w].pc = "exited" => Range(eventCh) \subseteq late
    /\ aClosed # "no" => \A w \in AWorkers : aWorker[w].pc = "exited"

(* A batch with something in it has a timer that will flush it. *)
BatchTimed == batch # << >> => flushTimer = "armed" \/ flushes > 0

(* An event that is not settled is somewhere. *)
EventCarried == \A e \in AEvents : aCaller[e] = "left" /\ aFate[e] = "open" =>
               e \in Range(eventCh) \/ (\E w \in AWorkers : aWorker[w].ev = e) \/ e \in Range(batch)

AuditInv == AuditTypes /\ FileTypes /\ HoldNewest(files, records, misplaced) /\ WorkersDrain /\ BatchTimed /\ EventCarried

(* The invariant is what the audit log promises. *)
LEMMA AuditHolds == AuditInv => AuditSound
<1> SUFFICES ASSUME AuditInv PROVE AuditSound
  OBVIOUS
<1>1. /\ AuditTypes /\ FileTypes /\ HoldNewest(files, records, misplaced) /\ WorkersDrain /\ BatchTimed /\ EventCarried
      /\ AWorkers # {}
  BY AuditAssumption DEF AuditInv
<1>2. FilesHoldNewest
  BY <1>1, NewestHeld DEF FileTypes
<1>3. CloseWaitsForPending
  BY <1>1 DEF CloseWaitsForPending, WorkersDrain
<1>4. NoEventStranded
  <2> SUFFICES ASSUME NEW e \in AEvents, aCaller[e] = "left", e \notin late, aFate[e] = "open",
                      ~(\E w \in AWorkers : aWorker[w].ev = e)
               PROVE  \/ e \in Range(eventCh) /\ \E w \in AWorkers : aWorker[w].pc # "exited"
                      \/ e \in Range(batch) /\ (flushTimer = "armed" \/ flushes > 0)
    BY DEF NoEventStranded
  <2>1. CASE e \in Range(eventCh)
    BY <1>1, <2>1 DEF WorkersDrain
  <2>2. CASE e \in Range(batch)
    <3>1. batch # << >>
      BY <2>2 DEF Range
    <3> QED BY <1>1, <2>2, <3>1 DEF BatchTimed
  <2> QED BY <1>1, <2>1, <2>2 DEF EventCarried
<1> QED BY <1>2, <1>3, <1>4 DEF AuditSound

(* The invariant holds initially. *)
LEMMA AuditStarts == AuditInit => AuditInv
<1> SUFFICES ASSUME AuditInit PROVE AuditInv
  OBVIOUS
<1>0. << >> \in Seq(AEvents) /\ << >> \in Seq(Records)
  OBVIOUS
<1>1. AuditTypes
  <2>1. aCaller = [e \in AEvents |-> "new"] /\ eventCh = << >> /\ aDone = FALSE /\ aClosed = "no"
    BY DEF AuditInit
  <2>2. aWorker = [w \in AWorkers |-> [pc |-> "select", ev |-> NoEvent]]
    BY DEF AuditInit
  <2>3. aCaller \in [AEvents -> {"new", "left"}]
    BY <2>1
  <2>4. aWorker \in [AWorkers -> [pc : {"select", "hold", "drain", "drainHold", "exited"}, ev : AEvents \cup {NoEvent}]]
    BY <2>2
  <2> QED BY <1>0, <2>1, <2>3, <2>4 DEF AuditTypes
<1>2. FileTypes
  <2>1. batch = << >> /\ flushes = 0 /\ broken = FALSE /\ records = << >> /\ encErr = FALSE /\ misplaced = FALSE
    BY DEF AuditInit
  <2>2. files \in FileSets
    BY DEF AuditInit, FileSets
  <2>3. aFate \in [AEvents -> Fates]
    BY DEF AuditInit, Fates
  <2> QED BY <1>0, <2>1, <2>2, <2>3 DEF FileTypes
<1>3. HoldNewest(files, records, misplaced)
  <2>0. Rotation \in Nat /\ 0 \in Nat /\ 0 <= 0
    BY AuditAssumption
  <2> DEFINE cut == [i \in 0 .. Rotation + 1 |-> 0]
  <2>1. Len(records) = 0 /\ \A i \in 0 .. Rotation : files[i] = << >>
    BY DEF AuditInit
  <2>2. \A i \in 0 .. Rotation + 1 : cut[i] = 0
    OBVIOUS
  <2>3. cut \in [0 .. Rotation + 1 -> Nat]
    OBVIOUS
  <2> HIDE DEF cut
  <2>4. Run(0, 0) = << >>
    BY <2>0, RunIs
  <2>5. ASSUME NEW i \in 0 .. Rotation
        PROVE  cut[i + 1] <= cut[i] /\ cut[i] <= 0 /\ files[i] = Run(cut[i + 1], cut[i])
    <3>1. i \in 0 .. Rotation + 1 /\ i + 1 \in 0 .. Rotation + 1
      BY <2>0
    <3>2. cut[i] = 0 /\ cut[i + 1] = 0
      BY <2>2, <3>1
    <3> QED BY <2>0, <2>1, <2>4, <3>2, Zenon
  <2>6. ASSUME NEW i \in 1 .. Rotation PROVE ~(cut[i] > 0)
    BY <2>0, <2>2
  <2>7. cut[0] = 0
    BY <2>0, <2>2
  <2>8. Cuts(files, 0, cut)
    BY <2>3, <2>5, <2>6, <2>7 DEF Cuts
  <2>9. Ordered(files, 0)
    <3>1. 0 \in 0 .. Rotation
      BY <2>0
    <3> QED BY <2>1, <3>1 DEF Ordered
  <2> QED BY <2>1, <2>8, <2>9 DEF HoldNewest
<1>4. WorkersDrain
  BY AuditAssumption DEF AuditInit, WorkersDrain
<1>5. BatchTimed /\ EventCarried
  BY DEF AuditInit, BatchTimed, EventCarried
<1> QED BY <1>1, <1>2, <1>3, <1>4, <1>5 DEF AuditInv

(* A flush settles what was in the batch and empties it. *)
LEMMA FlushStep ==
    ASSUME FileTypes, HoldNewest(files, records, misplaced), NEW b \in Seq(AEvents), flushLocked(b)
    PROVE  /\ batch' = << >> /\ broken' \in BOOLEAN /\ encErr' \in BOOLEAN /\ misplaced' \in BOOLEAN /\ files' \in FileSets
           /\ records' \in Seq(Records) /\ aFate' \in [AEvents -> Fates] /\ HoldNewest(files', records', misplaced')
           /\ \A x \in AEvents : aFate'[x] = "open" => aFate[x] = "open" /\ x \notin Range(b)
<1> DEFINE s0 == [files |-> files, records |-> records, fate |-> aFate, broken |-> broken,
                  encErr |-> encErr, misplaced |-> misplaced]
<1>1. PICK o \in [1 .. Len(b) -> Writes], stuck \in [1 .. Len(b) -> Stuck] :
          LET end == FlushRun(Len(b), b, o, stuck, s0)[Len(b)]
          IN /\ files' = end.files /\ records' = end.records /\ aFate' = end.fate /\ broken' = end.broken
             /\ encErr' = end.encErr /\ misplaced' = end.misplaced /\ batch' = << >>
  BY Zenon DEF flushLocked, FlushRun
<1>2. s0 \in Stores /\ s0.fate = aFate
  BY DEF Stores, FileTypes
<1>3. KeptFiles(s0)
  BY DEF KeptFiles
<1> HIDE DEF s0
<1> DEFINE end == FlushRun(Len(b), b, o, stuck, s0)[Len(b)]
<1>4. /\ end \in Stores /\ KeptFiles(end)
      /\ \A x \in AEvents : end.fate[x] = "open" => aFate[x] = "open" /\ x \notin Range(b)
  <2>1. s0 \in Stores /\ KeptFiles(s0) /\ o \in [1 .. Len(b) -> Writes]
    BY <1>2, <1>3
  <2>2. /\ end \in Stores /\ KeptFiles(end)
        /\ \A x \in AEvents : end.fate[x] = "open" => s0.fate[x] = "open" /\ x \notin Range(b)
    BY <2>1, FlushKeeps
  <2> QED BY <1>2, <2>2
<1>5. /\ files' = end.files /\ records' = end.records /\ aFate' = end.fate /\ broken' = end.broken
      /\ encErr' = end.encErr /\ misplaced' = end.misplaced /\ batch' = << >>
  BY <1>1
<1> HIDE DEF end
<1>6. /\ end.files \in FileSets /\ end.records \in Seq(Records) /\ end.fate \in [AEvents -> Fates]
      /\ end.broken \in BOOLEAN /\ end.encErr \in BOOLEAN /\ end.misplaced \in BOOLEAN
  BY <1>4 DEF Stores
<1> QED BY <1>4, <1>5, <1>6, Zenon DEF KeptFiles

(* An event handed to processEvent is settled or waits in the batch, and so does
   what was in the batch before. *)
LEMMA ProcessStep ==
    ASSUME FileTypes, HoldNewest(files, records, misplaced), BatchTimed, NEW e \in AEvents, processEvent(e)
    PROVE  /\ FileTypes' /\ HoldNewest(files', records', misplaced') /\ BatchTimed'
           /\ \A x \in AEvents : aFate'[x] = "open" =>
                  aFate[x] = "open" /\ (x = e \/ x \in Range(batch) => x \in Range(batch'))
<1> DEFINE b == Append(batch, e)
           n == Len(batch)
<1>1. batch \in Seq(AEvents) /\ n \in Nat /\ DOMAIN batch = 1 .. n
  BY LenProperties DEF FileTypes
<1>2. /\ b \in Seq(AEvents) /\ Len(b) = n + 1 /\ DOMAIN b = 1 .. n + 1
      /\ (\A i \in 1 .. n : b[i] = batch[i]) /\ b[n + 1] = e
  BY <1>1, AppendProperties, LenProperties
<1>3. Range(b) = Range(batch) \cup {e}
  <2> HIDE DEF b, n
  <2>1. 1 .. n + 1 = 1 .. n \cup {n + 1}
    BY <1>1
  <2> QED BY <1>1, <1>2, <2>1 DEF Range
<1>4. flushes' = flushes /\ flushes \in Nat
  BY DEF processEvent, FileTypes
<1>5. CASE flushLocked(b)
  <2>1. /\ batch' = << >> /\ broken' \in BOOLEAN /\ encErr' \in BOOLEAN /\ misplaced' \in BOOLEAN /\ files' \in FileSets
        /\ records' \in Seq(Records) /\ aFate' \in [AEvents -> Fates] /\ HoldNewest(files', records', misplaced')
        /\ \A x \in AEvents : aFate'[x] = "open" => aFate[x] = "open" /\ x \notin Range(b)
    <3> HIDE DEF b
    <3> QED BY <1>2, <1>5, FlushStep
  <2>2. FileTypes'
    BY <1>4, <2>1 DEF FileTypes
  <2>3. BatchTimed'
    BY <2>1 DEF BatchTimed
  <2> HIDE DEF b
  <2> QED BY <1>3, <2>1, <2>2, <2>3
<1>6. CASE /\ batch' = b /\ flushTimer' = (IF Len(b) = 1 THEN "armed" ELSE flushTimer)
           /\ UNCHANGED <<files, broken, encErr, misplaced, records, aFate, faults>>
  <2>1. FileTypes' /\ HoldNewest(files', records', misplaced')
    BY <1>2, <1>4, <1>6 DEF FileTypes
  <2>2. BatchTimed'
    <3>1. CASE n = 0
      BY <1>2, <1>6, <3>1 DEF BatchTimed
    <3>2. CASE n # 0
      <4>1. batch # << >> /\ Len(b) # 1
        BY <1>1, <1>2, <3>2
      <4> QED BY <1>4, <1>6, <4>1 DEF BatchTimed
    <3> QED BY <3>1, <3>2
  <2> HIDE DEF b
  <2> QED BY <1>3, <1>6, <2>1, <2>2
<1>7. CASE aFate' = [aFate EXCEPT ![e] = "rejected"] /\ UNCHANGED <<batch, flushTimer, files, broken, encErr, misplaced, records, faults>>
  <2>1. FileTypes' /\ HoldNewest(files', records', misplaced') /\ BatchTimed'
    BY <1>4, <1>7 DEF FileTypes, BatchTimed, Fates
  <2>2. aFate'[e] = "rejected" /\ \A x \in AEvents \ {e} : aFate'[x] = aFate[x]
    BY <1>7 DEF FileTypes
  <2> QED BY <1>7, <2>1, <2>2
<1> QED BY <1>5, <1>6, <1>7 DEF processEvent, BatchAdd, fileVars

(* LogAsync and Log. *)
LEMMA LogStep ==
    ASSUME AuditInv, NEW e \in AEvents, LogAsync(e) \/ Log(e)
    PROVE  AuditInv'
<1>0. AuditTypes /\ FileTypes /\ HoldNewest(files, records, misplaced) /\ WorkersDrain /\ BatchTimed /\ EventCarried
  BY DEF AuditInv
<1>1. aCaller' = [aCaller EXCEPT ![e] = "left"] /\ UNCHANGED <<aWorker, aDone, aClosed>>
  BY DEF LogAsync, Log
<1>2. aCaller' \in [AEvents -> {"new", "left"}] /\ \A x \in AEvents \ {e} : aCaller'[x] = aCaller[x]
  BY <1>0, <1>1 DEF AuditTypes
<1>3. CASE LogAsync(e)
  <2>1. /\ eventCh' = Append(eventCh, e) /\ late' = (IF aDone THEN late \cup {e} ELSE late)
        /\ UNCHANGED <<batch, flushTimer, flushes, files, broken, encErr, misplaced, records, aFate, faults>>
    BY <1>3 DEF LogAsync, storeVars, fileVars
  <2> DEFINE n == Len(eventCh)
  <2>2. eventCh \in Seq(AEvents) /\ n \in Nat /\ DOMAIN eventCh = 1 .. n
    BY <1>0, LenProperties DEF AuditTypes
  <2>3. /\ eventCh' \in Seq(AEvents) /\ DOMAIN eventCh' = 1 .. n + 1
        /\ (\A i \in 1 .. n : eventCh'[i] = eventCh[i]) /\ eventCh'[n + 1] = e
    BY <2>1, <2>2, AppendProperties, LenProperties
  <2>4. Range(eventCh') = Range(eventCh) \cup {e}
    <3> HIDE DEF n
    <3>1. 1 .. n + 1 = 1 .. n \cup {n + 1}
      BY <2>2
    <3> QED BY <2>2, <2>3, <3>1 DEF Range
  <2>5. AuditTypes'
    BY <1>0, <1>1, <1>2, <2>3 DEF AuditTypes
  <2>6. FileTypes' /\ HoldNewest(files', records', misplaced') /\ BatchTimed'
    BY <1>0, <2>1 DEF FileTypes, BatchTimed
  <2>7. WorkersDrain'
    <3>1. ASSUME NEW w \in AWorkers, aWorker[w].pc = "exited" PROVE Range(eventCh') \subseteq late'
      <4>1. aDone /\ Range(eventCh) \subseteq late
        BY <1>0, <3>1 DEF WorkersDrain
      <4> QED BY <2>1, <2>4, <4>1
    <3> QED BY <1>0, <1>1, <3>1 DEF WorkersDrain
  <2>8. EventCarried'
    BY <1>0, <1>1, <1>2, <2>1, <2>4 DEF EventCarried
  <2> QED BY <2>5, <2>6, <2>7, <2>8 DEF AuditInv
<1>4. CASE Log(e)
  <2>1. processEvent(e) /\ UNCHANGED <<eventCh, late>>
    BY <1>4 DEF Log
  <2>2. /\ FileTypes' /\ HoldNewest(files', records', misplaced') /\ BatchTimed'
        /\ \A x \in AEvents : aFate'[x] = "open" =>
               aFate[x] = "open" /\ (x = e \/ x \in Range(batch) => x \in Range(batch'))
    BY <1>0, <2>1, ProcessStep
  <2>3. AuditTypes' /\ WorkersDrain'
    BY <1>0, <1>1, <1>2, <2>1 DEF AuditTypes, WorkersDrain
  <2>4. EventCarried'
    BY <1>0, <1>1, <1>2, <2>1, <2>2 DEF EventCarried
  <2> QED BY <2>2, <2>3, <2>4 DEF AuditInv
<1> QED BY <1>3, <1>4

(* A worker takes an event, processes it, or leaves. *)
LEMMA WorkerStep ==
    ASSUME AuditInv, NEW w \in AWorkers, Worker(w)
    PROVE  AuditInv'
<1>0. AuditTypes /\ FileTypes /\ HoldNewest(files, records, misplaced) /\ WorkersDrain /\ BatchTimed /\ EventCarried
  BY DEF AuditInv
<1>1. UNCHANGED <<aCaller, aDone, aClosed, late>>
  BY DEF Worker, WorkerTakes, WorkerProcesses, WorkerQuits
<1> DEFINE Pcs == {"select", "hold", "drain", "drainHold", "exited"}
<1>2. aWorker \in [AWorkers -> [pc : Pcs, ev : AEvents \cup {NoEvent}]]
  BY <1>0 DEF AuditTypes
<1>3. CASE WorkerTakes(w)
  <2> DEFINE e == Head(eventCh)
             to == IF aWorker[w].pc = "select" THEN "hold" ELSE "drainHold"
  <2>1. /\ aWorker[w].pc \in {"select", "drain"} /\ eventCh # << >> /\ eventCh' = Tail(eventCh)
        /\ aWorker' = [aWorker EXCEPT ![w] = [pc |-> to, ev |-> e]]
        /\ UNCHANGED <<batch, flushTimer, flushes, files, broken, encErr, misplaced, records, aFate, faults>>
    BY <1>3 DEF WorkerTakes, storeVars, fileVars
  <2>2. /\ e \in AEvents /\ eventCh' \in Seq(AEvents) /\ Range(eventCh') \subseteq Range(eventCh)
        /\ Range(eventCh) \subseteq Range(eventCh') \cup {e}
    <3> DEFINE n == Len(eventCh)
    <3>1. eventCh \in Seq(AEvents) /\ n \in Nat /\ DOMAIN eventCh = 1 .. n /\ \A i \in 1 .. n : eventCh[i] \in AEvents
      BY <1>0, LenProperties DEF AuditTypes
    <3>2. n > 0
      BY <2>1, <3>1, EmptySeq
    <3>3. /\ e = eventCh[1] /\ eventCh' \in Seq(AEvents) /\ Len(eventCh') = n - 1
          /\ \A i \in 1 .. n - 1 : eventCh'[i] = eventCh[i + 1]
      BY <2>1, <3>1, HeadTailProperties
    <3>4. DOMAIN eventCh' = 1 .. n - 1
      BY <3>3, LenProperties
    <3> HIDE DEF n, e
    <3>5. ASSUME NEW i \in 1 .. n - 1 PROVE i + 1 \in 1 .. n
      BY <3>1, <3>2
    <3>6. ASSUME NEW i \in 1 .. n, i # 1 PROVE i - 1 \in 1 .. n - 1 /\ (i - 1) + 1 = i
      BY <3>1, <3>6
    <3>7. Range(eventCh') \subseteq Range(eventCh)
      BY <3>1, <3>3, <3>4, <3>5 DEF Range
    <3>8. ASSUME NEW x \in Range(eventCh) PROVE x \in Range(eventCh') \cup {e}
      <4>1. PICK i \in 1 .. n : x = eventCh[i]
        BY <3>1 DEF Range
      <4>2. CASE i = 1
        BY <3>3, <4>1, <4>2
      <4>3. CASE i # 1
        <5>1. x = eventCh'[i - 1]
          BY <3>3, <3>6, <4>1, <4>3
        <5> QED BY <3>4, <3>6, <4>3, <5>1 DEF Range
      <4> QED BY <4>2, <4>3
    <3>9. e \in AEvents
      BY <3>1, <3>2, <3>3
    <3> QED BY <3>3, <3>7, <3>8, <3>9
  <2> HIDE DEF e
  <2>3. /\ aWorker' \in [AWorkers -> [pc : Pcs, ev : AEvents \cup {NoEvent}]]
        /\ aWorker'[w] = [pc |-> to, ev |-> e] /\ \A v \in AWorkers \ {w} : aWorker'[v] = aWorker[v]
    BY <1>2, <2>1, <2>2
  <2>4. aWorker'[w].pc = to /\ aWorker'[w].ev = e /\ e # NoEvent
    BY <2>2, <2>3, AuditAssumption
  <2>5. AuditTypes'
    BY <1>0, <1>1, <2>2, <2>3 DEF AuditTypes
  <2>6. FileTypes' /\ HoldNewest(files', records', misplaced') /\ BatchTimed'
    BY <1>0, <2>1 DEF FileTypes, BatchTimed
  <2>7. WorkersDrain'
    <3>1. to = "hold" \/ (to = "drainHold" /\ aWorker[w].pc = "drain")
      BY <2>1
    <3>2. aClosed = "no"
      BY <1>0, <2>1 DEF WorkersDrain, AuditTypes
    <3> HIDE DEF to
    <3>3. \A v \in AWorkers : aWorker'[v].ev # NoEvent <=> aWorker'[v].pc \in {"hold", "drainHold"}
      BY <1>0, <2>3, <2>4, <3>1 DEF WorkersDrain
    <3>4. \A v \in AWorkers : aWorker'[v].pc \in {"drain", "drainHold", "exited"} => aDone'
      BY <1>0, <1>1, <2>3, <2>4, <3>1 DEF WorkersDrain
    <3>5. \A v \in AWorkers : aWorker'[v].pc = "exited" => Range(eventCh') \subseteq late'
      BY <1>0, <1>1, <2>2, <2>3, <2>4, <3>1 DEF WorkersDrain
    <3> QED BY <1>1, <3>2, <3>3, <3>4, <3>5 DEF WorkersDrain
  <2>8. EventCarried'
    <3>1. aWorker[w].ev = NoEvent
      BY <1>0, <2>1 DEF WorkersDrain
    <3>2. \A x \in AEvents : x # NoEvent
      BY AuditAssumption
    <3> QED BY <1>0, <1>1, <2>1, <2>2, <2>3, <2>4, <3>1, <3>2 DEF EventCarried
  <2> QED BY <2>5, <2>6, <2>7, <2>8 DEF AuditInv
<1>4. CASE WorkerProcesses(w)
  <2> DEFINE e == aWorker[w].ev
             to == IF aWorker[w].pc = "hold" THEN "select" ELSE "drain"
  <2>1. /\ aWorker[w].pc \in {"hold", "drainHold"} /\ processEvent(e) /\ UNCHANGED eventCh
        /\ aWorker' = [aWorker EXCEPT ![w] = [pc |-> to, ev |-> NoEvent]]
    BY <1>4 DEF WorkerProcesses
  <2>2. e \in AEvents
    BY <1>0, <1>2, <2>1 DEF WorkersDrain
  <2>3. /\ FileTypes' /\ HoldNewest(files', records', misplaced') /\ BatchTimed'
        /\ \A x \in AEvents : aFate'[x] = "open" =>
               aFate[x] = "open" /\ (x = e \/ x \in Range(batch) => x \in Range(batch'))
    <3> HIDE DEF e
    <3> QED BY <1>0, <2>1, <2>2, ProcessStep
  <2>4. /\ aWorker' \in [AWorkers -> [pc : Pcs, ev : AEvents \cup {NoEvent}]]
        /\ aWorker'[w] = [pc |-> to, ev |-> NoEvent] /\ \A v \in AWorkers \ {w} : aWorker'[v] = aWorker[v]
    BY <1>2, <2>1
  <2>5. aWorker'[w].pc = to /\ aWorker'[w].ev = NoEvent
    BY <2>4
  <2>6. AuditTypes'
    BY <1>0, <1>1, <2>1, <2>4 DEF AuditTypes
  <2>7. WorkersDrain'
    <3>1. to = "select" \/ (to = "drain" /\ aWorker[w].pc = "drainHold")
      BY <2>1
    <3>2. aClosed = "no"
      BY <1>0, <2>1 DEF WorkersDrain, AuditTypes
    <3> HIDE DEF to, e
    <3>3. \A v \in AWorkers : aWorker'[v].ev # NoEvent <=> aWorker'[v].pc \in {"hold", "drainHold"}
      BY <1>0, <2>4, <2>5, <3>1 DEF WorkersDrain
    <3>4. \A v \in AWorkers : aWorker'[v].pc \in {"drain", "drainHold", "exited"} => aDone'
      BY <1>0, <1>1, <2>4, <2>5, <3>1 DEF WorkersDrain
    <3>5. \A v \in AWorkers : aWorker'[v].pc = "exited" => Range(eventCh') \subseteq late'
      BY <1>0, <1>1, <2>1, <2>4, <2>5, <3>1 DEF WorkersDrain
    <3> QED BY <1>1, <3>2, <3>3, <3>4, <3>5 DEF WorkersDrain
  <2>8. EventCarried'
    <3> HIDE DEF to
    <3> QED BY <1>0, <1>1, <2>1, <2>3, <2>4, <2>5 DEF EventCarried
  <2> QED BY <2>3, <2>6, <2>7, <2>8 DEF AuditInv
<1>5. CASE WorkerQuits(w)
  <2> DEFINE to == aWorker'[w].pc
  <2>1. UNCHANGED <<eventCh, batch, flushTimer, flushes, files, broken, encErr, misplaced, records, aFate, faults>>
    BY <1>5 DEF WorkerQuits, storeVars, fileVars
  <2>2. /\ aWorker' \in [AWorkers -> [pc : Pcs, ev : AEvents \cup {NoEvent}]]
        /\ aWorker'[w].ev = aWorker[w].ev /\ \A v \in AWorkers \ {w} : aWorker'[v] = aWorker[v]
        /\ \/ aWorker[w].pc = "select" /\ aDone /\ to = "drain"
           \/ aWorker[w].pc = "drain" /\ eventCh = << >> /\ to = "exited"
    BY <1>2, <1>5 DEF WorkerQuits
  <2>3. AuditTypes'
    BY <1>0, <1>1, <2>1, <2>2 DEF AuditTypes
  <2>4. FileTypes' /\ HoldNewest(files', records', misplaced') /\ BatchTimed'
    BY <1>0, <2>1 DEF FileTypes, BatchTimed
  <2>5. WorkersDrain'
    <3>2. aClosed = "no"
      BY <1>0, <2>2 DEF WorkersDrain, AuditTypes
    <3>3. \A v \in AWorkers : aWorker'[v].ev # NoEvent <=> aWorker'[v].pc \in {"hold", "drainHold"}
      BY <1>0, <2>2 DEF WorkersDrain
    <3>4. \A v \in AWorkers : aWorker'[v].pc \in {"drain", "drainHold", "exited"} => aDone'
      BY <1>0, <1>1, <2>2 DEF WorkersDrain
    <3>5. ASSUME NEW v \in AWorkers, aWorker'[v].pc = "exited" PROVE Range(eventCh') \subseteq late'
      <4>1. CASE v = w
        <5>1. eventCh' = << >>
          BY <2>1, <2>2, <3>5, <4>1
        <5> QED BY <5>1 DEF Range
      <4>2. CASE v # w
        BY <1>0, <1>1, <2>1, <2>2, <3>5, <4>2 DEF WorkersDrain
      <4> QED BY <4>1, <4>2
    <3> QED BY <1>1, <3>2, <3>3, <3>4, <3>5 DEF WorkersDrain
  <2>6. EventCarried'
    BY <1>0, <1>1, <2>1, <2>2 DEF EventCarried
  <2> QED BY <2>3, <2>4, <2>5, <2>6 DEF AuditInv
<1> QED BY <1>3, <1>4, <1>5 DEF Worker

(* The timer, Close and Query. *)
LEMMA CloseStep ==
    ASSUME AuditInv, AuditClose \/ AuditCloseReturns \/ TimerFires \/ TimedFlush \/ BatchClose \/ Query \/ QueryEnds
    PROVE  AuditInv'
<1>0. /\ AuditTypes /\ FileTypes /\ HoldNewest(files, records, misplaced) /\ WorkersDrain /\ BatchTimed /\ EventCarried
      /\ batch \in Seq(AEvents) /\ flushes \in Nat
  BY DEF AuditInv, FileTypes
<1>1. UNCHANGED <<aCaller, eventCh, aWorker, late>>
  BY DEF AuditClose, AuditCloseReturns, TimerFires, TimedFlush, BatchClose, Query, QueryEnds
<1>2. AuditTypes' /\ WorkersDrain'
  <2>1. \/ UNCHANGED <<aDone, aClosed>>
        \/ aDone' = TRUE /\ UNCHANGED aClosed
        \/ UNCHANGED aDone /\ aClosed' = "returned" /\ \A w \in AWorkers : aWorker[w].pc = "exited"
        \/ UNCHANGED aDone /\ aClosed # "no" /\ aClosed' \in {"flushed", "closed"}
    BY DEF AuditClose, AuditCloseReturns, TimerFires, TimedFlush, BatchClose, Query, QueryEnds
  <2> QED BY <1>0, <1>1, <2>1 DEF AuditTypes, WorkersDrain
<1>3. CASE UNCHANGED storeVars
  <2>1. FileTypes' /\ HoldNewest(files', records', misplaced') /\ BatchTimed'
    BY <1>0, <1>3 DEF FileTypes, BatchTimed, storeVars, fileVars
  <2>2. EventCarried'
    BY <1>0, <1>1, <1>3 DEF EventCarried, storeVars, fileVars
  <2> QED BY <1>2, <2>1, <2>2 DEF AuditInv
<1>4. CASE TimerFires
  <2>1. flushes' = flushes + 1 /\ UNCHANGED <<batch, files, broken, encErr, misplaced, records, aFate>>
    BY <1>4 DEF TimerFires, fileVars
  <2>2. flushes' \in Nat /\ flushes' > 0
    BY <1>0, <2>1
  <2>3. FileTypes' /\ HoldNewest(files', records', misplaced') /\ BatchTimed'
    BY <1>0, <2>1, <2>2 DEF FileTypes, BatchTimed
  <2>4. EventCarried'
    BY <1>0, <1>1, <2>1 DEF EventCarried
  <2> QED BY <1>2, <2>3, <2>4 DEF AuditInv
<1>5. CASE flushLocked(batch) /\ flushes' \in Nat
  <2>1. /\ batch' = << >> /\ broken' \in BOOLEAN /\ encErr' \in BOOLEAN /\ misplaced' \in BOOLEAN /\ files' \in FileSets
        /\ records' \in Seq(Records) /\ aFate' \in [AEvents -> Fates] /\ HoldNewest(files', records', misplaced')
        /\ \A x \in AEvents : aFate'[x] = "open" => aFate[x] = "open" /\ x \notin Range(batch)
    BY <1>0, <1>5, FlushStep
  <2>2. FileTypes' /\ BatchTimed'
    BY <1>5, <2>1 DEF FileTypes, BatchTimed
  <2>3. EventCarried'
    BY <1>0, <1>1, <2>1 DEF EventCarried
  <2> QED BY <1>2, <2>1, <2>2, <2>3 DEF AuditInv
<1>6. CASE /\ batch = << >> /\ flushes' \in Nat /\ UNCHANGED <<batch, flushTimer, files, broken, encErr, misplaced, records, aFate, faults>>
  <2>1. FileTypes' /\ HoldNewest(files', records', misplaced') /\ BatchTimed'
    BY <1>0, <1>6 DEF FileTypes, BatchTimed
  <2>2. EventCarried'
    BY <1>0, <1>1, <1>6 DEF EventCarried
  <2> QED BY <1>2, <2>1, <2>2 DEF AuditInv
<1>7. CASE broken' = TRUE /\ UNCHANGED <<batch, flushTimer, flushes, files, encErr, misplaced, records, aFate, faults>>
  <2>1. FileTypes' /\ HoldNewest(files', records', misplaced') /\ BatchTimed'
    BY <1>0, <1>7 DEF FileTypes, BatchTimed
  <2>2. EventCarried'
    BY <1>0, <1>1, <1>7 DEF EventCarried
  <2> QED BY <1>2, <2>1, <2>2 DEF AuditInv
<1>8. TimedFlush => flushes' \in Nat
  BY <1>0 DEF TimedFlush
<1>9. CASE TimedFlush
  BY <1>5, <1>6, <1>8, <1>9 DEF TimedFlush, fileVars
<1>10. CASE BatchClose
  BY <1>0, <1>3, <1>5, <1>7, <1>10 DEF BatchClose
<1>11. CASE AuditClose \/ AuditCloseReturns \/ Query \/ QueryEnds
  BY <1>3, <1>11 DEF AuditClose, AuditCloseReturns, Query, QueryEnds
<1> QED BY <1>4, <1>9, <1>10, <1>11

(* Every step of the audit log keeps the invariant. *)
LEMMA AuditStep == AuditInv /\ [AuditNext]_auditVars => AuditInv'
<1> SUFFICES ASSUME AuditInv, [AuditNext]_auditVars PROVE AuditInv'
  OBVIOUS
<1>1. CASE AuditNext
  BY <1>1, LogStep, WorkerStep, CloseStep DEF AuditNext
<1>2. CASE UNCHANGED auditVars
  BY <1>2 DEF auditVars, fileVars, AuditInv, AuditTypes, FileTypes, WorkersDrain, BatchTimed, EventCarried
<1> QED BY <1>1, <1>2

-----------------------------------------------------------------------------
(* The parts of the system, each under its own invariant. *)

-----------------------------------------------------------------------------
(* Cron expressions: CronExpr.Next jumps over months, days and hours.  It skips
   no match because the calendar fields of a time are in the order of time and a
   month, a day or an hour that does not match does so in all its minutes.  The
   calendar is any: hours, days and months of any length. *)

(* Multiples of a number are in the order of what they are multiples of. *)
LEMMA InOrder ==
    ASSUME NEW a \in Int, NEW b \in Int, NEW k \in Nat, a <= b
    PROVE  a * k <= b * k /\ a * k \in Int /\ b * k \in Int /\ (a + 1) * k = a * k + k
<1>1. (b - a) * k >= 0
  <2>1. b - a \in Nat
    OBVIOUS
  <2> DEFINE c == b - a
  <2> HIDE DEF c
  <2>2. c * k >= 0
    BY <2>1 DEF c
  <2> QED BY <2>2 DEF c
<1>2. (b - a) * k = b * k - a * k
  OBVIOUS
<1>3. a * k \in Int /\ b * k \in Int
  OBVIOUS
<1>4. (a + 1) * k = a * k + k
  OBVIOUS
<1> DEFINE x == a * k
           y == b * k
<1>5. y - x >= 0
  BY <1>1, <1>2
<1>6. x <= y
  <2> HIDE DEF x, y
  <2> QED BY <1>3, <1>5 DEF x, y
<1> QED BY <1>3, <1>4, <1>6

(* Quotient and remainder. *)
LEMMA Divided ==
    ASSUME NEW a \in Int, NEW k \in Nat, k > 0
    PROVE  a \div k \in Int /\ a % k \in 0 .. k - 1 /\ a = (a \div k) * k + (a % k)
OBVIOUS

(* ... which are the only ones there are. *)
LEMMA DividedOnce ==
    ASSUME NEW a \in Int, NEW k \in Nat, k > 0, NEW q \in Int, NEW r \in 0 .. k - 1, a = q * k + r
    PROVE  a \div k = q /\ a % k = r
<1> DEFINE p == a \div k
           s == a % k
<1>1. p \in Int /\ s \in 0 .. k - 1 /\ a = p * k + s
  BY Divided
<1> HIDE DEF p, s
<1>2. ~(p < q)
  <2> SUFFICES ASSUME p < q PROVE FALSE
    OBVIOUS
  <2>1. p + 1 \in Int /\ p + 1 <= q
    BY <1>1
  <2>2. (p + 1) * k <= q * k
    BY <2>1, InOrder
  <2>3. (p + 1) * k = p * k + k
    BY <1>1, InOrder
  <2> DEFINE x == p * k
             y == q * k
             z == (p + 1) * k
  <2>4. x \in Int /\ y \in Int /\ z \in Int /\ z <= y /\ z = x + k /\ a = x + s /\ a = y + r
    BY <1>1, <2>2, <2>3
  <2> HIDE DEF x, y, z
  <2> QED BY <1>1, <2>4
<1>3. ~(q < p)
  <2> SUFFICES ASSUME q < p PROVE FALSE
    OBVIOUS
  <2>1. q + 1 \in Int /\ q + 1 <= p
    BY <1>1
  <2>2. (q + 1) * k <= p * k
    BY <1>1, <2>1, InOrder
  <2>3. (q + 1) * k = q * k + k
    BY <1>1, InOrder
  <2> DEFINE x == p * k
             y == q * k
             z == (q + 1) * k
  <2>4. x \in Int /\ y \in Int /\ z \in Int /\ z <= x /\ z = y + k /\ a = x + s /\ a = y + r
    BY <1>1, <2>2, <2>3
  <2> HIDE DEF x, y, z
  <2> QED BY <1>1, <2>4
<1>4. p = q
  BY <1>1, <1>2, <1>3
<1>5. s = r
  <2> DEFINE x == q * k
  <2>1. x \in Int /\ a = x + s /\ a = x + r
    BY <1>1, <1>4
  <2> HIDE DEF x
  <2> QED BY <1>1, <2>1
<1> QED BY <1>4, <1>5 DEF p, s

(* A local time is a day, an hour and a minute ... *)
LEMMA ClockOf ==
    ASSUME NEW d \in Int, NEW h \in 0 .. HoursPerDay - 1, NEW mi \in 0 .. MinutesPerHour - 1,
           NEW l, l = d * DayLength + h * MinutesPerHour + mi
    PROVE  Day(l) = d /\ HourOf(l) = h /\ MinuteOf(l) = mi /\ l \in Int
<1> DEFINE M == MinutesPerHour
           H == HoursPerDay
<1>0. M \in Nat /\ M > 0 /\ H \in Nat /\ H > 0
  BY CronAssumption
<1>1. DayLength = H * M /\ DayLength \in Nat
  BY <1>0 DEF DayLength
<1>2. h * M \in Int /\ h * M >= 0 /\ h * M <= (H - 1) * M /\ (H - 1) * M + M = H * M
  <2>1. h \in Nat /\ h <= H - 1 /\ H - 1 \in Int /\ 0 <= h
    BY <1>0
  <2>2. h * M <= (H - 1) * M /\ (H - 1 + 1) * M = (H - 1) * M + M
    BY <1>0, <2>1, InOrder
  <2>3. 0 * M <= h * M
    BY <1>0, <2>1, InOrder
  <2>4. 0 * M = 0 /\ H - 1 + 1 = H
    BY <1>0
  <2> QED BY <1>0, <2>1, <2>2, <2>3, <2>4
<1> DEFINE r == h * M + mi
           DL == DayLength
<1>3. r \in 0 .. DL - 1 /\ DL \in Nat /\ DL > 0
  <2> DEFINE x == h * M
             y == (H - 1) * M
  <2>1. x \in Int /\ x >= 0 /\ x <= y /\ y + M = DL /\ y \in Int
    BY <1>0, <1>1, <1>2
  <2> HIDE DEF x, y, M, DL
  <2> QED BY <1>0, <1>1, <2>1 DEF M, DL, x
<1>4. l = d * DL + r /\ l \in Int /\ d * DL \in Int
  <2> DEFINE x == h * M
             y == d * DL
  <2>1. x \in Int /\ y \in Int /\ l = y + x + mi
    BY <1>0, <1>1, <1>2
  <2>2. l = y + (x + mi) /\ l \in Int
    <3> HIDE DEF x, y
    <3> QED BY <1>0, <2>1
  <2> QED BY <2>1, <2>2
<1>5. l \div DL = d /\ l % DL = r
  <2> HIDE DEF r, DL
  <2> QED BY <1>3, <1>4, DividedOnce
<1>6. r \div M = h
  <2> HIDE DEF M
  <2>1. r \in Int /\ h \in Int /\ mi \in 0 .. M - 1
    BY <1>0, <1>3 DEF M
  <2> HIDE DEF r
  <2> QED BY <1>0, <2>1, DividedOnce DEF r
<1>7. l % M = mi
  <2> DEFINE q == d * H + h
  <2>1. q \in Int
    BY <1>0
  <2>2. q * M = d * (H * M) + h * M
    <3>1. (d * H + h) * M = (d * H) * M + h * M
      BY <1>0
    <3>2. (d * H) * M = d * (H * M)
      BY <1>0
    <3> QED BY <3>1, <3>2
  <2>3. l = q * M + mi
    BY <1>1, <2>2
  <2>4. mi \in 0 .. M - 1
    OBVIOUS
  <2> HIDE DEF q, M
  <2>5. l \in Int /\ M \in Nat /\ M > 0
    BY <1>0, <1>4
  <2> QED BY <2>1, <2>3, <2>4, <2>5, DividedOnce, Zenon
<1> QED BY <1>4, <1>5, <1>6, <1>7 DEF Day, HourOf, MinuteOf

(* ... and every time has these. *)
LEMMA HasClock ==
    ASSUME NEW l \in Int
    PROVE  /\ Day(l) \in Int /\ HourOf(l) \in 0 .. HoursPerDay - 1 /\ MinuteOf(l) \in 0 .. MinutesPerHour - 1
           /\ l = Day(l) * DayLength + HourOf(l) * MinutesPerHour + MinuteOf(l)
<1> DEFINE M == MinutesPerHour
           H == HoursPerDay
           DL == DayLength
<1>0. M \in Nat /\ M > 0 /\ H \in Nat /\ H > 0
  BY CronAssumption
<1>1. DL = H * M /\ DL \in Nat /\ DL > 0
  <2>1. H * M \in Nat /\ H * M > 0
    BY <1>0
  <2> QED BY <1>0, <2>1 DEF DayLength
<1> DEFINE d == l \div DL
           r == l % DL
           h == r \div M
           mi == r % M
<1>2. d \in Int /\ r \in 0 .. DL - 1 /\ l = d * DL + r
  <2> HIDE DEF DL
  <2> QED BY <1>1, Divided
<1>3. h \in Int /\ mi \in 0 .. M - 1 /\ r = h * M + mi
  <2>1. r \in Int
    BY <1>1, <1>2
  <2> HIDE DEF r, M
  <2> QED BY <1>0, <2>1, Divided
<1> HIDE DEF d, r, h, mi
<1>4. h >= 0
  <2> SUFFICES ASSUME h < 0 PROVE FALSE
    BY <1>3
  <2>1. h + 1 \in Int /\ h + 1 <= 0
    BY <1>3
  <2>2. (h + 1) * M <= 0 * M /\ (h + 1) * M = h * M + M
    BY <1>0, <1>3, <2>1, InOrder
  <2>3. 0 * M = 0 /\ h * M \in Int
    BY <1>0, <1>3
  <2> DEFINE x == h * M
  <2>4. x \in Int /\ x + M <= 0 /\ r = x + mi /\ r >= 0 /\ r \in Int
    BY <1>1, <1>2, <1>3, <2>2, <2>3
  <2> HIDE DEF x
  <2> QED BY <1>0, <1>3, <2>4
<1>5. h < H
  <2> SUFFICES ASSUME H <= h PROVE FALSE
    BY <1>0, <1>3
  <2>1. H * M <= h * M
    BY <1>0, <1>3, InOrder
  <2> DEFINE x == h * M
  <2>2. x \in Int /\ DL <= x /\ r = x + mi /\ r < DL /\ r \in Int
    BY <1>0, <1>1, <1>2, <1>3, <2>1
  <2> HIDE DEF x, DL
  <2> QED BY <1>0, <1>1, <1>3, <2>2
<1>6. h \in 0 .. H - 1
  BY <1>0, <1>3, <1>4, <1>5
<1>7. l = d * DL + h * M + mi
  <2> DEFINE x == h * M
             y == d * DL
  <2>1. x \in Int /\ y \in Int /\ l = y + r /\ r = x + mi
    BY <1>0, <1>1, <1>2, <1>3
  <2> HIDE DEF x, y
  <2>2. l = y + x + mi
    BY <1>0, <1>3, <2>1
  <2> QED BY <2>2 DEF x, y
<1>8. Day(l) = d /\ HourOf(l) = h /\ MinuteOf(l) = mi
  BY <1>2, <1>3, <1>6, <1>7, ClockOf
<1> QED BY <1>2, <1>3, <1>6, <1>7, <1>8

(* ... and times are in the order of these. *)
LEMMA InTimeOrder ==
    ASSUME NEW k \in Int, NEW l \in Int, k <= l
    PROVE  \/ Day(k) < Day(l)
           \/ Day(k) = Day(l) /\ HourOf(k) < HourOf(l)
           \/ Day(k) = Day(l) /\ HourOf(k) = HourOf(l) /\ MinuteOf(k) <= MinuteOf(l)
<1> DEFINE M == MinutesPerHour
           DL == DayLength
           d == Day(k)
           e == Day(l)
           h == HourOf(k)
           i == HourOf(l)
           m == MinuteOf(k)
           n == MinuteOf(l)
<1>0. M \in Nat /\ M > 0 /\ HoursPerDay \in Nat /\ DL \in Nat /\ DL = HoursPerDay * M
  BY CronAssumption DEF DayLength
<1>1. /\ d \in Int /\ h \in 0 .. HoursPerDay - 1 /\ m \in 0 .. M - 1 /\ k = d * DL + h * M + m
      /\ e \in Int /\ i \in 0 .. HoursPerDay - 1 /\ n \in 0 .. M - 1 /\ l = e * DL + i * M + n
  BY HasClock
<1> HIDE DEF d, e, h, i, m, n, DL, M
<1> DEFINE a == d * DL
           b == e * DL
           x == h * M
           y == i * M
<1>2. a \in Int /\ b \in Int /\ x \in Int /\ y \in Int /\ k = a + x + m /\ l = b + y + n
  BY <1>0, <1>1
<1>3. 0 <= x /\ x + M <= DL /\ 0 <= y /\ y + M <= DL
  <2>1. ASSUME NEW g \in 0 .. HoursPerDay - 1 PROVE 0 <= g * M /\ g * M + M <= DL
    <3>1. g \in Int /\ 0 <= g /\ g + 1 <= HoursPerDay /\ HoursPerDay \in Int /\ g + 1 \in Int
      BY <1>0
    <3>2. 0 * M <= g * M /\ (g + 1) * M <= HoursPerDay * M
      BY <1>0, <3>1, InOrder
    <3>3. (g + 1) * M = g * M + M /\ 0 * M = 0
      BY <1>0, <3>1
    <3> QED BY <1>0, <3>2, <3>3
  <2> QED BY <1>1, <2>1
<1>4. CASE e < d
  <2>1. e + 1 \in Int /\ e + 1 <= d
    BY <1>1, <1>4
  <2>2. (e + 1) * DL <= d * DL /\ (e + 1) * DL = e * DL + DL
    BY <1>0, <1>1, <2>1, InOrder
  <2>3. b + DL <= a
    BY <2>2
  <2> HIDE DEF a, b, x, y
  <2>4. FALSE
    BY <1>0, <1>1, <1>2, <1>3, <2>3
  <2> QED BY <2>4
<1>5. CASE d = e /\ i < h
  <2>1. i + 1 \in Int /\ i + 1 <= h /\ i \in Int /\ h \in Int
    BY <1>0, <1>1, <1>5
  <2>2. (i + 1) * M <= h * M /\ (i + 1) * M = i * M + M
    BY <1>0, <2>1, InOrder
  <2>3. y + M <= x /\ a = b
    BY <1>5, <2>2
  <2> HIDE DEF a, b, x, y
  <2>4. FALSE
    BY <1>0, <1>1, <1>2, <1>3, <2>3
  <2> QED BY <2>4
<1>6. CASE d = e /\ h = i
  <2>1. a = b /\ x = y
    BY <1>6
  <2> HIDE DEF a, b, x, y
  <2>2. m <= n
    BY <1>0, <1>1, <1>2, <2>1
  <2> QED BY <1>6, <2>2 DEF d, e, h, i, m, n
<1>7. CASE d < e
  BY <1>7 DEF d, e
<1>8. CASE d = e /\ h < i
  BY <1>8 DEF d, e, h, i
<1>9. (d < e \/ e < d \/ d = e) /\ (h < i \/ i < h \/ h = i)
  BY <1>0, <1>1
<1> QED BY <1>4, <1>5, <1>6, <1>7, <1>8, <1>9

(* The days before a month are added up. *)
LEMMA SumToRuns == SumTo[0] = 0 /\ \A m \in 1 .. Len(DaysIn) : SumTo[m] = SumTo[m - 1] + DaysIn[m]
<1> DEFINE n == Len(DaysIn)
           step(f, i) == f[i - 1] + DaysIn[i]
           body(f) == [i \in 0 .. n |-> IF i = 0 THEN 0 ELSE step(f, i)]
           upTo(f, m) == f[0] = 0 /\ \A i \in 1 .. m : f[i] = step(f, i)
           T == {m \in 0 .. n : \E f : upTo(f, m)}
<1>0. n \in Nat
  BY CronAssumption, LenProperties
<1>1. 0 \in T
  <2> DEFINE z == [i \in {0} |-> 0]
  <2>1. upTo(z, 0)
    OBVIOUS
  <2> HIDE DEF upTo, z, n
  <2> QED BY <1>0, <2>1
<1>2. ASSUME NEW m \in 1 .. n, m - 1 \in T PROVE m \in T
  <2>1. PICK f : upTo(f, m - 1)
    BY <1>2
  <2> DEFINE g == [i \in 0 .. m |-> IF i = m THEN step(f, m) ELSE f[i]]
  <2>2. g[0] = 0
    BY <1>0, <2>1
  <2>3. ASSUME NEW i \in 1 .. m PROVE g[i] = step(g, i)
    <3>1. g[i - 1] = f[i - 1]
      BY <1>0
    <3>2. CASE i = m
      <4>1. g[i] = step(f, i)
        BY <1>0, <3>2
      <4> HIDE DEF g
      <4> QED BY <3>1, <4>1
    <3>3. CASE i # m
      <4>1. g[i] = f[i] /\ i \in 1 .. m - 1
        BY <1>0, <3>3
      <4> HIDE DEF g
      <4> QED BY <2>1, <3>1, <4>1
    <3> QED BY <3>2, <3>3
  <2>4. upTo(g, m)
    BY <2>2, <2>3
  <2> HIDE DEF g, upTo, n
  <2> QED BY <1>0, <2>4
<1>3. PICK f : upTo(f, n)
  <2> HIDE DEF T, upTo, n
  <2>0. \A i \in 1 .. n : i - 1 \in T => i \in T
    BY <1>2
  <2>1. \A i \in 0 .. n : i \in T
    BY <1>0, <1>1, <2>0, CountingUp, Zenon
  <2>2. n \in T
    BY <1>0, <2>1
  <2> QED BY <2>2 DEF T
<1>4. \E g : g = body(g)
  <2> DEFINE g == [i \in 0 .. n |-> f[i]]
  <2>1. ASSUME NEW i \in 0 .. n PROVE g[i] = body(g)[i]
    <3>1. CASE i = 0
      BY <1>3, <3>1
    <3>2. CASE i # 0
      <4>1. i \in 1 .. n /\ i - 1 \in 0 .. n
        BY <1>0, <3>2
      <4>2. g[i] = step(f, i) /\ g[i - 1] = f[i - 1]
        BY <1>3, <4>1
      <4>3. body(g)[i] = step(g, i)
        BY <4>1
      <4> HIDE DEF g, body
      <4> QED BY <4>2, <4>3
    <3> QED BY <3>1, <3>2
  <2>2. g = body(g)
    BY <2>1
  <2> HIDE DEF g, body
  <2> QED BY <2>2
<1>5. SumTo = body(SumTo)
  <2>1. SumTo = CHOOSE g : g = body(g)
    BY DEF SumTo
  <2> HIDE DEF body
  <2> QED BY <1>4, <2>1
<1>6. SumTo[0] = 0
  <2>1. body(SumTo)[0] = 0
    BY <1>0
  <2> HIDE DEF body
  <2> QED BY <1>5, <2>1
<1>7. ASSUME NEW i \in 1 .. n PROVE SumTo[i] = step(SumTo, i)
  <2>1. body(SumTo)[i] = step(SumTo, i)
    BY <1>0
  <2> HIDE DEF body, step
  <2> QED BY <1>5, <2>1
<1> QED BY <1>6, <1>7

(* Months begin in order, and the year is the sum of them. *)
LEMMA SumToGrows ==
    /\ Len(DaysIn) \in Nat \ {0} /\ \A m \in Months : DaysIn[m] \in Nat \ {0}
    /\ \A m \in 0 .. Len(DaysIn) : SumTo[m] \in Nat
    /\ \A a, b \in 0 .. Len(DaysIn) : a <= b => SumTo[a] <= SumTo[b]
    /\ SumTo[Len(DaysIn)] > 0
<1> DEFINE n == Len(DaysIn)
<1>0. n \in Nat /\ n > 0 /\ \A m \in 1 .. n : DaysIn[m] \in Nat /\ DaysIn[m] > 0
  <2>1. n \in Nat /\ \A m \in 1 .. n : DaysIn[m] \in Nat \ {0}
    BY CronAssumption, LenProperties
  <2>2. n # 0
    BY CronAssumption, EmptySeq
  <2> QED BY <2>1, <2>2
<1> HIDE DEF n
<1>1. SumTo[0] = 0 /\ \A m \in 1 .. n : SumTo[m] = SumTo[m - 1] + DaysIn[m]
  BY SumToRuns DEF n
<1>2. \A m \in 0 .. n : SumTo[m] \in Nat
  <2> DEFINE T == {m \in 0 .. n : SumTo[m] \in Nat}
  <2>1. 0 \in T
    BY <1>0, <1>1
  <2>2. ASSUME NEW i \in 1 .. n, i - 1 \in T PROVE i \in T
    <3>1. SumTo[i] = SumTo[i - 1] + DaysIn[i] /\ SumTo[i - 1] \in Nat /\ DaysIn[i] \in Nat /\ i \in 0 .. n
      BY <1>0, <1>1, <2>2
    <3> QED BY <3>1
  <2>3. \A i \in 1 .. n : i - 1 \in T => i \in T
    BY <2>2
  <2> HIDE DEF T
  <2>4. \A i \in 0 .. n : i \in T
    BY <1>0, <2>1, <2>3, CountingUp, Zenon
  <2> QED BY <2>4 DEF T
<1>3. ASSUME NEW a \in 0 .. n PROVE \A b \in 0 .. n : a <= b => SumTo[a] <= SumTo[b]
  <2> DEFINE T == {b \in 0 .. n : a <= b => SumTo[a] <= SumTo[b]}
  <2>1. 0 \in T
    <3>1. a <= 0 => a = 0
      BY <1>0
    <3>2. SumTo[0] <= SumTo[0] /\ 0 \in 0 .. n
      BY <1>0, <1>1
    <3> QED BY <3>1, <3>2
  <2>2. ASSUME NEW i \in 1 .. n, i - 1 \in T PROVE i \in T
    <3>1. SumTo[i] = SumTo[i - 1] + DaysIn[i] /\ i - 1 \in 0 .. n /\ i \in 0 .. n /\ DaysIn[i] \in Nat
      BY <1>0, <1>1, <2>2
    <3>2. SumTo[i] \in Nat /\ SumTo[i - 1] \in Nat /\ SumTo[a] \in Nat
      BY <1>2, <3>1
    <3>3. a <= i - 1 => SumTo[a] <= SumTo[i - 1]
      BY <2>2
    <3>4. a <= i => a <= i - 1 \/ a = i
      BY <1>0
    <3>5. a <= i => SumTo[a] <= SumTo[i]
      <4>1. CASE a = i
        BY <3>2, <4>1
      <4>2. CASE a <= i - 1
        BY <3>1, <3>2, <3>3, <4>2
      <4> QED BY <3>4, <4>1, <4>2
    <3> QED BY <3>1, <3>5
  <2>3. \A i \in 1 .. n : i - 1 \in T => i \in T
    BY <2>2
  <2> HIDE DEF T
  <2>4. \A i \in 0 .. n : i \in T
    BY <1>0, <2>1, <2>3, CountingUp, Zenon
  <2> QED BY <2>4 DEF T
<1>4. SumTo[n] > 0
  <2>1. SumTo[n] = SumTo[n - 1] + DaysIn[n] /\ n \in 0 .. n /\ n - 1 \in 0 .. n /\ n \in 1 .. n
    BY <1>0, <1>1
  <2>2. SumTo[n - 1] \in Nat /\ DaysIn[n] \in Nat /\ DaysIn[n] > 0
    BY <1>0, <1>2, <2>1
  <2> QED BY <2>1, <2>2
<1>5. n \in Nat \ {0} /\ \A m \in 1 .. n : DaysIn[m] \in Nat \ {0}
  BY <1>0
<1> QED BY <1>2, <1>3, <1>4, <1>5 DEF n, Months

(* Every day of the year is in one month. *)
LEMMA MonthFound ==
    ASSUME NEW l \in Int
    PROVE  /\ DayOfYear(l) \in 0 .. SumTo[Len(DaysIn)] - 1
           /\ Month(l) \in Months /\ SumTo[Month(l) - 1] <= DayOfYear(l) /\ DayOfYear(l) < SumTo[Month(l)]
<1> DEFINE n == Len(DaysIn)
           d == DayOfYear(l)
           Y == SumTo[n]
<1>0. n \in Nat /\ n > 0 /\ (\A m \in 0 .. n : SumTo[m] \in Nat) /\ Y > 0 /\ Y \in Nat /\ SumTo[0] = 0
  BY SumToGrows, SumToRuns
<1>1. d \in 0 .. Y - 1
  <2>1. Day(l) \in Int
    BY HasClock
  <2>2. Day(l) % Y \in 0 .. Y - 1
    <3> DEFINE a == Day(l)
    <3> HIDE DEF a, Y
    <3> QED BY <1>0, <2>1, Divided DEF a
  <2> QED BY <2>2 DEF DayOfYear
<1> HIDE DEF d
<1> DEFINE T == {m \in 0 .. n : d < SumTo[m]}
<1>2. n \in T /\ T \subseteq Nat
  BY <1>0, <1>1
<1>3. PICK x \in T : \A y \in T : x <= y
  <2>1. T # {} /\ T \subseteq Nat
    BY <1>2
  <2> HIDE DEF T
  <2> QED BY <2>1, LeastOf, Zenon
<1>4. x \in 0 .. n /\ d < SumTo[x]
  OBVIOUS
<1>5. x # 0
  BY <1>0, <1>1, <1>4
<1>6. x - 1 \in 0 .. n /\ x \in 1 .. n /\ x - 1 < x
  BY <1>0, <1>4, <1>5
<1>7. x - 1 \notin T
  <2> HIDE DEF T
  <2> QED BY <1>3, <1>6
<1>8. SumTo[x - 1] <= d
  <2>1. ~(d < SumTo[x - 1]) /\ SumTo[x - 1] \in Nat
    BY <1>0, <1>6, <1>7
  <2> QED BY <1>0, <1>1, <2>1
<1>9. \E m \in Months : SumTo[m - 1] <= d /\ d < SumTo[m]
  BY <1>4, <1>6, <1>8 DEF Months
<1> QED BY <1>1, <1>9 DEF Month, d

(* ... and in no other. *)
LEMMA MonthIs ==
    ASSUME NEW l \in Int, NEW m \in Months, SumTo[m - 1] <= DayOfYear(l), DayOfYear(l) < SumTo[m]
    PROVE  Month(l) = m
<1> DEFINE n == Len(DaysIn)
           d == DayOfYear(l)
           k == Month(l)
<1>0. /\ n \in Nat /\ (\A i \in 0 .. n : SumTo[i] \in Nat) /\ Months = 1 .. n
      /\ \A a, b \in 0 .. n : a <= b => SumTo[a] <= SumTo[b]
  BY SumToGrows DEF Months
<1>1. d \in Int /\ k \in 1 .. n /\ SumTo[k - 1] <= d /\ d < SumTo[k] /\ m \in 1 .. n
  <2>1. SumTo[n] \in Nat
    BY <1>0
  <2>2. d \in 0 .. SumTo[n] - 1 /\ k \in Months /\ SumTo[k - 1] <= d /\ d < SumTo[k]
    BY MonthFound
  <2> HIDE DEF d, k, n
  <2> QED BY <1>0, <2>1, <2>2
<1> HIDE DEF d, k, n
<1>2. /\ k \in 0 .. n /\ k - 1 \in 0 .. n /\ m \in 0 .. n /\ m - 1 \in 0 .. n
      /\ SumTo[m - 1] <= d /\ d < SumTo[m]
  BY <1>0, <1>1 DEF d
<1>3. ~(k < m)
  <2> SUFFICES ASSUME k < m PROVE FALSE
    OBVIOUS
  <2>1. k <= m - 1
    BY <1>0, <1>1
  <2>2. SumTo[k] <= SumTo[m - 1]
    BY <1>0, <1>2, <2>1
  <2>3. SumTo[k] \in Nat /\ SumTo[m - 1] \in Nat
    BY <1>0, <1>2
  <2> QED BY <1>1, <1>2, <2>2, <2>3
<1>4. ~(m < k)
  <2> SUFFICES ASSUME m < k PROVE FALSE
    OBVIOUS
  <2>1. m <= k - 1
    BY <1>0, <1>1
  <2>2. SumTo[m] <= SumTo[k - 1]
    BY <1>0, <1>2, <2>1
  <2>3. SumTo[m] \in Nat /\ SumTo[k - 1] \in Nat
    BY <1>0, <1>2
  <2> QED BY <1>1, <1>2, <2>2, <2>3
<1> QED BY <1>0, <1>1, <1>3, <1>4 DEF k

(* Until the month is over it stays the same. *)
LEMMA SameMonth ==
    ASSUME NEW l \in Int, NEW k \in Int, Day(l) <= Day(k),
           Day(k) < Day(l) - DayOfMonth(l) + DaysIn[Month(l)] + 1
    PROVE  Month(k) = Month(l)
<1> DEFINE n == Len(DaysIn)
           Y == SumTo[n]
           a == Day(l)
           b == Day(k)
           y == DayOfYear(l)
           m == Month(l)
           q == a \div Y
<1>0. /\ n \in Nat /\ n > 0 /\ (\A i \in 0 .. n : SumTo[i] \in Nat) /\ Y \in Nat /\ Y > 0
      /\ \A i \in 0 .. n : i <= n => SumTo[i] <= Y
  BY SumToGrows
<1>1. a \in Int /\ b \in Int
  BY HasClock
<1>2. y \in 0 .. Y - 1 /\ m \in 1 .. n /\ SumTo[m - 1] <= y /\ y < SumTo[m]
  BY MonthFound DEF Months
<1>3. y = a % Y
  BY DEF DayOfYear
<1>4. q \in Int /\ a = q * Y + y
  <2> HIDE DEF a, Y, y
  <2> QED BY <1>0, <1>1, <1>3, Divided
<1>5. DayOfMonth(l) = y - SumTo[m - 1] + 1
  BY DEF DayOfMonth
<1>6. SumTo[m] = SumTo[m - 1] + DaysIn[m]
  BY <1>2, SumToRuns
<1>7. SumTo[m - 1] \in Nat /\ SumTo[m] \in Nat /\ SumTo[m] <= Y
  <2>1. m - 1 \in 0 .. n /\ m \in 0 .. n /\ m <= n
    BY <1>0, <1>2
  <2> HIDE DEF Y, m, n
  <2> QED BY <1>0, <2>1
<1>8. DaysIn[m] \in Nat
  BY <1>2, SumToGrows DEF Months
<1> DEFINE x == b - a + y
           s == SumTo[m - 1]
           t == SumTo[m]
           z == q * Y
<1>9. /\ a <= b /\ b < a - (y - s + 1) + DaysIn[m] + 1
  BY <1>5
<1>10. x \in Int /\ s <= x /\ x < t /\ x \in 0 .. Y - 1
  <2> HIDE DEF a, b, y, s, t, Y, m, n
  <2>1. t = s + DaysIn[m] /\ s \in Nat /\ t \in Nat /\ t <= Y /\ s <= y
    BY <1>2, <1>6, <1>7 DEF s, t
  <2>2. y \in Int /\ y >= 0
    BY <1>0, <1>2
  <2> QED BY <1>0, <1>1, <1>8, <1>9, <2>1, <2>2
<1>11. b = q * Y + x
  <2>1. z \in Int
    BY <1>0, <1>4
  <2>2. a = z + y
    BY <1>4
  <2> HIDE DEF a, b, y, z, Y, n
  <2>3. y \in Int
    BY <1>0, <1>2
  <2>4. b = z + x
    BY <1>1, <2>1, <2>2, <2>3
  <2> QED BY <2>4 DEF z
<1>12. DayOfYear(k) = x
  <2>1. b % Y = x
    <3> HIDE DEF b, Y, q, x
    <3> QED BY <1>0, <1>1, <1>4, <1>10, <1>11, DividedOnce
  <2> QED BY <2>1 DEF DayOfYear
<1>13. m \in Months /\ SumTo[m - 1] <= DayOfYear(k) /\ DayOfYear(k) < SumTo[m]
  <2>1. m \in Months
    BY <1>2 DEF Months
  <2>2. s <= x /\ x < t
    BY <1>10
  <2> QED BY <1>12, <2>1, <2>2
<1> HIDE DEF m
<1>14. Month(k) = m
  BY <1>13, MonthIs
<1> QED BY <1>14 DEF m

(* The parser gives values of the field. *)
LEMMA FieldsWithin ==
    ASSUME NEW a \in Int, NEW b \in Int
    PROVE  Fields(a, b) \subseteq SUBSET (a .. b)
<1> SUFFICES ASSUME NEW S \in Fields(a, b) PROVE S \subseteq a .. b
  OBVIOUS
<1> DEFINE P == FieldParts(a, b)
           F(p, q) == parseField(<<p, q>>, a, b)
<1>a. S \in {F(p, q) : p \in P, q \in P}
  <2>1. Fields(a, b) = {F(p, q) : p \in P, q \in P} \ {{}}
    BY DEF Fields
  <2> HIDE DEF F, P
  <2> QED BY <2>1
<1> HIDE DEF F, P
<1>b. \E p \in P, q \in P : S = F(p, q)
  BY <1>a
<1>0. PICK p \in P, q \in P : S = F(p, q)
  BY <1>b
<1> USE DEF F, P
<1>1. ASSUME NEW r \in FieldParts(a, b) PROVE parseFieldPart(r, a, b) \subseteq a .. b
  <2>1. CASE r.kind = "star"
    BY <2>1 DEF parseFieldPart, stepValues
  <2>2. CASE r.kind = "range"
    <3>1. r.from \in a .. b /\ r.to \in a .. b
      BY <2>2 DEF FieldParts
    <3>2. \A x \in r.from .. r.to : x \in a .. b
      BY <3>1
    <3> QED BY <2>2, <3>2 DEF parseFieldPart, stepValues
  <2>3. CASE r.kind = "value"
    BY <2>3 DEF parseFieldPart
  <2> QED BY <2>1, <2>2, <2>3 DEF FieldParts
<1>2. \A i \in DOMAIN <<p, q>> : <<p, q>>[i] \in FieldParts(a, b)
  OBVIOUS
<1> QED BY <1>0, <1>1, <1>2 DEF parseField

(* A local time the expression is about. *)
MatchesAt(l) == /\ Month(l) \in expr.month /\ dayOk(l)
                /\ HourOf(l) \in expr.hour /\ MinuteOf(l) \in expr.minute

CronInv == /\ zone \in Zones /\ since \in Int /\ candidate \in Int /\ (NearShift(candidate) => rough)
           /\ expr.minute \subseteq 0 .. MinutesPerHour - 1 /\ expr.hour \subseteq 0 .. HoursPerDay - 1
           /\ expr.day \subseteq 1 .. Longest /\ expr.weekday \subseteq 0 .. DaysPerWeek - 1
           /\ NoFireSkipped

(* The weekdays the parser gives are weekdays, the last number's Sunday included. *)
LEMMA WeekdaysWithin ==
    ASSUME NEW p \in FieldParts(0, DaysPerWeek)
    PROVE  parseDayOfWeekField(<<p>>) \subseteq 0 .. DaysPerWeek - 1
<1> DEFINE b == DaysPerWeek - 1
           f == [i \in DOMAIN <<p>> |-> [<<p>>[i] EXCEPT !.from = Sunday(@), !.to = Sunday(@)]]
           r == [p EXCEPT !.from = Sunday(@), !.to = Sunday(@)]
<1>0. DaysPerWeek \in Nat /\ b \in Int
  BY CronAssumption
<1>1. DOMAIN f = {1} /\ f[1] = r
  <2>1. DOMAIN <<p>> = {1} /\ <<p>>[1] = p
    OBVIOUS
  <2> QED BY <2>1
<1>2. r.kind = p.kind /\ r.kind \in {"star", "range", "value"} /\ r.from = Sunday(p.from) /\ r.to = Sunday(p.to)
  BY DEF FieldParts
<1>3. r.from \in Int /\ r.to \in Int
  <2>1. p.from \in Int /\ p.to \in Int
    BY <1>0 DEF FieldParts
  <2> QED BY <1>2, <2>1 DEF Sunday
<1> HIDE DEF r, f, b
<1>4. parseFieldPart(r, 0, b) \subseteq 0 .. b
  <2>1. CASE r.kind = "star"
    BY <2>1 DEF parseFieldPart, stepValues
  <2>2. CASE r.kind = "range"
    <3>1. CASE r.from < 0 \/ r.to > b \/ r.from > r.to
      BY <2>2, <3>1 DEF parseFieldPart
    <3>2. CASE ~(r.from < 0 \/ r.to > b \/ r.from > r.to)
      <4>1. \A x \in r.from .. r.to : x \in 0 .. b
        BY <1>0, <1>3, <3>2
      <4> QED BY <2>2, <3>2, <4>1 DEF parseFieldPart, stepValues
    <3> QED BY <3>1, <3>2
  <2>3. CASE r.kind = "value"
    BY <2>3 DEF parseFieldPart
  <2> QED BY <1>2, <2>1, <2>2, <2>3
<1>5. parseField(f, 0, b) \subseteq 0 .. b
  BY <1>1, <1>4 DEF parseField
<1> QED BY <1>5 DEF parseDayOfWeekField, f, b

(* The longest month is one of the months. *)
LEMMA LongestMonth == Longest \in Nat /\ Longest > 0 /\ \A m \in Months : DaysIn[m] <= Longest
<1> DEFINE n == Len(DaysIn)
           T == {k \in 0 .. n : k = 0 \/ \E x \in 1 .. k : \A m \in 1 .. k : DaysIn[m] <= DaysIn[x]}
<1>0. n \in Nat /\ n > 0 /\ Months = 1 .. n /\ \A m \in 1 .. n : DaysIn[m] \in Nat /\ DaysIn[m] > 0
  BY SumToGrows DEF Months
<1> HIDE DEF n
<1>1. 0 \in T
  BY <1>0
<1>2. ASSUME NEW k \in 1 .. n, k - 1 \in T PROVE k \in T
  <2>0. k \in 0 .. n /\ DaysIn[k] \in Nat /\ k \in 1 .. k
    BY <1>0
  <2>1. CASE k - 1 = 0
    <3>1. \A m \in 1 .. k : m = k
      BY <1>0, <2>1
    <3>2. \A m \in 1 .. k : DaysIn[m] <= DaysIn[k]
      BY <2>0, <3>1
    <3> QED BY <2>0, <3>2
  <2>2. CASE k - 1 # 0
    <3>1. PICK x \in 1 .. k - 1 : \A m \in 1 .. k - 1 : DaysIn[m] <= DaysIn[x]
      BY <1>2, <2>2
    <3>2. x \in 1 .. k /\ DaysIn[x] \in Nat
      BY <1>0
    <3>3. \A m \in 1 .. k : m = k \/ m \in 1 .. k - 1
      BY <1>0
    <3>4. CASE DaysIn[k] <= DaysIn[x]
      <4>1. \A m \in 1 .. k : DaysIn[m] <= DaysIn[x]
        BY <3>1, <3>3, <3>4
      <4> QED BY <2>0, <3>2, <4>1
    <3>5. CASE ~(DaysIn[k] <= DaysIn[x])
      <4>1. ASSUME NEW m \in 1 .. k PROVE DaysIn[m] <= DaysIn[k]
        <5>1. DaysIn[m] \in Nat /\ (m = k \/ DaysIn[m] <= DaysIn[x])
          BY <1>0, <3>1, <3>3
        <5> QED BY <2>0, <3>2, <3>5, <5>1
      <4> QED BY <2>0, <4>1
    <3> QED BY <3>4, <3>5
  <2> QED BY <2>1, <2>2
<1>3. n \in T
  <2>1. \A i \in 1 .. n : i - 1 \in T => i \in T
    BY <1>2
  <2> HIDE DEF T
  <2>2. \A i \in 0 .. n : i \in T
    BY <1>0, <1>1, <2>1, CountingUp, Zenon
  <2> QED BY <1>0, <2>2
<1>4. PICK x \in 1 .. n : \A m \in 1 .. n : DaysIn[m] <= DaysIn[x]
  BY <1>0, <1>3
<1> DEFINE D == {DaysIn[m] : m \in Months}
<1>5. DaysIn[x] \in D /\ \A m \in Months : DaysIn[m] <= DaysIn[x]
  BY <1>0, <1>4
<1>6. Longest \in D /\ \A m \in Months : DaysIn[m] <= Longest
  <2> HIDE DEF D
  <2>1. \E y \in D : \A m \in Months : DaysIn[m] <= y
    BY <1>5
  <2>2. Longest = CHOOSE y \in D : \A m \in Months : DaysIn[m] <= y
    BY DEF Longest, D
  <2> QED BY <2>1, <2>2
<1> QED BY <1>0, <1>6

(* A field is unrestricted when it has as many values as there are. *)
LEMMA AllValues ==
    ASSUME NEW a \in Int, NEW b \in Int, a <= b, NEW S \in SUBSET (a .. b)
    PROVE  Cardinality(S) = b - a + 1 <=> ~Restricted(S, a .. b)
<1>1. IsFiniteSet(a .. b) /\ Cardinality(a .. b) = b - a + 1
  BY FS_Interval
<1>2. Cardinality(a .. b) = Cardinality(S) => S = a .. b
  BY <1>1, FS_Subset
<1>3. ~Restricted(S, a .. b) <=> S = a .. b
  BY DEF Restricted
<1> QED BY <1>1, <1>2, <1>3

(* The rule for days is what it should be. *)
LEMMA DayRule ==
    ASSUME CronInv, NEW l \in Int
    PROVE  dayOk(l) <=> DayFits(l)
<1> DEFINE W == DaysPerWeek
           all == Cardinality(expr.day) = Longest
           any == Cardinality(expr.weekday) = W
           d == DayOfMonth(l) \in expr.day
           w == Weekday(l) \in expr.weekday
<1>0. W \in Nat /\ W > 0 /\ Longest \in Nat /\ Longest > 0
  BY CronAssumption, LongestMonth
<1>1. all <=> ~Restricted(expr.day, 1 .. Longest)
  <2>1. 1 <= Longest /\ Longest - 1 + 1 = Longest /\ expr.day \in SUBSET (1 .. Longest)
    BY <1>0 DEF CronInv
  <2> QED BY <1>0, <2>1, AllValues
<1>2. any <=> ~Restricted(expr.weekday, 0 .. W - 1)
  <2>1. 0 <= W - 1 /\ W - 1 - 0 + 1 = W /\ expr.weekday \in SUBSET (0 .. W - 1) /\ W - 1 \in Int
    BY <1>0 DEF CronInv
  <2> QED BY <1>0, <2>1, AllValues
<1>3. DayOfMonth(l) \in 1 .. Longest
  <2> DEFINE m == Month(l)
             y == DayOfYear(l)
  <2>1. m \in Months /\ SumTo[m - 1] <= y /\ y < SumTo[m] /\ y \in Int
    BY MonthFound
  <2>2. m \in 1 .. Len(DaysIn) /\ m \in 0 .. Len(DaysIn) /\ m - 1 \in 0 .. Len(DaysIn)
    BY <2>1, SumToGrows DEF Months
  <2>3. SumTo[m] = SumTo[m - 1] + DaysIn[m] /\ SumTo[m] \in Nat /\ SumTo[m - 1] \in Nat /\ DaysIn[m] \in Nat
    BY <2>1, <2>2, SumToRuns, SumToGrows
  <2>4. DaysIn[m] <= Longest
    BY <2>1, LongestMonth
  <2>5. DayOfMonth(l) = y - SumTo[m - 1] + 1
    BY DEF DayOfMonth
  <2> HIDE DEF m, y
  <2> QED BY <1>0, <2>1, <2>3, <2>4, <2>5
<1>4. Weekday(l) \in 0 .. W - 1
  <2> DEFINE a == Day(l)
  <2>1. a \in Int
    BY HasClock
  <2>2. Weekday(l) = a % W
    BY DEF Weekday
  <2> HIDE DEF a, W
  <2> QED BY <1>0, <2>1, <2>2, Divided
<1>5. all => d
  BY <1>1, <1>3 DEF Restricted
<1>6. any => w
  BY <1>2, <1>4 DEF Restricted
<1>7. dayOk(l) <=> CASE all /\ any -> TRUE [] all -> w [] any -> d [] OTHER -> d \/ w
  BY DEF dayOk
<1>8. DayFits(l) <=> (d /\ w) \/ (~all /\ ~any /\ (d \/ w))
  BY <1>1, <1>2 DEF DayFits
<1>9. CASE all /\ any
  BY <1>5, <1>6, <1>7, <1>8, <1>9
<1>10. CASE all /\ ~any
  BY <1>5, <1>7, <1>8, <1>10
<1>11. CASE ~all /\ any
  BY <1>6, <1>7, <1>8, <1>11
<1>12. CASE ~all /\ ~any
  BY <1>7, <1>8, <1>12
<1> QED BY <1>9, <1>10, <1>11, <1>12

(* An offset is one of the zone's. *)
LEMMA OffsetsBounded ==
    ASSUME zone \in Zones, NEW u, NEW v
    PROVE  /\ ZoneOffset(u) \in Int /\ -MaxOffset <= ZoneOffset(u) /\ ZoneOffset(u) <= MaxOffset
           /\ ZoneOffset(u) - ZoneOffset(v) <= MaxOffset
           /\ WholeHours => ZoneOffset(u) % MinutesPerHour = 0
<1> DEFINE n == Len(zone.at)
           k(x) == Cardinality(Shifts(x)) + 1
<1>0. /\ zone.at \in Seq(Int) /\ zone.offset \in Seq(Int) /\ Len(zone.offset) = n + 1
      /\ \A i, j \in DOMAIN zone.offset : /\ -MaxOffset <= zone.offset[i] /\ zone.offset[i] <= MaxOffset
                                          /\ zone.offset[i] - zone.offset[j] <= MaxOffset
  BY ZoneAssumption
<1>1. n \in Nat /\ DOMAIN zone.at = 1 .. n /\ DOMAIN zone.offset = 1 .. n + 1 /\ \A i \in 1 .. n + 1 : zone.offset[i] \in Int
  BY <1>0, LenProperties
<1> HIDE DEF n
<1>2. ASSUME NEW x PROVE k(x) \in DOMAIN zone.offset
  <2>1. IsFiniteSet(1 .. n) /\ Cardinality(1 .. n) = IF 1 > n THEN 0 ELSE n - 1 + 1
    BY <1>1, FS_Interval, 1 \in Int, n \in Int
  <2>2. Cardinality(1 .. n) <= n
    BY <1>1, <2>1
  <2>3. Shifts(x) \in SUBSET (1 .. n)
    BY <1>1 DEF Shifts
  <2>4. IsFiniteSet(Shifts(x)) /\ Cardinality(Shifts(x)) <= Cardinality(1 .. n)
    BY <2>1, <2>3, FS_Subset
  <2>5. Cardinality(Shifts(x)) \in Nat /\ Cardinality(1 .. n) \in Nat
    BY <2>1, <2>4, FS_CardinalityType
  <2> QED BY <1>1, <2>2, <2>4, <2>5
<1>3. k(u) \in DOMAIN zone.offset /\ k(v) \in DOMAIN zone.offset
  BY <1>2
<1>4. ZoneOffset(u) = zone.offset[k(u)] /\ ZoneOffset(v) = zone.offset[k(v)]
  BY DEF ZoneOffset
<1> HIDE DEF k
<1> QED BY <1>0, <1>1, <1>3, <1>4 DEF WholeHours

(* Away from the changes the offset stays the same for a while. *)
LEMMA Steady ==
    ASSUME zone \in Zones, NEW u \in Int, NEW v \in Int, ~NearShift(v),
           v - 2 * MaxOffset <= u, u <= v + 2 * MaxOffset
    PROVE  Shifts(u) = Shifts(v) /\ ZoneOffset(u) = ZoneOffset(v)
<1> DEFINE r == 2 * MaxOffset
<1>0. r \in Nat
  BY CronAssumption
<1>1. zone.at \in Seq(Int)
  BY ZoneAssumption
<1>2. ASSUME NEW i \in DOMAIN zone.at PROVE zone.at[i] <= u <=> zone.at[i] <= v
  <2>1. zone.at[i] \in Int
    BY <1>1
  <2>2. ~(zone.at[i] - r <= v /\ v <= zone.at[i] + r)
    BY DEF NearShift
  <2>3. v - r <= u /\ u <= v + r
    OBVIOUS
  <2> HIDE DEF r
  <2> QED BY <1>0, <2>1, <2>2, <2>3
<1>3. Shifts(u) = Shifts(v)
  BY <1>2 DEF Shifts
<1> QED BY <1>3 DEF ZoneOffset

(* time.Date gives a time. *)
LEMMA DateIs ==
    ASSUME zone \in Zones, NEW l \in Int
    PROVE  /\ GoDate(l) \in Int
           /\ \E o \in Int : /\ GoDate(l) = l - o /\ -MaxOffset <= o /\ o <= MaxOffset
                             /\ ZoneOffset(l) - o <= MaxOffset /\ o - ZoneOffset(l) <= MaxOffset
<1> DEFINE u == l - ZoneOffset(l)
           p == ZoneOffset(l)
           q == ZoneOffset(u)
<1>1. /\ p \in Int /\ -MaxOffset <= p /\ p <= MaxOffset /\ p - p <= MaxOffset /\ p - q <= MaxOffset
      /\ q \in Int /\ -MaxOffset <= q /\ q <= MaxOffset /\ q - p <= MaxOffset
  BY OffsetsBounded, Zenon
<1>2. GoDate(l) = l - p \/ GoDate(l) = l - q
  BY DEF GoDate
<1> HIDE DEF p, q
<1>3. GoDate(l) \in Int
  BY <1>1, <1>2
<1>4. CASE GoDate(l) = l - p
  BY <1>1, <1>3, <1>4 DEF p
<1>5. CASE GoDate(l) = l - q
  BY <1>1, <1>3, <1>5 DEF p
<1> QED BY <1>2, <1>4, <1>5

(* ... and away from the changes the one it was asked for. *)
LEMMA DateLands ==
    ASSUME zone \in Zones, NEW l \in Int, NEW v \in Int, ~NearShift(v),
           v - MaxOffset <= GoDate(l), GoDate(l) <= v + MaxOffset
    PROVE  GoDate(l) \in Int /\ LocalOf(GoDate(l)) = l /\ ZoneOffset(GoDate(l)) = ZoneOffset(v)
<1> DEFINE g == GoDate(l)
           u == l - ZoneOffset(l)
           R == MaxOffset
           p == ZoneOffset(l)
<1>0. R \in Nat /\ 2 * R = R + R
  BY CronAssumption
<1>1. g \in Int
  BY DateIs
<1>2. PICK o \in Int : g = l - o /\ -R <= o /\ o <= R /\ p - o <= R /\ o - p <= R
  BY DateIs
<1>3. p \in Int
  BY OffsetsBounded
<1>4. u \in Int /\ v - 2 * R <= l /\ l <= v + 2 * R /\ v - 2 * R <= u /\ u <= v + 2 * R /\ v - 2 * R <= g /\ g <= v + 2 * R
  <2>1. v - R <= g /\ g <= v + R /\ u = l - p
    OBVIOUS
  <2> HIDE DEF g, u, R, p
  <2> QED BY <1>0, <1>1, <1>2, <1>3, <2>1
<1>5. Shifts(l) = Shifts(v) /\ p = ZoneOffset(v)
  BY <1>4, Steady
<1>6. Shifts(u) = Shifts(v)
  <2> HIDE DEF u
  <2> QED BY <1>4, Steady
<1>7. ZoneOffset(g) = ZoneOffset(v)
  <2> HIDE DEF g
  <2> QED BY <1>1, <1>4, Steady
<1>8. g = u
  BY <1>5, <1>6 DEF GoDate
<1>9. LocalOf(g) = g + p
  BY <1>5, <1>7 DEF LocalOf
<1>10. g + p = l
  <2>1. g = l - p
    BY <1>8
  <2> HIDE DEF g, p
  <2> QED BY <1>1, <1>3, <2>1
<1> QED BY <1>1, <1>7, <1>9, <1>10

(* What clocks show is in the order of time, on either side of a time away from
   the changes. *)
LEMMA LocalOrder ==
    ASSUME zone \in Zones, NEW c \in Int, NEW m \in Int, ~NearShift(c)
    PROVE  /\ LocalOf(c) \in Int /\ LocalOf(m) \in Int
           /\ c <= m => LocalOf(c) <= LocalOf(m)
           /\ m < c => LocalOf(m) < LocalOf(c)
<1> DEFINE R == MaxOffset
           p == ZoneOffset(c)
           q == ZoneOffset(m)
<1>0. R \in Nat /\ R > 0 /\ 2 * R = R + R
  BY CronAssumption
<1>1. p \in Int /\ q \in Int /\ p - q <= R /\ q - p <= R
  BY OffsetsBounded, Zenon
<1>2. LocalOf(c) = c + p /\ LocalOf(m) = m + q
  BY DEF LocalOf
<1>3. c - 2 * R <= m /\ m <= c + 2 * R => q = p
  BY Steady
<1> HIDE DEF p, q, R
<1> QED BY <1>0, <1>1, <1>2, <1>3

(* The search begins in the minute after the one it was asked for. *)
LEMMA CronStarts == CronInit => CronInv
<1> SUFFICES ASSUME CronInit PROVE CronInv
  OBVIOUS
<1>1. since \in Int /\ candidate = since + 1 /\ search = "on" /\ zone \in Zones /\ expr \in ParseCron
  BY DEF CronInit
<1>2. NearShift(candidate) => rough
  BY <1>1 DEF CronInit
<1>3. NoFireSkipped
  BY <1>1 DEF NoFireSkipped
<1>4. /\ expr.minute \in Fields(0, MinutesPerHour - 1) /\ expr.hour \in Fields(0, HoursPerDay - 1)
      /\ expr.day \in Fields(1, Longest)
  BY <1>1 DEF ParseCron
<1>5. MinutesPerHour - 1 \in Int /\ HoursPerDay - 1 \in Int /\ Longest \in Int
  BY CronAssumption, LongestMonth
<1>6. /\ expr.minute \subseteq 0 .. MinutesPerHour - 1 /\ expr.hour \subseteq 0 .. HoursPerDay - 1
      /\ expr.day \subseteq 1 .. Longest
  BY <1>4, <1>5, FieldsWithin
<1>7. expr.weekday \subseteq 0 .. DaysPerWeek - 1
  <2> DEFINE W == {parseDayOfWeekField(<<p>>) : p \in FieldParts(0, DaysPerWeek)}
  <2>1. expr.weekday \in W
    BY <1>1 DEF ParseCron
  <2>2. PICK p \in FieldParts(0, DaysPerWeek) : expr.weekday = parseDayOfWeekField(<<p>>)
    BY <2>1
  <2> QED BY <2>2, WeekdaysWithin
<1> QED BY <1>1, <1>2, <1>3, <1>6, <1>7 DEF CronInv

(* On one day the date is the same. *)
LEMMA SameDay ==
    ASSUME NEW k, NEW l, Day(k) = Day(l)
    PROVE  Month(k) = Month(l) /\ dayOk(k) = dayOk(l)
<1>1. DayOfYear(k) = DayOfYear(l) /\ Weekday(k) = Weekday(l)
  BY DEF DayOfYear, Weekday
<1>2. Month(k) = Month(l)
  BY <1>1 DEF Month
<1>3. DayOfMonth(k) = DayOfMonth(l)
  BY <1>1, <1>2 DEF DayOfMonth
<1> QED BY <1>1, <1>2, <1>3 DEF dayOk

(* The search may go on to u when the clock shows a later time there and nothing
   in between matches, and stop there when u does. *)
LEMMA MayGoTo ==
    ASSUME CronInv, search = "on", NEW u \in Int, Reach(u),
           ~NearShift(u) => /\ Local <= LocalOf(u)
                            /\ search' = "found" => MatchesAt(LocalOf(u))
                            /\ WholeHours => \A l \in Int : Local <= l /\ l < LocalOf(u) => ~MatchesAt(l)
    PROVE  CronInv'
<1>1. zone \in Zones /\ since \in Int /\ candidate \in Int /\ (NearShift(candidate) => rough)
  BY DEF CronInv
<1>2. candidate' = u /\ zone' = zone /\ since' = since /\ expr' = expr /\ (rough' <=> rough \/ NearShift(u))
  BY DEF Reach
<1>3. \A m : LocalOf(m)' = LocalOf(m) /\ (NearShift(m)' <=> NearShift(m))
  BY <1>2 DEF LocalOf, ZoneOffset, Shifts, NearShift
<1>4. \A m : Matches(m)' <=> Matches(m)
  BY <1>2, <1>3 DEF Matches, DayFits
<1>5. \A m \in Int : Matches(m) <=> MatchesAt(LocalOf(m))
  <2> SUFFICES ASSUME NEW m \in Int PROVE Matches(m) <=> MatchesAt(LocalOf(m))
    OBVIOUS
  <2>1. LocalOf(m) \in Int
    <3>1. ZoneOffset(m) \in Int
      BY <1>1, OffsetsBounded
    <3> QED BY <3>1 DEF LocalOf
  <2>2. dayOk(LocalOf(m)) <=> DayFits(LocalOf(m))
    BY <2>1, DayRule
  <2> QED BY <2>2 DEF Matches, MatchesAt
<1>6. (NearShift(candidate) => rough)'
  <2>1. NearShift(candidate)' <=> NearShift(u)
    BY <1>2 DEF NearShift
  <2> QED BY <1>2, <2>1
<1>7. (search = "found" /\ ~NearShift(candidate) => Matches(candidate))'
  <2>1. NearShift(candidate)' <=> NearShift(u)
    BY <1>2 DEF NearShift
  <2>2. Matches(candidate)' <=> Matches(u)
    <3>1. LocalOf(candidate)' = LocalOf(u)
      BY <1>2 DEF LocalOf, ZoneOffset, Shifts
    <3> QED BY <1>2, <3>1 DEF Matches, DayFits
  <2> QED BY <1>5, <2>1, <2>2
<1>8. ASSUME ~rough' PROVE candidate' > since' /\ (WholeHours' => \A m \in since' + 1 .. candidate' - 1 : ~Matches(m)')
  <2>0. ~rough /\ ~NearShift(u) /\ ~NearShift(candidate)
    BY <1>1, <1>2, <1>8
  <2>1. candidate > since /\ (WholeHours => \A m \in since + 1 .. candidate - 1 : ~Matches(m))
    BY <2>0 DEF CronInv, NoFireSkipped
  <2>2. Local <= LocalOf(u) /\ (WholeHours => \A l \in Int : Local <= l /\ l < LocalOf(u) => ~MatchesAt(l))
    BY <2>0
  <2>3. candidate <= u
    <3> SUFFICES ASSUME u < candidate PROVE FALSE
      BY <1>1
    <3>1. LocalOf(u) < LocalOf(candidate) /\ LocalOf(u) \in Int /\ LocalOf(candidate) \in Int
      BY <1>1, <2>0, LocalOrder
    <3> QED BY <2>2, <3>1 DEF Local
  <2>4. candidate' > since'
    BY <1>1, <1>2, <2>1, <2>3
  <2>5. ASSUME WholeHours', NEW m \in since + 1 .. u - 1 PROVE ~Matches(m)'
    <3>0. WholeHours
      BY <1>2, <2>5 DEF WholeHours
    <3>1. m \in Int
      BY <1>1
    <3>2. CASE m <= candidate - 1
      <4>1. ~Matches(m)
        BY <1>1, <2>1, <3>0, <3>2
      <4> QED BY <1>4, <4>1
    <3>3. CASE ~(m <= candidate - 1)
      <4>1. candidate <= m /\ m < u
        BY <1>1, <3>3
      <4>2. LocalOf(m) \in Int /\ LocalOf(candidate) <= LocalOf(m)
        BY <1>1, <2>0, <3>1, <4>1, LocalOrder
      <4>3. LocalOf(m) < LocalOf(u)
        BY <1>1, <2>0, <3>1, <4>1, LocalOrder
      <4>4. ~MatchesAt(LocalOf(m))
        BY <2>2, <3>0, <4>2, <4>3 DEF Local
      <4> QED BY <1>4, <1>5, <3>1, <4>4
    <3> QED BY <3>2, <3>3
  <2> QED BY <1>2, <2>4, <2>5
<1>9. NoFireSkipped'
  BY <1>7, <1>8 DEF NoFireSkipped
<1> QED BY <1>1, <1>2, <1>6, <1>9 DEF CronInv

(* A later time is later in one of its fields. *)
LEMMA InStrictOrder ==
    ASSUME NEW k \in Int, NEW l \in Int, k < l
    PROVE  \/ Day(k) < Day(l)
           \/ Day(k) = Day(l) /\ HourOf(k) < HourOf(l)
           \/ Day(k) = Day(l) /\ HourOf(k) = HourOf(l) /\ MinuteOf(k) < MinuteOf(l)
<1>1. CASE Day(k) = Day(l) /\ HourOf(k) = HourOf(l) /\ MinuteOf(k) = MinuteOf(l)
  <2>1. k = Day(k) * DayLength + HourOf(k) * MinutesPerHour + MinuteOf(k)
    BY HasClock, Zenon
  <2>2. l = Day(l) * DayLength + HourOf(l) * MinutesPerHour + MinuteOf(l)
    BY HasClock, Zenon
  <2>3. k = l
    BY <1>1, <2>1, <2>2, Zenon
  <2> QED BY <2>3
<1>2. CASE ~(Day(k) = Day(l) /\ HourOf(k) = HourOf(l) /\ MinuteOf(k) = MinuteOf(l))
  <2>1. k <= l /\ MinuteOf(k) \in Int /\ MinuteOf(l) \in Int
    <3>1. MinuteOf(k) \in 0 .. MinutesPerHour - 1 /\ MinuteOf(l) \in 0 .. MinutesPerHour - 1
      BY HasClock, Zenon
    <3> QED BY <3>1, CronAssumption
  <2>2. \/ Day(k) < Day(l)
        \/ Day(k) = Day(l) /\ HourOf(k) < HourOf(l)
        \/ Day(k) = Day(l) /\ HourOf(k) = HourOf(l) /\ MinuteOf(k) <= MinuteOf(l)
    BY <2>1, InTimeOrder
  <2> QED BY <1>2, <2>1, <2>2
<1> QED BY <1>1, <1>2

(* A day begins at its midnight. *)
LEMMA Midnight ==
    ASSUME NEW d \in Int
    PROVE  /\ d * DayLength \in Int
           /\ \A l \in Int : l < d * DayLength => Day(l) < d
<1> DEFINE t == d * DayLength
<1>1. t \in Int
  BY CronAssumption DEF DayLength
<1>2. Day(t) = d /\ HourOf(t) = 0 /\ MinuteOf(t) = 0
  <2>1. 0 \in 0 .. HoursPerDay - 1 /\ 0 \in 0 .. MinutesPerHour - 1
    BY CronAssumption
  <2>2. t = d * DayLength + 0 * MinutesPerHour + 0
    <3>1. 0 * MinutesPerHour = 0
      BY CronAssumption
    <3> HIDE DEF t
    <3>2. t = t + 0 + 0
      BY <1>1
    <3> QED BY <3>1, <3>2 DEF t
  <2> HIDE DEF t
  <2> QED BY <2>1, <2>2, ClockOf
<1> HIDE DEF t
<1>3. ASSUME NEW l \in Int, l < t PROVE Day(l) < d
  <2>1. HourOf(l) >= 0 /\ HourOf(l) \in Int /\ MinuteOf(l) >= 0 /\ MinuteOf(l) \in Int
    <3>1. HourOf(l) \in 0 .. HoursPerDay - 1 /\ MinuteOf(l) \in 0 .. MinutesPerHour - 1
      BY HasClock, Zenon
    <3> QED BY <3>1, CronAssumption
  <2>2. \/ Day(l) < Day(t)
        \/ Day(l) = Day(t) /\ HourOf(l) < HourOf(t)
        \/ Day(l) = Day(t) /\ HourOf(l) = HourOf(t) /\ MinuteOf(l) < MinuteOf(t)
    BY <1>1, <1>3, InStrictOrder
  <2> QED BY <1>2, <2>1, <2>2
<1> QED BY <1>1, <1>3 DEF t

(* In a zone that is off by whole hours the next full hour is the local one. *)
LEMMA NextHour ==
    ASSUME NEW l \in Int, NEW o \in Int, o % MinutesPerHour = 0
    PROVE  HourAfter(l - o) = l - MinuteOf(l) + MinutesPerHour - o
<1> DEFINE M == MinutesPerHour
           k == o \div M
           p == l \div M
           r == l % M
           q == p - k + 1
<1>0. M \in Nat /\ M > 0
  BY CronAssumption
<1>1. k \in Int /\ o = k * M + (o % M)
  <2> HIDE DEF M
  <2> QED BY <1>0, Divided DEF k
<1>2. p \in Int /\ r \in 0 .. M - 1 /\ l = p * M + r
  <2> HIDE DEF M
  <2> QED BY <1>0, Divided DEF p, r
<1>3. q * M = p * M - k * M + M /\ p * M \in Int /\ k * M \in Int
  <2> HIDE DEF M, k, p, r
  <2> QED BY <1>0, <1>1, <1>2
<1> DEFINE x == p * M
           y == k * M
           z == q * M
           a == (l - o) + M
<1>4. z = x - y + M /\ x \in Int /\ y \in Int /\ o = y /\ l = x + r /\ r \in Int
  <2>1. o = y + 0
    BY <1>1
  <2>2. x \in Int /\ y \in Int /\ z = x - y + M /\ l = x + r
    BY <1>2, <1>3
  <2>3. r \in Int
    <3> HIDE DEF r, M
    <3> QED BY <1>0, <1>2
  <2> HIDE DEF x, y, z, r
  <2> QED BY <2>1, <2>2, <2>3
<1>5. a = z + r /\ a \in Int
  <2> HIDE DEF x, y, z, r, M
  <2> QED BY <1>0, <1>4 DEF a
<1>6. q \in Int
  <2> HIDE DEF p, k
  <2> QED BY <1>1, <1>2
<1>7. a \div M = q
  <2>1. a = q * M + r
    BY <1>5
  <2> HIDE DEF a, q, r, M
  <2> QED BY <1>0, <1>2, <1>5, <1>6, <2>1, DividedOnce
<1>8. HourAfter(l - o) = z
  <2>1. HourAfter(l - o) = (a \div M) * M
    BY DEF HourAfter
  <2> HIDE DEF a, M, q
  <2> QED BY <1>7, <2>1
<1>9. z = l - r + M - o
  <2> HIDE DEF x, y, z, r, M
  <2> QED BY <1>0, <1>4
<1> QED BY <1>8, <1>9 DEF MinuteOf

(* The step to the next hour is one of at most an hour. *)
LEMMA HourForward ==
    ASSUME NEW u \in Int
    PROVE  HourAfter(u) \in Int /\ u < HourAfter(u) /\ HourAfter(u) <= u + MinutesPerHour
<1> DEFINE M == MinutesPerHour
           a == u + M
           z == (a \div M) * M
           r == a % M
<1>0. M \in Nat /\ M > 0 /\ a \in Int
  BY CronAssumption
<1>1. a \div M \in Int /\ r \in 0 .. M - 1 /\ a = z + r
  <2> HIDE DEF M, a
  <2> QED BY <1>0, Divided
<1>2. z \in Int
  <2> DEFINE q == a \div M
  <2>1. q \in Int
    BY <1>1
  <2> HIDE DEF q, M
  <2>2. q * M \in Int
    BY <1>0, <2>1
  <2> QED BY <2>2 DEF q
<1>3. HourAfter(u) = z
  BY DEF HourAfter
<1> HIDE DEF z, r, M
<1>4. a = u + M
  BY DEF M
<1> HIDE DEF a
<1>5. r \in Int /\ 0 <= r /\ r < M
  BY <1>0, <1>1
<1>6. z \in Int /\ u < z /\ z <= u + M
  BY <1>0, <1>1, <1>2, <1>4, <1>5
<1> QED BY <1>3, <1>6 DEF M

(* What is still to come in a field has an earliest value. *)
LEMMA EarliestLater ==
    ASSUME NEW n \in Nat, NEW b \in Int, NEW S \in SUBSET (0 .. b), Later(S, n) # {}
    PROVE  /\ Earliest(Later(S, n)) \in S /\ Earliest(Later(S, n)) > n
           /\ \A v \in S : v > n => Earliest(Later(S, n)) <= v
<1> DEFINE T == Later(S, n)
<1>1. T \subseteq Nat /\ T # {} /\ \A v : v \in T <=> v \in S /\ v > n
  <2>1. T # {} /\ \A v : v \in T <=> v \in S /\ v > n
    BY DEF Later
  <2> HIDE DEF T
  <2>2. \A v \in S : v \in Nat
    OBVIOUS
  <2> QED BY <2>1, <2>2
<1> HIDE DEF T
<1>2. \E x \in T : \A y \in T : x <= y
  BY <1>1, LeastOf
<1>3. Earliest(T) \in T /\ \A w \in T : Earliest(T) <= w
  BY <1>2 DEF Earliest
<1> QED BY <1>1, <1>3 DEF T

(* A day ends at the next midnight. *)
LEMMA DayEnds ==
    ASSUME NEW l \in Int
    PROVE  l < (Day(l) + 1) * DayLength /\ (Day(l) + 1) * DayLength \in Int
<1> DEFINE d == Day(l)
           t == (d + 1) * DayLength
<1>1. d \in Int /\ d + 1 \in Int
  <2>1. d \in Int
    BY HasClock
  <2> HIDE DEF d
  <2> QED BY <2>1
<1>2. t \in Int
  <2> HIDE DEF d
  <2> QED BY <1>1, Midnight
<1>3. ~(t <= l)
  <2> SUFFICES ASSUME t <= l PROVE FALSE
    OBVIOUS
  <2>1. Day(t) = d + 1
    <3>1. 0 \in 0 .. HoursPerDay - 1 /\ 0 \in 0 .. MinutesPerHour - 1 /\ 0 * MinutesPerHour = 0
      BY CronAssumption
    <3>2. t = t + 0 + 0
      <4> HIDE DEF t
      <4> QED BY <1>2
    <3>3. t = (d + 1) * DayLength + 0 * MinutesPerHour + 0
      BY <3>1, <3>2
    <3> HIDE DEF t, d
    <3> QED BY <1>1, <3>1, <3>3, ClockOf
  <2>2. Day(t) < Day(l) \/ Day(t) = Day(l)
    <3> HIDE DEF t
    <3> QED BY <1>2, InTimeOrder
  <2> HIDE DEF t
  <2>3. d + 1 < d \/ d + 1 = d
    BY <2>1, <2>2
  <2> HIDE DEF d
  <2> QED BY <1>1, <2>3
<1> HIDE DEF t
<1>4. l < t
  BY <1>2, <1>3
<1> QED BY <1>2, <1>4 DEF t

(* A date is one of its month's. *)
LEMMA DayInMonth ==
    ASSUME NEW l \in Int
    PROVE  DayOfMonth(l) <= DaysIn[Month(l)] /\ DayOfMonth(l) \in Int /\ DaysIn[Month(l)] \in Int
<1> DEFINE m == Month(l)
           y == DayOfYear(l)
<1>1. m \in Months /\ SumTo[m - 1] <= y /\ y < SumTo[m] /\ y \in Int
  BY MonthFound
<1>2. m \in 1 .. Len(DaysIn) /\ m \in 0 .. Len(DaysIn) /\ m - 1 \in 0 .. Len(DaysIn)
  BY <1>1, SumToGrows DEF Months
<1>3. SumTo[m] = SumTo[m - 1] + DaysIn[m] /\ SumTo[m] \in Nat /\ SumTo[m - 1] \in Nat /\ DaysIn[m] \in Nat
  BY <1>1, <1>2, SumToRuns, SumToGrows
<1>4. DayOfMonth(l) = y - SumTo[m - 1] + 1
  BY DEF DayOfMonth
<1> DEFINE a == DayOfMonth(l)
           b == DaysIn[m]
<1>5. a <= b /\ a \in Int /\ b \in Int
  <2> HIDE DEF m, y
  <2> QED BY <1>1, <1>3, <1>4
<1> QED BY <1>5

(* Going on to a local time: away from the changes time.Date gives that one. *)
LEMMA DateReached ==
    ASSUME CronInv, search = "on", zone \in Zones, NEW t \in Int, Go(GoDate(t)), Local <= t,
           \A l \in Int : Local <= l /\ l < t => ~MatchesAt(l)
    PROVE  CronInv'
<1> DEFINE u == GoDate(t)
<1>1. u \in Int
  BY DateIs
<1>2. Reach(u) /\ search' = "on"
  BY DEF Go
<1>3. ~NearShift(u) => LocalOf(u) = t
  <2> SUFFICES ASSUME ~NearShift(u) PROVE LocalOf(u) = t
    OBVIOUS
  <2>1. u - MaxOffset <= u /\ u <= u + MaxOffset
    <3> HIDE DEF u
    <3> QED BY <1>1, CronAssumption
  <2> QED BY <1>1, <2>1, DateLands
<1> HIDE DEF u
<1> QED BY <1>1, <1>2, <1>3, MayGoTo

(* A day on which the month or the day does not match is passed over. *)
LEMMA DatePassed ==
    ASSUME CronInv, search = "on", ~(candidate >= since + SearchYears * YearLength),
           Month(Local) \notin expr.month \/ ~dayOk(Local), CronNext
    PROVE  CronInv'
<1>0. zone \in Zones /\ candidate \in Int
  BY DEF CronInv
<1>1. Local \in Int
  <2>1. ZoneOffset(candidate) \in Int
    BY <1>0, OffsetsBounded
  <2> QED BY <1>0, <2>1 DEF Local, LocalOf
<1> DEFINE d == Day(Local)
           D == d - DayOfMonth(Local) + DaysIn[Month(Local)] + 1
<1>2. d \in Int
  BY <1>1, HasClock
<1>3. \A l \in Int : Local <= l => d <= Day(l)
  <2> SUFFICES ASSUME NEW l \in Int, Local <= l PROVE d <= Day(l)
    OBVIOUS
  <2>1. Day(l) \in Int
    BY HasClock
  <2> QED BY <1>1, <1>2, <2>1, InTimeOrder
<1>4. CASE Month(Local) \notin expr.month
  <2>1. Go(GoDate(D * DayLength))
    BY <1>4 DEF CronNext
  <2>2. D \in Int
    <3>1. Month(Local) \in Months /\ DayOfYear(Local) \in Int
      BY <1>1, MonthFound
    <3>2. SumTo[Month(Local) - 1] \in Int /\ DaysIn[Month(Local)] \in Int
      BY <3>1, SumToGrows DEF Months
    <3>3. DayOfMonth(Local) \in Int
      BY <3>1, <3>2 DEF DayOfMonth
    <3> QED BY <1>2, <3>2, <3>3
  <2> DEFINE t == D * DayLength
  <2>3. t \in Int /\ \A l \in Int : l < t => Day(l) < D
    <3> HIDE DEF D
    <3> QED BY <2>2, Midnight
  <2>4. \A l \in Int : Local <= l /\ l < t => ~MatchesAt(l)
    <3> SUFFICES ASSUME NEW l \in Int, Local <= l, l < t PROVE Month(l) \notin expr.month
      BY DEF MatchesAt
    <3>1. Day(Local) <= Day(l) /\ Day(l) < Day(Local) - DayOfMonth(Local) + DaysIn[Month(Local)] + 1
      BY <1>3, <2>3
    <3>2. Month(l) = Month(Local)
      BY <1>1, <3>1, SameMonth
    <3> QED BY <1>4, <3>2
  <2>5. Go(GoDate(t))
    BY <2>1
  <2>6. Local <= t
    <3>1. ~(t < Local)
      <4> SUFFICES ASSUME t < Local PROVE FALSE
        OBVIOUS
      <4>1. DayOfMonth(Local) <= DaysIn[Month(Local)] /\ DayOfMonth(Local) \in Int /\ DaysIn[Month(Local)] \in Int
        BY <1>1, DayInMonth
      <4>2. d < D
        <5> HIDE DEF d
        <5> QED BY <1>2, <4>1
      <4>3. d + 1 <= D
        <5> HIDE DEF d, D
        <5> QED BY <1>2, <2>2, <4>2
      <4>4. (d + 1) * DayLength <= t /\ (d + 1) * DayLength \in Int
        <5> HIDE DEF d, D
        <5>1. DayLength \in Nat /\ d + 1 \in Int
          BY <1>2, CronAssumption DEF DayLength
        <5> QED BY <2>2, <4>3, <5>1, InOrder
      <4>5. Local < (d + 1) * DayLength
        BY <1>1, DayEnds
      <4> HIDE DEF d, t
      <4> QED BY <1>1, <2>3, <4>4, <4>5
    <3> HIDE DEF t
    <3> QED BY <1>1, <2>3, <3>1
  <2> HIDE DEF t
  <2> QED BY <1>0, <2>3, <2>4, <2>5, <2>6, DateReached
<1>5. CASE Month(Local) \in expr.month /\ ~dayOk(Local)
  <2> DEFINE t == (d + 1) * DayLength
  <2>1. NextDay
    BY <1>5 DEF CronNext
  <2>2. t \in Int /\ \A l \in Int : l < t => Day(l) < d + 1
    <3> HIDE DEF d
    <3>1. d + 1 \in Int
      BY <1>2
    <3> QED BY <3>1, Midnight
  <2>3. \A l \in Int : Local <= l /\ l < t => ~MatchesAt(l)
    <3> SUFFICES ASSUME NEW l \in Int, Local <= l, l < t PROVE ~dayOk(l)
      BY DEF MatchesAt
    <3>1. Day(l) = Day(Local)
      <4>1. d <= Day(l) /\ Day(l) < d + 1 /\ Day(l) \in Int
        BY <1>3, <2>2, HasClock
      <4> QED BY <1>2, <4>1
    <3>2. dayOk(l) = dayOk(Local)
      BY <3>1, SameDay
    <3> QED BY <1>5, <3>2
  <2>4. Go(GoDate(t))
    BY <2>1 DEF NextDay
  <2>5. Local <= t
    <3>1. Local < t
      BY <1>1, DayEnds
    <3> HIDE DEF t
    <3> QED BY <1>1, <2>2, <3>1
  <2> HIDE DEF t
  <2> QED BY <1>0, <2>2, <2>3, <2>4, <2>5, DateReached
<1> QED BY <1>4, <1>5

(* From a time in a matching hour of a matching day the search reaches the next
   minute that matches in that hour, or the next hour.  What the clock shows at u0
   is x, as long as the search ends near it and away from the changes. *)
LEMMA HourSearched ==
    ASSUME CronInv, search = "on", NEW u0 \in Int, NEW x \in Int, CheckMinute(u0),
           \A v \in Int : ~NearShift(v) /\ v - MaxOffset <= u0 /\ u0 <= v + MaxOffset => LocalOf(u0) = x,
           HourOf(x) \in expr.hour, \A l : Day(l) = Day(x) => Month(l) \in expr.month /\ dayOk(l),
           Local \in Int, Local <= x, \A l \in Int : Local <= l /\ l < x => ~MatchesAt(l)
    PROVE  CronInv'
<1> DEFINE M == MinutesPerHour
           R == MaxOffset
           D == Day(x)
           H == HourOf(x)
           m == MinuteOf(x)
           b == x - m
           o == ZoneOffset(u0)
<1>0. M \in Nat /\ M > 0 /\ expr.minute \subseteq 0 .. M - 1 /\ zone \in Zones /\ R \in Nat /\ M <= R /\ 2 * R = R + R
  BY CronAssumption DEF CronInv
<1>1. D \in Int /\ H \in 0 .. HoursPerDay - 1 /\ m \in 0 .. M - 1 /\ x = D * DayLength + H * M + m
  BY HasClock, Zenon
<1>2. m \in Nat /\ m < M /\ b \in Int /\ x = b + m
  <2> HIDE DEF m, M
  <2> QED BY <1>0, <1>1
<1>3. b = D * DayLength + H * M
  <2> DEFINE y == D * DayLength
             z == H * M
  <2>1. y \in Int /\ z \in Int /\ x = y + z + m
    BY <1>1, CronAssumption DEF DayLength
  <2> HIDE DEF y, z, m
  <2>2. b = y + z
    BY <1>2, <2>1
  <2> QED BY <2>2 DEF y, z
<1>4. ASSUME NEW n \in 0 .. M - 1 PROVE Day(b + n) = D /\ HourOf(b + n) = H /\ MinuteOf(b + n) = n
  <2>1. b + n = D * DayLength + H * M + n
    BY <1>3
  <2> HIDE DEF b
  <2> QED BY <1>1, <2>1, ClockOf
<1>5. ASSUME NEW n \in 0 .. M - 1 PROVE MatchesAt(b + n) <=> n \in expr.minute
  <2> HIDE DEF b
  <2> QED BY <1>4 DEF MatchesAt
<1>6. ASSUME NEW t, NEW u \in 0 .. M, t = b + u, u >= m, \A n \in 0 .. M - 1 : m <= n /\ n < u => n \notin expr.minute
      PROVE  Local <= t /\ \A l \in Int : Local <= l /\ l < t => ~MatchesAt(l)
  <2> HIDE DEF b, m
  <2>0. t \in Int /\ x <= t
    BY <1>0, <1>2, <1>6
  <2>1. ASSUME NEW l \in Int, Local <= l, l < t PROVE ~MatchesAt(l)
    <3>1. CASE l < x
      BY <2>1, <3>1
    <3>2. CASE ~(l < x)
      <4> DEFINE n == l - b
      <4>1. n \in 0 .. M - 1 /\ m <= n /\ n < u /\ l = b + n
        <5> HIDE DEF M
        <5> QED BY <1>0, <1>2, <1>6, <2>1, <3>2
      <4> HIDE DEF n
      <4>2. n \notin expr.minute
        BY <1>6, <4>1
      <4> QED BY <1>5, <4>1, <4>2
    <3> QED BY <3>1, <3>2
  <2> QED BY <2>0, <2>1
<1>7. o \in Int /\ LocalOf(u0) = u0 + o
  BY <1>0, OffsetsBounded DEF LocalOf
<1> DEFINE k == MinuteOf(LocalOf(u0))
           later == Later(expr.minute, k)
           y == LocalOf(u0) - k + Earliest(later)
<1>8. LocalOf(u0) \in Int /\ k \in 0 .. M - 1
  <2>1. LocalOf(u0) \in Int
    BY <1>7
  <2> QED BY <2>1, HasClock, Zenon
<1>9. \/ k \in expr.minute /\ FireAt(u0)
      \/ k \notin expr.minute /\ later = {} /\ Go(HourAfter(u0))
      \/ k \notin expr.minute /\ later # {} /\ FireAt(GoDate(y))
  BY Zenon DEF CheckMinute
<1>10. CASE k \in expr.minute /\ FireAt(u0)
  <2>1. Reach(u0)
    BY <1>10 DEF FireAt
  <2>2. ASSUME ~NearShift(u0)
        PROVE  Local <= LocalOf(u0) /\ MatchesAt(LocalOf(u0)) /\ \A l \in Int : Local <= l /\ l < LocalOf(u0) => ~MatchesAt(l)
    <3>1. u0 - R <= u0 /\ u0 <= u0 + R
      BY <1>0
    <3>2. LocalOf(u0) = x
      BY <2>2, <3>1
    <3>3. m \in expr.minute /\ x = b + m
      BY <1>2, <1>10, <3>2
    <3>4. MatchesAt(x)
      <4> HIDE DEF b, m
      <4> QED BY <1>1, <1>5, <3>3
    <3> QED BY <3>2, <3>4
  <2> QED BY <2>1, <2>2, MayGoTo
<1>11. CASE k \notin expr.minute /\ later = {} /\ Go(HourAfter(u0))
  <2> DEFINE u == HourAfter(u0)
  <2>1. Reach(u) /\ search' = "on"
    BY <1>11 DEF Go
  <2>2. u \in Int /\ u0 < u /\ u <= u0 + M
    BY HourForward
  <2>3. ASSUME ~NearShift(u)
        PROVE  Local <= LocalOf(u) /\ (WholeHours => \A l \in Int : Local <= l /\ l < LocalOf(u) => ~MatchesAt(l))
    <3>0. u - R <= u0 /\ u0 <= u + R /\ u - 2 * R <= u0 /\ u0 <= u + 2 * R
      <4> HIDE DEF u, R, M
      <4> QED BY <1>0, <2>2
    <3>1. LocalOf(u0) = x /\ k = m
      BY <2>2, <2>3, <3>0
    <3>2. ZoneOffset(u) = o
      <4> HIDE DEF u
      <4> QED BY <1>0, <2>2, <2>3, <3>0, Steady
    <3>3. LocalOf(u) = u + o /\ u0 = x - o
      <4>1. LocalOf(u) = u + o
        BY <3>2 DEF LocalOf
      <4>2. x = u0 + o
        BY <1>7, <3>1
      <4> HIDE DEF o, u
      <4> QED BY <1>7, <4>1, <4>2
    <3>4. Local <= LocalOf(u)
      <4> HIDE DEF o, u, M
      <4> QED BY <1>0, <1>7, <2>2, <3>3
    <3>5. ASSUME WholeHours PROVE \A l \in Int : Local <= l /\ l < LocalOf(u) => ~MatchesAt(l)
      <4>1. o % M = 0
        BY <1>0, <3>5, OffsetsBounded
      <4>2. HourAfter(x - o) = x - MinuteOf(x) + M - o
        <5> HIDE DEF o
        <5> QED BY <1>7, <4>1, NextHour
      <4>3. u = b + M - o
        BY <3>3, <4>2
      <4>4. LocalOf(u) = b + M
        <5> HIDE DEF u, o, b, M
        <5> QED BY <1>0, <1>2, <1>7, <3>3, <4>3
      <4>5. ASSUME NEW n \in 0 .. M - 1, m <= n, n < M PROVE n \notin expr.minute
        <5>1. n = m \/ n > m
          BY <1>0, <1>2, <4>5
        <5> QED BY <1>11, <3>1, <5>1 DEF Later
      <4>6. M \in 0 .. M /\ M >= m
        <5> HIDE DEF m, M
        <5> QED BY <1>0, <1>2
      <4> HIDE DEF u, b, m, M
      <4> QED BY <1>6, <4>4, <4>5, <4>6
    <3> QED BY <3>4, <3>5
  <2> HIDE DEF u
  <2> QED BY <2>1, <2>2, <2>3, MayGoTo
<1>12. CASE k \notin expr.minute /\ later # {} /\ FireAt(GoDate(y))
  <2> DEFINE e == Earliest(later)
             u == GoDate(y)
             p == ZoneOffset(u)
  <2>1. e \in expr.minute /\ e > k /\ \A v \in expr.minute : v > k => e <= v
    <3>1. M - 1 \in Int /\ k \in Nat
      BY <1>0, <1>8
    <3> HIDE DEF k, M
    <3> QED BY <1>0, <1>12, <3>1, EarliestLater
  <2>2. e \in 0 .. M - 1 /\ e \in Int /\ k \in Int /\ e - k < M /\ e - k > 0
    <3> HIDE DEF e, k, M
    <3> QED BY <1>0, <1>8, <2>1
  <2>3. y \in Int
    <3>1. y = LocalOf(u0) - k + e
      OBVIOUS
    <3> HIDE DEF e, k, y
    <3> QED BY <1>8, <2>2, <3>1
  <2>4. u \in Int
    <3> HIDE DEF y
    <3> QED BY <1>0, <2>3, DateIs
  <2>5. Reach(u)
    BY <1>12 DEF FireAt
  <2>6. ASSUME ~NearShift(u)
        PROVE  Local <= LocalOf(u) /\ MatchesAt(LocalOf(u)) /\ \A l \in Int : Local <= l /\ l < LocalOf(u) => ~MatchesAt(l)
    <3>1. LocalOf(u) = y
      <4>1. u - R <= u /\ u <= u + R
        <5> HIDE DEF u
        <5> QED BY <1>0, <2>4
      <4> HIDE DEF y
      <4> QED BY <1>0, <2>3, <2>4, <2>6, <4>1, DateLands
    <3>2. p \in Int /\ p - o <= R /\ o - p <= R
      <4> HIDE DEF u
      <4> QED BY <1>0, OffsetsBounded
    <3>3. u + p = u0 + o - k + e
      <4>1. LocalOf(u) = u + p
        BY DEF LocalOf
      <4>2. y = LocalOf(u0) - k + e
        OBVIOUS
      <4> HIDE DEF u, p, o, k, e, y
      <4>3. u + p = y
        BY <3>1, <4>1, Zenon
      <4> DEFINE w == LocalOf(u0)
      <4>4. w \in Int /\ w = u0 + o /\ y = w - k + e
        BY <1>7, <1>8, <4>2
      <4> HIDE DEF w
      <4>5. w - k + e = u0 + o - k + e
        BY <1>7, <2>2, <4>4
      <4> QED BY <4>3, <4>4, <4>5, Zenon
    <3>4. u - 2 * R <= u0 /\ u0 <= u + 2 * R
      <4> HIDE DEF u, p, o, k, e, R, M
      <4> QED BY <1>0, <1>7, <2>2, <2>4, <3>2, <3>3
    <3>5. o = p
      <4> HIDE DEF u
      <4> QED BY <1>0, <2>4, <2>6, <3>4, Steady
    <3>6. u - R <= u0 /\ u0 <= u + R
      <4> HIDE DEF u, p, o, k, e, R, M
      <4> QED BY <1>0, <1>7, <2>2, <2>4, <3>2, <3>3, <3>5
    <3>7. LocalOf(u0) = x /\ k = m
      BY <2>4, <2>6, <3>6
    <3>8. LocalOf(u) = b + e
      <4>1. y = x - m + e
        BY <3>7
      <4> QED BY <3>1, <4>1
    <3> HIDE DEF u, b, e, m, M, y
    <3>9. MatchesAt(LocalOf(u))
      BY <1>5, <2>1, <2>2, <3>8
    <3>10. ASSUME NEW n \in 0 .. M - 1, m <= n, n < e PROVE n \notin expr.minute
      <4>1. n = m \/ n > m
        BY <1>0, <1>2, <3>10
      <4>2. ~(e <= n)
        BY <1>0, <2>2, <3>10
      <4> QED BY <1>12, <2>1, <3>7, <4>1, <4>2
    <3>11. e \in 0 .. M /\ e >= m
      BY <1>0, <1>2, <2>1, <2>2, <3>7
    <3> QED BY <1>6, <3>8, <3>9, <3>10, <3>11
  <2> HIDE DEF u
  <2> QED BY <2>4, <2>5, <2>6, MayGoTo
<1> QED BY <1>9, <1>10, <1>11, <1>12

(* Within a day whose date matches. *)
LEMMA DaySearched ==
    ASSUME CronInv, search = "on", Month(Local) \in expr.month, dayOk(Local), CheckHour
    PROVE  CronInv'
<1> DEFINE D == Day(Local)
           h == HourOf(Local)
           later == Later(expr.hour, h)
<1>0. zone \in Zones /\ candidate \in Int /\ MaxOffset \in Nat
  BY CronAssumption DEF CronInv
<1>1. Local \in Int /\ expr.hour \subseteq 0 .. HoursPerDay - 1 /\ HoursPerDay - 1 \in Int
  <2>1. ZoneOffset(candidate) \in Int
    BY <1>0, OffsetsBounded
  <2> QED BY <1>0, <2>1, CronAssumption DEF CronInv, Local, LocalOf
<1>2. D \in Int /\ h \in 0 .. HoursPerDay - 1
  BY <1>1, HasClock, Zenon
<1>3. ASSUME NEW l, Day(l) = D PROVE Month(l) \in expr.month /\ dayOk(l)
  <2>1. Month(l) = Month(Local) /\ dayOk(l) = dayOk(Local)
    BY <1>3, SameDay
  <2> QED BY <2>1
<1>4. ASSUME NEW l \in Int, Local <= l PROVE D <= Day(l) /\ (D = Day(l) => h <= HourOf(l)) /\ Day(l) \in Int /\ HourOf(l) \in Int
  <2>1. Day(l) \in Int /\ HourOf(l) \in 0 .. HoursPerDay - 1
    BY HasClock, Zenon
  <2>2. HourOf(l) \in Int /\ h \in Int
    BY <1>1, <1>2, <2>1
  <2>3. \/ Day(Local) < Day(l)
        \/ Day(Local) = Day(l) /\ HourOf(Local) < HourOf(l)
        \/ Day(Local) = Day(l) /\ HourOf(Local) = HourOf(l) /\ MinuteOf(Local) <= MinuteOf(l)
    BY <1>1, <1>4, InTimeOrder
  <2> QED BY <1>2, <2>1, <2>2, <2>3
<1>5. CASE h \notin expr.hour /\ later = {}
  <2> DEFINE t == (D + 1) * DayLength
  <2>1. NextDay
    BY <1>5 DEF CheckHour
  <2>2. Go(GoDate(t))
    BY <2>1 DEF NextDay
  <2>3. t \in Int /\ \A l \in Int : l < t => Day(l) < D + 1
    <3> HIDE DEF D
    <3>1. D + 1 \in Int
      BY <1>2
    <3> QED BY <3>1, Midnight
  <2>4. ASSUME NEW l \in Int, Local <= l, l < t PROVE ~MatchesAt(l)
    <3>1. Day(l) < D + 1
      BY <2>3, <2>4
    <3> HIDE DEF D, h
    <3>2. h <= HourOf(l) /\ HourOf(l) \in Int
      BY <1>2, <1>4, <2>4, <3>1
    <3>3. h = HourOf(l) \/ HourOf(l) > h
      BY <1>1, <1>2, <3>2
    <3>4. HourOf(l) \notin expr.hour
      BY <1>5, <3>3 DEF Later
    <3> QED BY <3>4 DEF MatchesAt
  <2>5. Local <= t
    <3>1. Local < t
      BY <1>1, DayEnds
    <3> HIDE DEF t
    <3> QED BY <1>1, <2>3, <3>1
  <2> HIDE DEF t
  <2> QED BY <1>0, <2>2, <2>3, <2>4, <2>5, DateReached
<1>6. CASE h \in expr.hour
  <2>1. CheckMinute(candidate)
    BY <1>6 DEF CheckHour
  <2>2. LocalOf(candidate) = Local /\ Local <= Local /\ \A l \in Int : ~(Local <= l /\ l < Local)
    BY <1>1 DEF Local
  <2> QED BY <1>0, <1>1, <1>3, <1>6, <2>1, <2>2, HourSearched
<1> DEFINE E == Earliest(later)
           x == D * DayLength + E * MinutesPerHour
<1>7. CASE h \notin expr.hour /\ later # {}
  <2>1. CheckMinute(GoDate(x))
    BY <1>7 DEF CheckHour
  <2>2. h \in Nat
    BY <1>1, <1>2
  <2>3. E \in expr.hour /\ E > h /\ \A v \in expr.hour : v > h => E <= v
    <3> HIDE DEF h
    <3> QED BY <1>1, <1>7, <2>2, EarliestLater
  <2> HIDE DEF E
  <2>4. x = D * DayLength + E * MinutesPerHour + 0
    <3>1. E \in Int /\ MinutesPerHour \in Int /\ DayLength \in Int
      BY <1>1, <2>3, CronAssumption DEF DayLength
    <3>2. x \in Int
      <4> HIDE DEF D
      <4> QED BY <1>2, <3>1
    <3>3. x = x + 0
      <4> HIDE DEF x
      <4> QED BY <3>2
    <3> QED BY <3>3
  <2>5. E \in 0 .. HoursPerDay - 1 /\ 0 \in 0 .. MinutesPerHour - 1
    BY <1>1, <2>3, CronAssumption
  <2> HIDE DEF x
  <2>6. Day(x) = D /\ HourOf(x) = E /\ MinuteOf(x) = 0 /\ x \in Int
    <3> HIDE DEF D
    <3> QED BY <1>2, <2>4, <2>5, ClockOf
  <2>7. ASSUME NEW l \in Int, Local <= l, l < x PROVE ~MatchesAt(l)
    <3>1. \/ Day(l) < Day(x)
          \/ Day(l) = Day(x) /\ HourOf(l) < HourOf(x)
          \/ Day(l) = Day(x) /\ HourOf(l) = HourOf(x) /\ MinuteOf(l) < MinuteOf(x)
      BY <2>6, <2>7, InStrictOrder
    <3>2. MinuteOf(l) \in 0 .. MinutesPerHour - 1
      BY HasClock, Zenon
    <3>3. ~(MinuteOf(l) < 0)
      BY <3>2, CronAssumption
    <3> HIDE DEF D, h
    <3>4. D <= Day(l) /\ Day(l) \in Int /\ HourOf(l) \in Int /\ (D = Day(l) => h <= HourOf(l))
      BY <1>4, <2>7
    <3>5. D = Day(l) /\ HourOf(l) < E /\ h <= HourOf(l)
      BY <1>2, <2>6, <3>1, <3>3, <3>4
    <3>6. E \in Int
      BY <2>5
    <3>7. h = HourOf(l) \/ HourOf(l) > h
      BY <2>2, <3>4, <3>5
    <3>8. ~(E <= HourOf(l))
      BY <3>4, <3>5, <3>6
    <3>9. HourOf(l) \notin expr.hour
      BY <1>7, <2>3, <3>7, <3>8
    <3> QED BY <3>9 DEF MatchesAt
  <2>8. Local <= x
    <3>1. ~(x < Local)
      <4> SUFFICES ASSUME x < Local PROVE FALSE
        OBVIOUS
      <4>1. \/ Day(x) < Day(Local)
            \/ Day(x) = Day(Local) /\ HourOf(x) < HourOf(Local)
            \/ Day(x) = Day(Local) /\ HourOf(x) = HourOf(Local) /\ MinuteOf(x) < MinuteOf(Local)
        BY <1>1, <2>6, InStrictOrder
      <4>2. D < D \/ E < h \/ E = h
        BY <2>6, <4>1
      <4>3. E \in Int
        BY <2>5
      <4> HIDE DEF D, h
      <4> QED BY <1>2, <2>2, <2>3, <4>2, <4>3
    <3> QED BY <1>1, <2>6, <3>1
  <2> DEFINE u0 == GoDate(x)
  <2>9. u0 \in Int
    BY <1>0, <2>6, DateIs
  <2>10. \A v \in Int : ~NearShift(v) /\ v - MaxOffset <= u0 /\ u0 <= v + MaxOffset => LocalOf(u0) = x
    BY <1>0, <2>6, DateLands
  <2>11. HourOf(x) \in expr.hour /\ \A l : Day(l) = Day(x) => Month(l) \in expr.month /\ dayOk(l)
    BY <1>3, <2>3, <2>6
  <2>12. CheckMinute(u0)
    BY <2>1
  <2> HIDE DEF u0
  <2> QED BY <1>1, <2>6, <2>7, <2>8, <2>9, <2>10, <2>11, <2>12, HourSearched
<1> QED BY <1>5, <1>6, <1>7

(* Every step of the search keeps that it skipped nothing. *)
LEMMA CronStep == CronInv /\ [CronNext]_cronVars => CronInv'
<1> SUFFICES ASSUME CronInv, [CronNext]_cronVars PROVE CronInv'
  OBVIOUS
<1>1. ASSUME UNCHANGED <<expr, zone, since, candidate, rough>>, search' = "none" \/ search' = search PROVE CronInv'
  <2>1. \A m : Matches(m)' <=> Matches(m)
    BY <1>1 DEF Matches, DayFits, LocalOf, ZoneOffset, Shifts
  <2>2. Matches(candidate)' <=> Matches(candidate)
    BY <1>1 DEF Matches, DayFits, LocalOf, ZoneOffset, Shifts
  <2>3. (NearShift(candidate)' <=> NearShift(candidate)) /\ (WholeHours' <=> WholeHours)
    BY <1>1 DEF NearShift, WholeHours
  <2>4. NoFireSkipped
    BY DEF CronInv
  <2>5. (search = "found" /\ ~NearShift(candidate) => Matches(candidate))'
    BY <1>1, <2>2, <2>3, <2>4 DEF NoFireSkipped
  <2>6. (~rough => /\ candidate > since
                   /\ WholeHours => \A m \in since + 1 .. candidate - 1 : ~Matches(m))'
    BY <1>1, <2>1, <2>3, <2>4 DEF NoFireSkipped
  <2>7. NoFireSkipped'
    BY <2>5, <2>6 DEF NoFireSkipped
  <2> QED BY <1>1, <2>3, <2>7 DEF CronInv
<1>2. CASE UNCHANGED cronVars
  BY <1>1, <1>2 DEF cronVars
<1>3. CASE CronNext
  <2>1. search = "on"
    BY <1>3 DEF CronNext
  <2>2. CASE candidate >= since + SearchYears * YearLength
    BY <1>1, <1>3, <2>2 DEF CronNext
  <2>3. CASE ~(candidate >= since + SearchYears * YearLength)
    <3>1. CASE Month(Local) \notin expr.month \/ ~dayOk(Local)
      BY <1>3, <2>1, <2>3, <3>1, DatePassed
    <3>2. CASE Month(Local) \in expr.month /\ dayOk(Local)
      <4>1. CheckHour
        BY <1>3, <2>3, <3>2 DEF CronNext
      <4> QED BY <2>1, <3>2, <4>1, DaySearched
    <3> QED BY <3>1, <3>2
  <2> QED BY <2>2, <2>3
<1> QED BY <1>2, <1>3

(* A step of the whole is a step of each part, or leaves it alone. *)
LEMMA PartSteps ==
    [StateNext]_stateVars => /\ [HistoryNext]_historyVars /\ [Next]_vars /\ [AuditNext]_auditVars
                             /\ [PushNext]_pushVars /\ [ClientsNext]_clientVars /\ [CronNext]_cronVars
BY DEF StateNext, stateVars, jobVars, storageVars, serviceVars

(* The job history and the executions agree, with the memory store and with
   Redis: what is listed has a record, an execution that is over has its end in
   it, the counters add up unless Redis failed, and every execution that ended in
   time recorded its end. *)
THEOREM RecordsKept == StateSpec => []RecordsAgree
<1> DEFINE I == HistoryInv /\ EndsRecorded
<1>1. StateInit => I
  <2>1. StateInit => HistoryInit /\ Init
    BY DEF StateInit
  <2> QED BY <2>1, HistoryStarts, EndsRecordedInit
<1>2. I /\ [StateNext]_stateVars => I'
  BY PartSteps, HistoryStep, EndsRecordedStep
<1>3. I => RecordsAgree
  BY HistoryHolds DEF RecordsAgree, EndsRecorded, EndedIsRecorded
<1> HIDE DEF I
<1> QED BY <1>1, <1>2, <1>3, PTL DEF StateSpec

(* What the clients of other services report is what the service said: for any
   number of senders and targets, any token lifetime and HTTP timeout, and every
   method's answer. *)
THEOREM RepliesKept == StateSpec => []RepliesSound
<1> DEFINE I == PushInv /\ ClientsInv
<1>1. StateInit => I
  <2>1. StateInit => PushInit
    BY DEF StateInit
  <2>2. StateInit => ClientsInit \/ ClientIdle
    BY DEF StateInit
  <2> QED BY <2>1, <2>2, PushStarts, ClientsStart
<1>2. I /\ [StateNext]_stateVars => I'
  BY PartSteps, PushStep, ClientsStep
<1>3. I => RepliesSound
  BY PushHolds, ClientsHold DEF RepliesSound
<1> HIDE DEF I
<1> QED BY <1>1, <1>2, <1>3, PTL DEF StateSpec

(* Nothing logged before Close is forgotten on its way through the buffer, the
   workers and the batch, for any numbers of workers and events, any sizes of the
   buffer and the batch and whatever writes fail; the files stay in order whatever
   renames fail, and unless one did rotation keeps the newest records, for every
   file size and number of files. *)
THEOREM AuditKept == StateSpec => []AuditSound
<1>1. StateInit => AuditInv
  BY AuditStarts DEF StateInit
<1>2. AuditInv /\ [StateNext]_stateVars => AuditInv'
  BY PartSteps, AuditStep
<1> QED BY <1>1, <1>2, AuditHolds, PTL DEF StateSpec

(* In any calendar and in every zone, whatever its offsets, Next returns a time
   that matches unless the offset changes close to it; and a search that comes close
   to no change goes forward only and, where the offsets are whole hours, skips no
   time the expression matches, not even around a change it jumps over. *)
THEOREM FiresKept == StateSpec => []NoFireSkipped
<1>1. StateInit => CronInv
  <2>1. StateInit => CronInit \/ CronIdle
    BY DEF StateInit
  <2>2. CronIdle => CronInv
    <3> SUFFICES ASSUME CronIdle PROVE CronInv
      OBVIOUS
    <3>1. /\ zone \in Zones /\ zone.at = << >> /\ since = 0 /\ candidate = 1 /\ search = "on"
          /\ expr.minute = {0} /\ expr.hour = {0} /\ expr.day = {1} /\ expr.weekday = 0 .. DaysPerWeek - 1
      BY DEF CronIdle, ZoneAt
    <3>2. /\ expr.minute \subseteq 0 .. MinutesPerHour - 1 /\ expr.hour \subseteq 0 .. HoursPerDay - 1
          /\ expr.day \subseteq 1 .. Longest
      BY <3>1, CronAssumption, LongestMonth
    <3>3. ~NearShift(candidate)
      BY <3>1 DEF NearShift
    <3>4. NoFireSkipped
      BY <3>1 DEF NoFireSkipped
    <3> QED BY <3>1, <3>2, <3>3, <3>4 DEF CronInv
  <2> QED BY <2>1, <2>2, CronStarts
<1>2. CronInv /\ [StateNext]_stateVars => CronInv'
  BY PartSteps, CronStep
<1>3. CronInv => NoFireSkipped
  BY DEF CronInv
<1> QED BY <1>1, <1>2, <1>3, PTL DEF StateSpec
=============================================================================
