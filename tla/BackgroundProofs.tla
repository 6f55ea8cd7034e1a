-------------------------- MODULE BackgroundProofs --------------------------
(***************************************************************************)
(* Proofs about the worker pool, the timeout middleware, the retrying      *)
(* transport, webhook fan-outs and the circuit breaker, for every number   *)
(* of tasks, workers, writes, attempts, targets and callers.               *)
(***************************************************************************)
EXTENDS Pool, Timeout, Retry, Webhook, Circuit, FiniteSetTheorems, TLAPS

-----------------------------------------------------------------------------
(* The three counters of the pool are the numbers of tasks in the phases
   between the code's increments and its decrements. *)
PoolCounters ==
    /\ sem = Cardinality(In({"acquired", "executing", "releasing"}))
    /\ wg = Cardinality(In({"executing", "releasing", "released"}))
    /\ running = Cardinality(In({"executing", "releasing", "released", "counted"}))

PoolTypes ==
    /\ sem \in 0..Workers
    /\ place \in [Tasks -> Phases]
    /\ futures \subseteq Submitted
    /\ waiter \in {"out", "waiting", "returned"}

PoolInv == PoolTypes /\ PoolCounters

Bit(b) == IF b THEN 1 ELSE 0

(* Any set of tasks picked by their phase can be counted. *)
LEMMA InFinite ==
    ASSUME NEW P
    PROVE  /\ IsFiniteSet(In(P))
           /\ Cardinality(In(P)) \in Nat
           /\ Cardinality(In(P)) <= Cardinality(Tasks)
           /\ Cardinality(Tasks) \in Nat
BY PoolAssumption, FS_Subset, FS_CardinalityType DEF In

(* A task that moves from one phase to another changes the count of a set of
   phases by one when exactly one of the two phases is in the set. *)
LEMMA AdvanceCounts ==
    ASSUME place \in [Tasks -> Phases], NEW t \in Tasks, NEW from, NEW to, NEW P,
           Advance(t, from, to)
    PROVE  Cardinality(In(P)') = Cardinality(In(P)) + Bit(to \in P) - Bit(from \in P)
<1>0. IsFiniteSet(In(P)) /\ Cardinality(In(P)) \in Nat
  BY InFinite
<1>1. place[t] = from /\ place' = [place EXCEPT ![t] = to]
  BY DEF Advance
<1>2. CASE to \in P /\ from \notin P
  <2>1. In(P)' = In(P) \cup {t} /\ t \notin In(P)
    BY <1>1, <1>2 DEF In
  <2> QED BY <1>0, <1>2, <2>1, FS_AddElement DEF Bit
<1>3. CASE to \notin P /\ from \in P
  <2>1. In(P)' = In(P) \ {t} /\ t \in In(P)
    BY <1>1, <1>3 DEF In
  <2>2. Cardinality(In(P)') = Cardinality(In(P)) - 1
    BY <1>0, <2>1, FS_RemoveElement
  <2> QED BY <1>0, <1>3, <2>2 DEF Bit
<1>4. CASE to \in P <=> from \in P
  <2>1. In(P)' = In(P)
    BY <1>1, <1>4 DEF In
  <2> QED BY <1>0, <1>4, <2>1 DEF Bit
<1> QED BY <1>2, <1>3, <1>4

LEMMA PoolStarts == PoolInit => PoolInv
<1> SUFFICES ASSUME PoolInit PROVE PoolInv OBVIOUS
<1>1. ASSUME NEW P, "new" \notin P PROVE Cardinality(In(P)) = 0
  <2>1. In(P) = {}
    BY <1>1 DEF PoolInit, In
  <2> QED BY <2>1, FS_EmptySet
<1>2. PoolTypes
  BY PoolAssumption DEF PoolInit, PoolTypes, Phases
<1> QED BY <1>1, <1>2 DEF PoolInv, PoolCounters, PoolInit

(* Every step of Go, TryGo, a task or Wait keeps the semaphore, the wait group
   and the running counter equal to what they count. *)
LEMMA PoolStep == PoolInv /\ [PoolNext]_poolVars => PoolInv'
<1> SUFFICES ASSUME PoolInv, [PoolNext]_poolVars PROVE PoolInv' OBVIOUS
<1> USE DEF PoolInv
<1> DEFINE Sem == {"acquired", "executing", "releasing"}
           Wg == {"executing", "releasing", "released"}
           Run == {"executing", "releasing", "released", "counted"}
<1>0. /\ Cardinality(In(Sem)) \in Nat /\ Cardinality(In(Wg)) \in Nat /\ Cardinality(In(Run)) \in Nat
      /\ sem = Cardinality(In(Sem)) /\ wg = Cardinality(In(Wg)) /\ running = Cardinality(In(Run))
  BY InFinite DEF PoolCounters
<1>1. ASSUME NEW t \in Tasks, NEW from \in Phases, NEW to \in Phases, Advance(t, from, to)
      PROVE  /\ place' \in [Tasks -> Phases]
             /\ Cardinality(In(Sem)') = sem + Bit(to \in Sem) - Bit(from \in Sem)
             /\ Cardinality(In(Wg)') = wg + Bit(to \in Wg) - Bit(from \in Wg)
             /\ Cardinality(In(Run)') = running + Bit(to \in Run) - Bit(from \in Run)
  <2>1. place \in [Tasks -> Phases]
    BY DEF PoolTypes
  <2>2. place' \in [Tasks -> Phases]
    BY <1>1, <2>1 DEF Advance
  <2>3. ASSUME NEW P PROVE Cardinality(In(P)') = Cardinality(In(P)) + Bit(to \in P) - Bit(from \in P)
    BY <1>1, <2>1, AdvanceCounts
  <2> QED BY <1>0, <2>2, <2>3
<1>3. ASSUME NEW t \in Tasks, Go(t) \/ TryGo(t) \/ Step(t) PROVE PoolInv'
  <2> USE <1>0, <1>1, PoolAssumption DEF PoolTypes, PoolCounters, Phases, Bit
  <2>1. CASE Go(t) BY <2>1 DEF Go
  <2>2. CASE TryGo(t) BY <2>2 DEF TryGo
  <2>3. CASE GoAcquires(t) BY <2>3 DEF GoAcquires
  <2>4. CASE Launch(t) BY <2>4 DEF Launch
  <2>5. CASE TaskReturns(t) BY <2>5 DEF TaskReturns
  <2>6. CASE TaskPanics(t) BY <2>6 DEF TaskPanics
  <2>7. CASE Release(t)
    <3>1. In(Sem)' \in SUBSET Tasks
      BY DEF In
    <3>2. Cardinality(In(Sem)') \in Nat
      BY <3>1, FS_Subset, FS_CardinalityType
    <3> QED BY <2>7, <3>2 DEF Release
  <2>8. CASE WgDone(t) BY <2>8 DEF WgDone
  <2>9. CASE Uncount(t) BY <2>9 DEF Uncount
  <2> QED BY <1>3, <2>1, <2>2, <2>3, <2>4, <2>5, <2>6, <2>7, <2>8, <2>9 DEF Step
<1>4. CASE PoolWait \/ WaitReturns \/ WaitTimesOut \/ UNCHANGED poolVars
  BY <1>4 DEF PoolWait, WaitReturns, WaitTimesOut, poolVars, PoolTypes, PoolCounters, In
<1> QED BY <1>3, <1>4 DEF PoolNext

LEMMA PoolAlways == PoolSpec => []PoolInv
BY PoolStarts, PoolStep, PTL DEF PoolSpec

(* sem, wg and running are numbers the code can show at any time: none goes
   below zero or above the tasks there are, and sem never exceeds its channel's
   capacity. *)
THEOREM PoolTypeSafe == PoolSpec => []PoolTypeOK
<1>1. PoolInv => PoolTypeOK
  BY InFinite DEF PoolInv, PoolTypes, PoolCounters, PoolTypeOK
<1> QED BY <1>1, PoolAlways, PTL

(* At most Workers tasks execute at once, whichever of Go, TryGo and Submit
   started them and however they end. *)
THEOREM PoolLimit == PoolSpec => []ConcurrencyLimit
<1>1. PoolInv => ConcurrencyLimit
  <2> SUFFICES ASSUME PoolInv PROVE ConcurrencyLimit OBVIOUS
  <2> DEFINE Sem == {"acquired", "executing", "releasing"}
             Exec == {"executing", "releasing"}
  <2>1. IsFiniteSet(In(Sem)) /\ In(Exec) \in SUBSET In(Sem)
    BY InFinite DEF In
  <2>2. Cardinality(In(Exec)) <= Cardinality(In(Sem))
    BY <2>1, FS_Subset
  <2>3. Cardinality(In(Exec)) \in Nat /\ Cardinality(In(Sem)) \in Nat
    BY InFinite
  <2> QED BY <2>2, <2>3, PoolAssumption DEF PoolInv, PoolTypes, PoolCounters, ConcurrencyLimit
<1> QED BY <1>1, PoolAlways, PTL

(* Wait returns only when no task that was launched is still inside its
   function: wg.Add precedes the goroutine and wg.Done follows the function. *)
THEOREM WaitIsComplete == PoolSpec => WaitSeesTasks
<1>1. PoolInv /\ [PoolNext]_poolVars
      => [waiter = "waiting" /\ waiter' = "returned" => In({"executing"}) = {}]_poolVars
  <2> SUFFICES ASSUME PoolInv, PoolNext, waiter = "waiting", waiter' = "returned"
               PROVE  In({"executing"}) = {}
    OBVIOUS
  <2>1. WaitReturns
    BY DEF PoolNext, Go, TryGo, Step, GoAcquires, Launch, TaskReturns, TaskPanics, Release,
           WgDone, Uncount, PoolWait, WaitTimesOut
  <2>2. Cardinality(In({"executing", "releasing", "released"})) = 0
    BY <2>1 DEF WaitReturns, PoolInv, PoolCounters
  <2>3. In({"executing", "releasing", "released"}) = {}
    BY <2>2, InFinite, FS_EmptySet
  <2> QED BY <2>3 DEF In
<1> QED BY <1>1, PoolAlways, PTL DEF PoolSpec, WaitSeesTasks

-----------------------------------------------------------------------------
(* What a sequence holds after an element was appended. *)
LEMMA Appended ==
    ASSUME NEW S, NEW s \in Seq(S), NEW x \in S
    PROVE  /\ Append(s, x) \in Seq(S)
           /\ Len(Append(s, x)) = Len(s) + 1
           /\ DOMAIN Append(s, x) = 1..(Len(s) + 1) /\ DOMAIN s = 1..Len(s) /\ Len(s) \in Nat
           /\ \A i \in 1..Len(s) : Append(s, x)[i] = s[i]
           /\ Append(s, x)[Len(s) + 1] = x
OBVIOUS

(* The middleware sets timedOut before it answers, and answers only after its
   select is over. *)
TimeoutInv ==
    /\ TimeoutTypeOK
    /\ tTimedOut \in BOOLEAN
    /\ tCaller = "answer" => tTimedOut
    /\ \A i \in DOMAIN tOut : tOut[i] = "timeout" => tTimedOut /\ tCaller = "returned"
    /\ TimeoutIsLast

(* Whatever the handler's goroutine does after it was given up, its writes see
   timedOut. *)
LEMMA TimeoutStep == TimeoutInv /\ [TimeoutNext]_timeoutVars => TimeoutInv'
<1> SUFFICES ASSUME TimeoutInv, [TimeoutNext]_timeoutVars PROVE TimeoutInv' OBVIOUS
<1> USE TimeoutAssumption DEF TimeoutInv, TimeoutTypeOK, TimeoutIsLast
<1>1. CASE HandlerWrites
  <2>1. CASE tTimedOut
    BY <1>1, <2>1 DEF HandlerWrites
  <2>2. CASE ~tTimedOut
    <3>1. tOut' = Append(tOut, "handler") /\ tOut \in Seq({"handler", "timeout"})
      BY <1>1, <2>2 DEF HandlerWrites
    <3>2. tOut' \in Seq({"handler", "timeout"}) /\ \A i \in DOMAIN tOut' : tOut'[i] # "timeout"
      BY <2>2, <3>1, Appended
    <3> QED BY <1>1, <3>2 DEF HandlerWrites
  <2> QED BY <2>1, <2>2
<1>2. CASE HandlerExits
  BY <1>2 DEF HandlerExits
<1>3. CASE Expire
  BY <1>3 DEF Expire
<1>4. CASE CallerDone
  BY <1>4 DEF CallerDone
<1>5. CASE CallerPanic
  BY <1>5 DEF CallerPanic
<1>6. CASE CallerTimeout
  BY <1>6 DEF CallerTimeout
<1>7. CASE CallerAnswers
  <2>1. tOut' = Append(tOut, "timeout") /\ tOut \in Seq({"handler", "timeout"})
    BY <1>7 DEF CallerAnswers
  <2>2. \A i \in DOMAIN tOut : tOut[i] # "timeout"
    BY <1>7 DEF CallerAnswers
  <2>3. tOut' \in Seq({"handler", "timeout"}) /\ TimeoutIsLast'
    BY <2>1, <2>2, Appended
  <2> QED BY <1>7, <2>3 DEF CallerAnswers
<1>8. ASSUME NEW p \in BOOLEAN, HandlerEnds(p) PROVE TimeoutInv'
  BY <1>8 DEF HandlerEnds
<1>9. CASE UNCHANGED timeoutVars
  BY <1>9 DEF timeoutVars
<1> QED BY <1>1, <1>2, <1>3, <1>4, <1>5, <1>6, <1>7, <1>8, <1>9 DEF TimeoutNext, Caller

(* Nothing an abandoned handler writes follows the timeout answer on the
   connection, in whatever order its writes, its panic, the deadline and the
   middleware's select happen. *)
THEOREM TimeoutAnswersLast == TimeoutSpec => []TimeoutIsLast
<1>1. TimeoutInit => TimeoutInv
  <2> SUFFICES ASSUME TimeoutInit PROVE TimeoutInv OBVIOUS
  <2>1. tOut \in Seq({"handler", "timeout"}) /\ DOMAIN tOut = {}
    BY DEF TimeoutInit
  <2>2. TimeoutIsLast /\ \A i \in DOMAIN tOut : tOut[i] # "timeout"
    BY <2>1 DEF TimeoutIsLast
  <2>3. TimeoutTypeOK /\ tTimedOut = FALSE /\ tCaller = "select"
    BY <2>1, TimeoutAssumption DEF TimeoutInit, TimeoutTypeOK
  <2> QED BY <2>2, <2>3 DEF TimeoutInv
<1>2. TimeoutInv => TimeoutIsLast
  BY DEF TimeoutInv
<1> QED BY <1>1, <1>2, TimeoutStep, PTL DEF TimeoutSpec

-----------------------------------------------------------------------------
(* Until RoundTrip returns there is an attempt left, every response it got is
   closed and the body of the next attempt is unread or can be rewound. *)
RetryInv ==
    /\ RetryTypeOK
    /\ rLeft \in BOOLEAN
    /\ rPc # "returned" => /\ rAttempt < MaxAttempts
                           /\ \A i \in DOMAIN rResponses : rResponses[i] = "closed"
    /\ ~rLeft => rAttempt > 0
    /\ RoundTripSound

LEMMA ClosedResponses ==
    ASSUME NEW s \in Seq({"open", "closed"})
    PROVE  /\ CloseResponses(s) \in Seq({"open", "closed"})
           /\ \A i \in DOMAIN CloseResponses(s) : CloseResponses(s)[i] = "closed"
BY DEF CloseResponses

(* Every way out of an attempt or a wait closes what it does not return, and no
   attempt sends a body that an earlier one has read. *)
LEMMA RetryStep == RetryInv /\ [RetryNext]_retryVars => RetryInv'
<1> SUFFICES ASSUME RetryInv, [RetryNext]_retryVars PROVE RetryInv' OBVIOUS
<1> USE RetryAssumption
<1>1. CASE RetryGivesUp
  BY <1>1 DEF RetryGivesUp, RetryInv, RetryTypeOK, RoundTripSound, BodiesSettled, WholeBodySent, Return
<1>2. CASE RetryWait
  BY <1>2 DEF RetryWait, RetryInv, RetryTypeOK, RoundTripSound, BodiesSettled, WholeBodySent, Return
<1>3. CASE RetryCancel
  BY <1>3 DEF RetryCancel, RetryInv, RetryTypeOK, RoundTripSound, BodiesSettled, WholeBodySent
<1>4. ASSUME NEW o \in {"ok", "retry", "error", "permanent"}, NEW ra, Try(o, ra) PROVE RetryInv'
  <2> DEFINE response == rKind = "http" /\ o \in {"ok", "retry"}
             got == IF response THEN Append(rResponses, "open") ELSE rResponses
  <2>1. rPc = "try" /\ rAttempt' = rAttempt + 1 /\ rLeft' = FALSE /\ WholeBodySent'
    BY <1>4 DEF Try, Rewind, RetryInv, RetryTypeOK, RoundTripSound, WholeBodySent
  <2>2. rAttempt' \in 1..MaxAttempts /\ rAttempt' > 0 /\ rResult \in {"none", "ok", "error", "response"}
    BY <2>1 DEF RetryInv, RetryTypeOK
  <2>3. rResponses \in Seq({"open", "closed"}) /\ \A i \in DOMAIN rResponses : rResponses[i] = "closed"
    BY <2>1 DEF RetryInv, RetryTypeOK
  <2>4. got \in Seq({"open", "closed"}) /\ \A i \in DOMAIN got : got[i] = "open" <=> response /\ i = Len(got)
    <3>1. CASE response
      BY <2>3, <3>1, Appended
    <3>2. CASE ~response
      BY <2>3, <3>2
    <3> QED BY <3>1, <3>2
  <2>5. CASE o = "ok" \/ o = "permanent" \/ rAttempt + 1 >= MaxAttempts
    <3>1. rPc' = "returned" /\ rResponses' = got
      BY <1>4, <2>5 DEF Try, Return
    <3>2. (rResult' = "response" <=> response) /\ rResult' \in {"ok", "error", "response"}
      BY <1>4, <2>5 DEF Try, Return
    <3> HIDE DEF got, response
    <3>3. RetryTypeOK' /\ BodiesSettled'
      BY <2>2, <2>4, <3>1, <3>2 DEF RetryTypeOK, BodiesSettled
    <3>4. rPc' = "returned" /\ rLeft' \in BOOLEAN
      BY <2>1, <3>1
    <3> QED BY <2>1, <2>2, <3>3, <3>4, Zenon DEF RetryInv, RoundTripSound
  <2>6. CASE o \in {"retry", "error"} /\ ~(rAttempt + 1 >= MaxAttempts)
    <3>1. rPc' = "wait" /\ rResult' = rResult /\ rResponses' = CloseResponses(got)
      BY <1>4, <2>6 DEF Try
    <3> HIDE DEF got
    <3>2. rResponses' \in Seq({"open", "closed"}) /\ \A i \in DOMAIN rResponses' : rResponses'[i] = "closed"
      BY <2>4, <3>1, ClosedResponses
    <3>3. RetryTypeOK' /\ BodiesSettled' /\ rAttempt' < MaxAttempts
      BY <2>1, <2>2, <2>6, <3>1, <3>2 DEF RetryTypeOK, BodiesSettled
    <3>4. rLeft' \in BOOLEAN
      BY <2>1
    <3> QED BY <2>1, <2>2, <3>2, <3>3, <3>4, Zenon DEF RetryInv, RoundTripSound
  <2> QED BY <2>5, <2>6
<1>5. CASE UNCHANGED retryVars
  BY <1>5 DEF retryVars, RetryInv, RetryTypeOK, RoundTripSound, BodiesSettled, WholeBodySent
<1> QED BY <1>1, <1>2, <1>3, <1>4, <1>5 DEF RetryNext

(* RoundTrip leaves no response open but the one it returns, and sends the whole
   body in every attempt, for any number of attempts and any sequence of
   answers, connection errors and cancellations. *)
THEOREM RoundTripSafe == RetrySpec => []RoundTripSound
<1>1. RetryInit => RetryInv
  <2> SUFFICES ASSUME RetryInit PROVE RetryInv OBVIOUS
  <2>1. rResponses \in Seq({"open", "closed"}) /\ DOMAIN rResponses = {}
    BY DEF RetryInit
  <2> QED BY <2>1, RetryAssumption
          DEF RetryInit, RetryInv, RetryTypeOK, RoundTripSound, BodiesSettled, WholeBodySent
<1>2. RetryInv => RoundTripSound
  BY DEF RetryInv
<1> QED BY <1>1, <1>2, RetryStep, PTL DEF RetrySpec

-----------------------------------------------------------------------------
HookPcs == {"none", "sem", "attempt", "inflight", "backoff", "send", "done"}
HookResults == {"none", "ok", "failed", "cancelled"}
Statuses == {0, 200, 400, 401, 500}

HookTypes ==
    /\ call \in {"idle", "running", "returned"}
    /\ task \in [Targets -> [pc : HookPcs, attempt : 0..(MaxRetries + 1)]]
    /\ wire \subseteq Targets \X (1..(MaxRetries + 1))
    /\ answer \in [Targets -> Statuses]
    /\ result \in [Targets -> HookResults]
    /\ runs \in [Targets -> Nat]

(* The goroutine of a target: a further attempt is within the limit, a goroutine
   that is through has a result, none is left over when the call is, and the
   200 that a waiting attempt or the result goes back to was given by a router
   whose handlers ran. *)
TargetInv(t) ==
    /\ task[t].pc \in {"sem", "attempt", "backoff"} => task[t].attempt <= MaxRetries
    /\ task[t].pc \in {"send", "done"} => result[t] # "none"
    /\ call = "idle" => task[t].pc = "none"
    /\ call = "returned" => task[t].pc \in {"none", "done"}
    /\ answer[t] = 200 => runs[t] >= 1
    /\ result[t] = "ok" => runs[t] >= 1

HookInv == HookTypes /\ \A t \in Targets : TargetInv(t)

(* A step of one target's goroutine that leaves the call and the routers alone
   needs looking at for that target only. *)
LEMMA TargetMoves ==
    ASSUME HookInv, NEW t \in Targets, NEW p \in HookPcs, NEW n \in 0..(MaxRetries + 1),
           NEW r \in HookResults, NEW a \in {0, answer[t]},
           task' = [task EXCEPT ![t] = [pc |-> p, attempt |-> n]],
           result' = [result EXCEPT ![t] = r],
           answer' = [answer EXCEPT ![t] = a],
           UNCHANGED <<call, runs>>,
           wire' \subseteq Targets \X (1..(MaxRetries + 1)),
           task[t].pc \notin {"none", "done"}, p # "none",
           p \in {"sem", "attempt", "backoff"} => n <= MaxRetries,
           p \in {"send", "done"} => r # "none",
           r = "ok" => runs[t] >= 1
    PROVE  HookInv'
<1> USE HookAssumption DEF HookInv
<1>1. HookTypes'
  BY DEF HookTypes, Statuses
<1>2. ASSUME NEW u \in Targets PROVE TargetInv(u)'
  <2>1. CASE u = t
    BY <2>1 DEF TargetInv, HookTypes, Statuses
  <2>2. CASE u # t
    BY <2>2 DEF TargetInv, HookTypes
  <2> QED BY <2>1, <2>2
<1> QED BY <1>1, <1>2

(* Writing one field of a goroutine's record. *)
LEMMA PcExcept ==
    ASSUME HookInv, NEW t \in Targets, NEW p
    PROVE  /\ [task EXCEPT ![t].pc = p] = [task EXCEPT ![t] = [pc |-> p, attempt |-> task[t].attempt]]
           /\ task[t].attempt \in 0..(MaxRetries + 1)
           /\ result = [result EXCEPT ![t] = result[t]] /\ result[t] \in HookResults
           /\ answer = [answer EXCEPT ![t] = answer[t]]
<1> USE DEF HookInv, HookTypes
<1>1. task[t] \in [pc : HookPcs, attempt : 0..(MaxRetries + 1)]
  OBVIOUS
<1>2. [task[t] EXCEPT !.pc = p] = [pc |-> p, attempt |-> task[t].attempt]
  BY <1>1
<1>3. [task EXCEPT ![t].pc = p] = [task EXCEPT ![t] = [task[t] EXCEPT !.pc = p]]
  OBVIOUS
<1>4. result = [result EXCEPT ![t] = result[t]] /\ answer = [answer EXCEPT ![t] = answer[t]]
  OBVIOUS
<1> QED BY <1>1, <1>2, <1>3, <1>4

LEMMA Finishes ==
    ASSUME HookInv, NEW t \in Targets, NEW r \in HookResults \ {"none"}, NEW a \in {0, answer[t]},
           task[t].pc \notin {"none", "done"}, Finish(t, r),
           answer' = [answer EXCEPT ![t] = a],
           UNCHANGED <<call, runs>>,
           wire' \subseteq Targets \X (1..(MaxRetries + 1)),
           r = "ok" => runs[t] >= 1
    PROVE  HookInv'
<1> DEFINE p == IF fanout = "async" THEN "send" ELSE "done"
<1>1. /\ task' = [task EXCEPT ![t] = [pc |-> p, attempt |-> task[t].attempt]]
      /\ result' = [result EXCEPT ![t] = r] /\ task[t].attempt \in 0..(MaxRetries + 1)
  BY PcExcept DEF Finish
<1>2. p \in {"send", "done"} /\ p \in HookPcs
  BY DEF HookPcs
<1> HIDE DEF p
<1> QED BY <1>1, <1>2, TargetMoves

(* Going on with the loop: to "attempt" or to "backoff". *)
LEMMA GoesOn ==
    ASSUME HookInv, NEW t \in Targets, NEW p \in {"attempt", "backoff"}, NEW a \in {0, answer[t]},
           task[t].pc \notin {"none", "done"}, task[t].attempt <= MaxRetries,
           task' = [task EXCEPT ![t].pc = p], UNCHANGED <<result, call, runs>>,
           answer' = [answer EXCEPT ![t] = a],
           wire' \subseteq Targets \X (1..(MaxRetries + 1))
    PROVE  HookInv'
<1>1. /\ task' = [task EXCEPT ![t] = [pc |-> p, attempt |-> task[t].attempt]]
      /\ result' = [result EXCEPT ![t] = result[t]]
      /\ task[t].attempt \in 0..(MaxRetries + 1) /\ result[t] \in HookResults
  BY PcExcept
<1>2. result[t] = "ok" => runs[t] >= 1
  BY DEF HookInv, TargetInv
<1>3. p \in HookPcs /\ p \notin {"none", "send", "done"}
  BY DEF HookPcs
<1>4. UNCHANGED <<call, runs>>
  OBVIOUS
<1> DEFINE n == task[t].attempt  r == result[t]
<1>5. /\ task' = [task EXCEPT ![t] = [pc |-> p, attempt |-> n]] /\ result' = [result EXCEPT ![t] = r]
      /\ n \in 0..(MaxRetries + 1) /\ r \in HookResults /\ n <= MaxRetries /\ (r = "ok" => runs[t] >= 1)
  BY <1>1, <1>2
<1>6. /\ HookInv /\ t \in Targets /\ a \in {0, answer[t]} /\ answer' = [answer EXCEPT ![t] = a]
      /\ wire' \subseteq Targets \X (1..(MaxRetries + 1)) /\ task[t].pc \notin {"none", "done"}
  OBVIOUS
<1> HIDE DEF n, r
<1> QED BY ONLY <1>3, <1>4, <1>5, <1>6, TargetMoves

(* What becomes of an attempt that ended with status s, 0 for none. *)
LEMMA Evaluates ==
    ASSUME HookInv, NEW t \in Targets, NEW s \in Statuses, Evaluate(t, s),
           task[t].pc = "inflight",
           s = 200 => runs[t] >= 1,
           answer' = [answer EXCEPT ![t] = 0],
           wire' \subseteq wire, UNCHANGED <<call, runs>>
    PROVE  HookInv'
<1>1. wire' \subseteq Targets \X (1..(MaxRetries + 1))
  BY DEF HookInv, HookTypes
<1>2. isSuccessStatus(s) => s = 200
  BY DEF Statuses, isSuccessStatus
<1>3. task[t].attempt \in 0..(MaxRetries + 1) /\ MaxRetries \in Nat
  BY PcExcept, HookAssumption
<1>4. CASE isSuccessStatus(s)
  <2>1. Finish(t, "ok")
    BY <1>4 DEF Evaluate
  <2>2. /\ HookInv /\ t \in Targets /\ "ok" \in HookResults \ {"none"} /\ 0 \in {0, answer[t]}
        /\ task[t].pc \notin {"none", "done"} /\ answer' = [answer EXCEPT ![t] = 0]
        /\ UNCHANGED <<call, runs>>
    BY DEF HookResults
  <2>3. runs[t] >= 1
    BY <1>2, <1>4
  <2> QED BY ONLY <1>1, <2>1, <2>2, <2>3, Finishes
<1>5. CASE ~isSuccessStatus(s) /\ (task[t].attempt > MaxRetries \/ ~isRetryable(s))
  <2>1. Finish(t, "failed")
    BY <1>5 DEF Evaluate
  <2>2. /\ HookInv /\ t \in Targets /\ "failed" \in HookResults \ {"none"} /\ 0 \in {0, answer[t]}
        /\ task[t].pc \notin {"none", "done"} /\ answer' = [answer EXCEPT ![t] = 0]
        /\ UNCHANGED <<call, runs>> /\ "failed" # "ok"
    BY DEF HookResults
  <2> QED BY ONLY <1>1, <2>1, <2>2, Finishes
<1>6. CASE ~isSuccessStatus(s) /\ ~(task[t].attempt > MaxRetries \/ ~isRetryable(s))
  <2>1. task[t].attempt <= MaxRetries
    BY <1>3, <1>6
  <2>2. task' = [task EXCEPT ![t].pc = "backoff"] /\ UNCHANGED result
    BY <1>6, <2>1 DEF Evaluate
  <2> QED BY <1>1, <2>1, <2>2, GoesOn
<1> QED BY <1>4, <1>5, <1>6

LEMMA HookStep == HookInv /\ [HookNext]_hookVars => HookInv'
<1> SUFFICES ASSUME HookInv, [HookNext]_hookVars PROVE HookInv' OBVIOUS
<1> USE HookAssumption
<1>0. ASSUME NEW t \in Targets PROVE /\ TargetInv(t) /\ wire \subseteq Targets \X (1..(MaxRetries + 1))
                                     /\ answer = [answer EXCEPT ![t] = answer[t]]
  BY PcExcept DEF HookInv, HookTypes
<1>1. ASSUME NEW t \in Targets, Acquire(t) PROVE HookInv'
  <2>1. CASE task' = [task EXCEPT ![t].pc = "attempt"] /\ UNCHANGED result
    BY <1>0, <1>1, <2>1, GoesOn DEF Acquire, TargetInv
  <2>2. CASE Finish(t, "cancelled")
    BY <1>0, <1>1, <2>2, Finishes DEF Acquire, HookResults
  <2> QED BY <1>1, <2>1, <2>2 DEF Acquire
<1>2. ASSUME NEW t \in Targets, Attempt(t) PROVE HookInv'
  <2>1. CASE ctxDone
    BY <1>0, <1>2, <2>1, Finishes DEF Attempt, HookResults
  <2>2. CASE ~ctxDone
    <3> DEFINE n == task[t].attempt + 1
    <3>a. task[t].attempt \in 0..(MaxRetries + 1) /\ result[t] \in HookResults
      BY PcExcept
    <3>b. task[t].attempt <= MaxRetries
      BY <1>0, <1>2 DEF Attempt, TargetInv
    <3>1. n \in 1..(MaxRetries + 1) /\ result[t] \in HookResults
      BY <3>a, <3>b
    <3>2. /\ task' = [task EXCEPT ![t] = [pc |-> "inflight", attempt |-> n]]
          /\ result' = [result EXCEPT ![t] = result[t]]
          /\ answer' = [answer EXCEPT ![t] = 0]
          /\ wire' = wire \cup {<<t, n>>}
      BY <1>2, <2>2, PcExcept DEF Attempt
    <3>3. wire' \subseteq Targets \X (1..(MaxRetries + 1))
      BY <1>0, <3>1, <3>2
    <3>4. task[t].pc = "attempt" /\ UNCHANGED <<call, runs>> /\ (result[t] = "ok" => runs[t] >= 1)
      BY <1>0, <1>2 DEF Attempt, TargetInv
    <3> HIDE DEF n
    <3>5. n \in 0..(MaxRetries + 1) /\ "inflight" \in HookPcs
      BY <3>1 DEF HookPcs
    <3> QED BY <3>1, <3>2, <3>3, <3>4, <3>5, TargetMoves
  <2> QED BY <2>1, <2>2
<1>3. ASSUME NEW t \in Targets, Answered(t) PROVE HookInv'
  <2>1. answer[t] \in Statuses /\ (answer[t] = 200 => runs[t] >= 1)
    BY <1>0 DEF HookInv, HookTypes, TargetInv
  <2> QED BY <1>3, <2>1, Evaluates DEF Answered
<1>4. ASSUME NEW t \in Targets, NEW l \in BOOLEAN, NetworkError(t, l) PROVE HookInv'
  <2>1. wire' \subseteq wire
    BY <1>4 DEF NetworkError
  <2>2. 0 \in Statuses /\ 0 # 200
    BY DEF Statuses
  <2>3. /\ Evaluate(t, 0) /\ task[t].pc = "inflight" /\ answer' = [answer EXCEPT ![t] = 0]
        /\ UNCHANGED <<call, runs>>
    BY <1>4 DEF NetworkError
  <2> QED BY <2>1, <2>2, <2>3, Evaluates
<1>5. ASSUME NEW t \in Targets, Backoff(t) PROVE HookInv'
  <2>1. CASE task' = [task EXCEPT ![t].pc = "attempt"] /\ UNCHANGED result
    BY <1>0, <1>5, <2>1, GoesOn DEF Backoff, TargetInv
  <2>2. CASE Finish(t, "cancelled")
    BY <1>0, <1>5, <2>2, Finishes DEF Backoff, HookResults
  <2> QED BY <1>5, <2>1, <2>2 DEF Backoff
<1>6. ASSUME NEW t \in Targets, SendResult(t) PROVE HookInv'
  <2>1. /\ task' = [task EXCEPT ![t] = [pc |-> "done", attempt |-> task[t].attempt]]
        /\ result' = [result EXCEPT ![t] = result[t]] /\ answer' = [answer EXCEPT ![t] = answer[t]]
        /\ task[t].attempt \in 0..(MaxRetries + 1) /\ result[t] \in HookResults
    BY <1>6, PcExcept DEF SendResult
  <2>2. /\ task[t].pc = "send" /\ UNCHANGED <<call, runs, wire>>
        /\ result[t] # "none" /\ (result[t] = "ok" => runs[t] >= 1)
    BY <1>0, <1>6 DEF SendResult, TargetInv
  <2>3. "done" \in HookPcs
    BY DEF HookPcs
  <2> QED BY <1>0, <2>1, <2>2, <2>3, TargetMoves
<1>7. ASSUME NEW t \in Targets, NEW s, Subscribe(t, s) PROVE HookInv'
  BY <1>7 DEF Subscribe, HookInv, HookTypes, TargetInv
<1>8. ASSUME NEW m \in wire, NEW o \in Outcomes, Receive(m, o) PROVE HookInv'
  <2>1. m \in Targets \X (1..(MaxRetries + 1)) /\ m[1] \in Targets
    BY DEF HookInv, HookTypes
  <2>2. ServeStatus(o) \in Statuses
    BY DEF ServeStatus, Statuses
  <2>3. /\ runs' = IF ServeStatus(o) = 200 THEN [runs EXCEPT ![m[1]] = @ + 1] ELSE runs
        /\ \/ answer' = answer
           \/ answer' = [answer EXCEPT ![m[1]] = ServeStatus(o)]
        /\ wire' \subseteq wire /\ UNCHANGED <<call, task, result>>
    BY <1>8 DEF Receive
  <2>4. runs' \in [Targets -> Nat] /\ \A t \in Targets : runs'[t] >= runs[t]
    BY <2>1, <2>3 DEF HookInv, HookTypes
  <2>5. ServeStatus(o) = 200 => runs'[m[1]] >= 1
    BY <2>1, <2>3 DEF HookInv, HookTypes
  <2>6. HookTypes'
    BY <2>1, <2>2, <2>3, <2>4 DEF HookInv, HookTypes
  <2>7. ASSUME NEW t \in Targets PROVE TargetInv(t)'
    <3>1. answer'[t] = 200 => runs'[t] >= 1
      <4>1. CASE answer'[t] = answer[t]
        <5>1. answer[t] = 200 => runs[t] >= 1
          BY DEF HookInv, TargetInv
        <5>2. runs[t] \in Nat /\ runs'[t] \in Nat /\ runs'[t] >= runs[t]
          BY <2>4 DEF HookInv, HookTypes
        <5> QED BY <4>1, <5>1, <5>2
      <4>2. CASE answer'[t] # answer[t]
        <5>1. t = m[1] /\ answer'[t] = ServeStatus(o)
          BY <2>1, <2>3, <4>2 DEF HookInv, HookTypes
        <5> QED BY <2>5, <5>1
      <4> QED BY <4>1, <4>2
    <3>2. result[t] = "ok" => runs'[t] >= 1
      BY <2>4 DEF HookInv, HookTypes, TargetInv
    <3> QED BY <2>3, <3>1, <3>2 DEF HookInv, TargetInv
  <2> QED BY <2>6, <2>7 DEF HookInv
<1>9. CASE Dispatch
  <2>1. ASSUME NEW t \in Targets
        PROVE  /\ task'[t] \in [pc : HookPcs, attempt : 0..(MaxRetries + 1)]
               /\ task'[t] = task[t] \/ (task'[t].pc \in {"sem", "attempt"} /\ task'[t].attempt = 0)
               /\ task[t].pc = "none"
               /\ call' = "returned" => task'[t] = task[t]
    BY <1>0, <1>9 DEF Dispatch, HookInv, HookTypes, TargetInv, HookPcs
  <2>2. HookTypes'
    BY <1>9, <2>1 DEF Dispatch, HookInv, HookTypes
  <2>3. ASSUME NEW t \in Targets PROVE TargetInv(t)'
    BY <1>0, <1>9, <2>1 DEF Dispatch, TargetInv
  <2> QED BY <2>2, <2>3 DEF HookInv
<1>10. CASE DispatchEnds
  BY <1>10 DEF DispatchEnds, HookInv, HookTypes, TargetInv
<1>11. CASE CancelContext \/ UNCHANGED hookVars
  BY <1>11 DEF CancelContext, hookVars, HookInv, HookTypes, TargetInv
<1> QED BY <1>1, <1>2, <1>3, <1>4, <1>5, <1>6, <1>7, <1>8, <1>9, <1>10, <1>11 DEF HookNext, TaskStep

(* A fan-out reports a success only for a target whose handlers ran without an
   error, and when it has returned none of its goroutines is left and every
   target it went to has a result: for any number of targets, retries and
   workers, and whichever requests are lost, late or refused. *)
THEOREM FanOutSound == HookSpec => []DeliveriesSound
<1>1. HookInit => HookInv
  BY HookAssumption DEF HookInit, HookInv, HookTypes, TargetInv, HookPcs, HookResults, Statuses
<1>2. HookInv => DeliveriesSound
  BY DEF HookInv, HookTypes, TargetInv, DeliveriesSound, SuccessMeansHandled, ReturnedIsQuiet
<1> QED BY <1>1, <1>2, HookStep, PTL DEF HookSpec

-----------------------------------------------------------------------------
(* The circuit breaker.  TypeOK bounds failures by the threshold, which is
   inductive only together with ThresholdsRespected; SlotsHaveOwners is what
   makes NeverWedged inductive. *)
USE DEF States

CircuitInv == TypeOK /\ ThresholdsRespected /\ FullCoolDown

(* A step of any action, a panicking function included, keeps the counters
   within their thresholds and the cool-down complete. *)
LEMMA CounterStep == CircuitInv /\ [Next]_vars => CircuitInv'
<1> USE CircuitAssumption DEF TypeOK, ThresholdsRespected, FullCoolDown, CircuitInv
<1> SUFFICES ASSUME CircuitInv, [Next]_vars PROVE CircuitInv' OBVIOUS
<1>1. ASSUME NEW c \in Callers, allowRequest(c) PROVE CircuitInv'
  BY <1>1 DEF allowRequest, transitionTo, Stay
<1>2. ASSUME NEW c \in Callers, Track(c) PROVE CircuitInv'
  BY <1>2 DEF Track
<1>3. ASSUME NEW c \in Callers, NEW f \in BOOLEAN, recordResult(c, f) PROVE CircuitInv'
  <2>1. Released(c) \in Int
    BY DEF Released
  <2>2. pc' \in [Callers -> {"idle", "admitted", "executing"}] /\ probe' \in [Callers -> BOOLEAN]
    BY <1>3 DEF recordResult, Record
  <2>3. age' \in 0..Timeout /\ openFor' \in 0..Timeout /\ state' \in States /\ FullCoolDown'
    BY <1>3 DEF recordResult, Record, transitionTo, Stay
  <2>4. /\ failures' \in 0..FailureThreshold
        /\ successes' \in 0..SuccessThreshold
        /\ ThresholdsRespected'
    BY <1>3 DEF recordResult, Record, transitionTo, Stay
  <2>5. halfOpenRequests' \in Int /\ leaked' \in Nat
    BY <1>3, <2>1 DEF recordResult, Record, transitionTo, Stay
  <2> QED BY <2>2, <2>3, <2>4, <2>5
<1>4. ASSUME NEW c \in Callers, Panic(c) PROVE CircuitInv'
  BY <1>4 DEF Panic, counters
<1>5. CASE State BY <1>5 DEF State, transitionTo
<1>6. CASE Reset BY <1>6 DEF Reset, transitionTo
<1>7. CASE Trip BY <1>7 DEF Trip, transitionTo
<1>8. CASE Tick BY <1>8 DEF Tick, counters
<1>9. CASE UNCHANGED vars BY <1>9 DEF vars
<1> QED BY <1>1, <1>2, <1>3, <1>4, <1>5, <1>6, <1>7, <1>8, <1>9 DEF Next

LEMMA CounterAlways == Spec => []CircuitInv
<1>1. Init => CircuitInv
  BY CircuitAssumption DEF Init, CircuitInv, TypeOK, ThresholdsRespected, FullCoolDown
<1> QED BY <1>1, CounterStep, PTL DEF Spec

(* The circuit keeps its types and opens and closes exactly at its thresholds. *)
THEOREM CounterSafety == Spec => [](TypeOK /\ ThresholdsRespected)
BY CounterAlways, PTL DEF CircuitInv

(* The circuit never leaves the open state before a full Timeout, whoever asks
   for its state, trips or resets it meanwhile. *)
THEOREM CoolDownComplete == Spec => []FullCoolDown
BY CounterAlways, PTL DEF CircuitInv

(* Probes is a finite set, so that counting it makes sense. *)
LEMMA ProbesFinite == IsFiniteSet(Probes) /\ Cardinality(Probes) \in Nat
BY CircuitAssumption, FS_Subset, FS_CardinalityType DEF Probes

LEMMA SlotInit == Init => SlotsHaveOwners
BY FS_EmptySet DEF Init, SlotsHaveOwners, Probes

(* Every decrement or reset of halfOpenRequests keeps it at most the number of
   callers that still hold a slot or lost theirs to a panic. *)
LEMMA SlotStep == CircuitInv /\ SlotsHaveOwners /\ [Next]_vars => SlotsHaveOwners'
<1> SUFFICES ASSUME CircuitInv, SlotsHaveOwners, [Next]_vars PROVE SlotsHaveOwners' OBVIOUS
<1> USE CircuitAssumption DEF CircuitInv, TypeOK, SlotsHaveOwners
<1>0. IsFiniteSet(Probes) /\ Cardinality(Probes) \in Nat
  BY ProbesFinite
<1>1. ASSUME NEW c \in Callers, allowRequest(c) PROVE SlotsHaveOwners'
  <2>1. Probes' = Probes
    BY <1>1 DEF allowRequest, Probes
  <2> QED BY <1>0, <1>1, <2>1 DEF allowRequest, transitionTo, Stay
<1>2. ASSUME NEW c \in Callers, Track(c) PROVE SlotsHaveOwners'
  <2>1. CASE state = "halfopen"
    <3>1. Probes' = Probes \cup {c} /\ c \notin Probes
      BY <1>2, <2>1 DEF Track, Probes
    <3>2. Cardinality(Probes') = Cardinality(Probes) + 1
      BY <1>0, <3>1, FS_AddElement
    <3> QED BY <1>0, <1>2, <2>1, <3>2 DEF Track
  <2>2. CASE state # "halfopen"
    <3>1. Probes' = Probes
      BY <1>2, <2>2 DEF Track, Probes
    <3> QED BY <1>0, <1>2, <2>2, <3>1 DEF Track
  <2> QED BY <2>1, <2>2
<1>3. ASSUME NEW c \in Callers, NEW f \in BOOLEAN, recordResult(c, f)
      PROVE  SlotsHaveOwners'
  <2>1. Probes' = Probes \ {c} /\ (c \in Probes <=> probe[c])
    BY <1>3 DEF recordResult, Record, Probes
  <2>2. /\ Released(c) \in Int /\ Cardinality(Probes') \in Nat
        /\ Released(c) <= Cardinality(Probes') + leaked
    <3>1. CASE probe[c]
      <4>1. Cardinality(Probes') = Cardinality(Probes) - 1
        BY <1>0, <2>1, <3>1, FS_RemoveElement
      <4>2. Cardinality(Probes') \in Nat
        BY <1>0, <2>1, FS_RemoveElement, FS_CardinalityType
      <4> QED BY <1>0, <3>1, <4>1, <4>2 DEF Released
    <3>2. CASE ~probe[c]
      <4>1. Probes' = Probes
        BY <2>1, <3>2
      <4> QED BY <1>0, <3>2, <4>1 DEF Released
    <3> QED BY <3>1, <3>2
  <2>3. \/ halfOpenRequests' = Released(c) /\ leaked' = leaked
        \/ halfOpenRequests' = 0 /\ leaked' = 0
    BY <1>3 DEF recordResult, Record, transitionTo, Stay
  <2> QED BY <2>2, <2>3
<1>4. ASSUME NEW c \in Callers, Panic(c) PROVE SlotsHaveOwners'
  <2>1. Probes' = Probes \ {c} /\ (c \in Probes <=> probe[c])
    BY <1>4 DEF Panic, Probes
  <2>2. CASE probe[c]
    <3>1. Cardinality(Probes') = Cardinality(Probes) - 1
      BY <1>0, <2>1, <2>2, FS_RemoveElement
    <3> QED BY <1>0, <1>4, <2>2, <3>1 DEF Panic, counters
  <2>3. CASE ~probe[c]
    <3>1. Probes' = Probes
      BY <2>1, <2>3
    <3> QED BY <1>0, <1>4, <2>3, <3>1 DEF Panic, counters
  <2> QED BY <2>2, <2>3
<1>5. CASE State \/ Reset \/ Trip
  <2>1. /\ Probes' = Probes
        /\ \/ halfOpenRequests' = halfOpenRequests /\ leaked' = leaked
           \/ halfOpenRequests' = 0 /\ leaked' = 0
    BY <1>5 DEF State, Reset, Trip, transitionTo, Probes
  <2> QED BY <1>0, <2>1
<1>6. CASE Tick \/ UNCHANGED vars
  <2>1. Probes' = Probes /\ halfOpenRequests' = halfOpenRequests /\ leaked' = leaked
    BY <1>6 DEF Tick, vars, counters, Probes
  <2> QED BY <2>1
<1> QED BY <1>1, <1>2, <1>3, <1>4, <1>5, <1>6 DEF Next

(* A half-open circuit that turns requests away has a probe in flight whose
   result will move it on, unless a protected function panicked in half-open. *)
THEOREM Unwedged == Spec => []NeverWedged
<1>1. CircuitInv /\ SlotsHaveOwners => NeverWedged
  <2> SUFFICES ASSUME CircuitInv, SlotsHaveOwners, Probes = {}, leaked = 0
           PROVE  halfOpenRequests < MaxHalfOpenRequests
    BY CircuitAssumption DEF NeverWedged, CircuitInv, TypeOK
  <2> QED BY CircuitAssumption, FS_EmptySet DEF CircuitInv, TypeOK, SlotsHaveOwners
<1> QED BY <1>1, CounterAlways, SlotInit, SlotStep, PTL DEF Spec
=============================================================================
