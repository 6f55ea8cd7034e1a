------------------------------ MODULE Webhook ------------------------------
(* pantry/webhook: a sender that fans an event out to its targets with retries,
   the network between, and the router at the other end of each.  A request
   that the sender has given up on may still arrive. *)
EXTENDS Integers, FiniteSets

CONSTANTS Targets, MaxRetries, Concurrency

ASSUME HookAssumption == IsFiniteSet(Targets) /\ MaxRetries \in Nat /\ Concurrency \in Nat \ {0}

VARIABLES subs,         \* target -> "none", "active" or "inactive": d.subscriptions
          fanout,       \* "dispatch", "async" or "batch" (BatchSender.SendToAll)
          verifier,     \* of the receivers' routers, see Verified
          call,         \* "idle", "running" or "returned"; for "async" the channel's close
          ctxDone,
          task,         \* target -> the goroutine that delivers to it: [pc, attempt]
          wire,         \* requests under way: <<target, attempt>>
          answer,       \* target -> status of the answer to the current attempt, 0 for none
          result,       \* target -> "none", "ok", "failed" or "cancelled"
          runs          \* target -> times its router ran the handlers and answered with a success

hookVars == <<subs, fanout, verifier, call, ctxDone, task, wire, answer, result, runs>>

HookTypeOK ==
    /\ call \in {"idle", "running", "returned"}
    /\ \A t \in Targets :
        /\ task[t].pc \in {"none", "sem", "attempt", "inflight", "backoff", "send", "done"}
        /\ task[t].attempt \in 0..(MaxRetries + 1)
        /\ result[t] \in {"none", "ok", "failed", "cancelled"}
        /\ runs[t] \in 0..(MaxRetries + 1)

HookInit ==
    /\ subs = [t \in Targets |-> "none"]
    /\ fanout \in {"dispatch", "async", "batch"} /\ verifier \in {"none", "hmac", "custom"}
    /\ call = "idle" /\ ctxDone = FALSE
    /\ task = [t \in Targets |-> [pc |-> "none", attempt |-> 0]]
    /\ wire = {} /\ answer = [t \in Targets |-> 0]
    /\ result = [t \in Targets |-> "none"] /\ runs = [t \in Targets |-> 0]

-----------------------------------------------------------------------------
(* The router's verifier.  A signature is what its MAC was computed over;
   attemptDelivery signs timestamp and payload, HMACVerifier computes the MAC of
   the payload alone, so what the package signs it does not itself accept.
   "custom" is an application's verifier that knows the sender's format. *)
Signed == "timestamp and payload"
HMACVerify(signature) == IF signature = "payload" THEN "valid" ELSE "invalid signature"
Verified == IF verifier = "hmac" THEN HMACVerify(Signed) ELSE "valid"

(* ServeHTTP: verify, read, parse, ask beforeHandler, and run every handler.  HTTP
   handlers, if there are any, write the answer themselves; of the others the last
   error decides.  defaultErrorHandler turns errors into statuses.  A request is
   "rejected" when its body is too large (413) or not an event (400), when it has no
   handler (404), or by an HTTP handler's own 4xx: 400 stands for all of them, none
   of which is sent again.  It has "failed" (500) by an error of beforeHandler or of a
   handler. *)
Outcomes == {"rejected", "failed", "ok"}
ServeStatus(outcome) ==
    IF Verified # "valid" THEN 401
    ELSE IF outcome = "rejected" THEN 400
    ELSE IF outcome = "failed" THEN 500 ELSE 200

(* Mutant: a client error counts as delivered. *)
isSuccessStatusWide(s) == s \in 200..499
isSuccessStatus(s) == s \in 200..299
isRetryable(s) == s \in {0, 429, 500, 502, 503, 504}

-----------------------------------------------------------------------------
(* Subscribe and Unsubscribe; a running fan-out has its own list. *)
Subscribe(t, s) ==
    /\ call = "idle" \/ s = "none"      \* bound: subscriptions grow only before the fan-out
    /\ subs[t] # s /\ subs' = [subs EXCEPT ![t] = s]
    /\ UNCHANGED <<fanout, verifier, call, ctxDone, task, wire, answer, result, runs>>

(* Dispatch and DispatchAsync go to the subscriptions that match; SendToAll to
   all URLs, Concurrency at a time. *)
Dispatch ==
    /\ call = "idle"
    /\ LET to == IF fanout = "batch" THEN Targets ELSE {t \in Targets : subs[t] = "active"}
       IN /\ task' = [t \in Targets |->
                        IF t \in to THEN [pc |-> IF fanout = "batch" THEN "sem" ELSE "attempt", attempt |-> 0]
                                    ELSE task[t]]
          /\ call' = IF to = {} THEN "returned" ELSE "running"
    /\ UNCHANGED <<subs, fanout, verifier, ctxDone, wire, answer, result, runs>>

(* Mutant: the semaphore is never given back. *)
HoldsSemForever(t) == task[t].pc \in {"attempt", "inflight", "backoff", "done"}
HoldsSem(t) == task[t].pc \in {"attempt", "inflight", "backoff"}

(* What a task does with its result: DispatchAsync still has to send it. *)
Finish(t, r) == /\ result' = [result EXCEPT ![t] = r]
                /\ task' = [task EXCEPT ![t].pc = IF fanout = "async" THEN "send" ELSE "done"]
Acquire(t) ==
    /\ task[t].pc = "sem"
    /\ \/ /\ Cardinality({u \in Targets : HoldsSem(u)}) < Concurrency
          /\ task' = [task EXCEPT ![t].pc = "attempt"] /\ UNCHANGED result
       \/ ctxDone /\ Finish(t, "cancelled")
    /\ UNCHANGED <<subs, fanout, verifier, call, ctxDone, wire, answer, runs>>

(* deliverRaw: the context is looked at, then the request is sent. *)
Attempt(t) ==
    /\ task[t].pc = "attempt"
    /\ IF ctxDone
       THEN Finish(t, "cancelled") /\ UNCHANGED <<wire, answer>>
       ELSE LET n == task[t].attempt + 1
            IN /\ task' = [task EXCEPT ![t] = [pc |-> "inflight", attempt |-> n]]
               /\ wire' = wire \cup {<<t, n>>} /\ answer' = [answer EXCEPT ![t] = 0]
               /\ UNCHANGED result
    /\ UNCHANGED <<subs, fanout, verifier, call, ctxDone, runs>>

(* A request arrives, be it late; the answer reaches only the attempt that waits. *)
Receive(m, outcome) ==
    /\ m \in wire /\ wire' = wire \ {m}
    /\ LET t == m[1] s == ServeStatus(outcome)
       IN /\ runs' = IF s = 200 THEN [runs EXCEPT ![t] = @ + 1] ELSE runs
          /\ answer' = IF task[t].pc = "inflight" /\ task[t].attempt = m[2]
                       THEN [answer EXCEPT ![t] = s] ELSE answer
    /\ UNCHANGED <<subs, fanout, verifier, call, ctxDone, task, result>>

(* The rest of the loop, for status s; 0 is a network error or a timeout. *)
Evaluate(t, s) ==
    IF isSuccessStatus(s) THEN Finish(t, "ok")
    ELSE IF task[t].attempt > MaxRetries \/ ~isRetryable(s) THEN Finish(t, "failed")
    ELSE task' = [task EXCEPT ![t].pc = "backoff"] /\ UNCHANGED result
Answered(t) ==
    /\ task[t].pc = "inflight" /\ answer[t] # 0 /\ Evaluate(t, answer[t])
    /\ answer' = [answer EXCEPT ![t] = 0]
    /\ UNCHANGED <<subs, fanout, verifier, call, ctxDone, wire, runs>>
NetworkError(t, lost) ==
    /\ task[t].pc = "inflight" /\ Evaluate(t, 0)
    /\ answer' = [answer EXCEPT ![t] = 0]
    /\ wire' = IF lost THEN wire \ {<<t, task[t].attempt>>} ELSE wire
    /\ UNCHANGED <<subs, fanout, verifier, call, ctxDone, runs>>
Backoff(t) ==
    /\ task[t].pc = "backoff"
    /\ \/ ctxDone /\ Finish(t, "cancelled")
       \/ task' = [task EXCEPT ![t].pc = "attempt"] /\ UNCHANGED result
    /\ UNCHANGED <<subs, fanout, verifier, call, ctxDone, wire, answer, runs>>

(* DispatchAsync: somebody reads the result, or nobody does and the context ends. *)
SendResult(t) ==
    /\ task[t].pc = "send" /\ task' = [task EXCEPT ![t].pc = "done"]
    /\ UNCHANGED <<subs, fanout, verifier, call, ctxDone, wire, answer, result, runs>>

(* wg.Wait is over: return, or close(results). *)
DispatchEnds ==
    /\ call = "running" /\ \A t \in Targets : task[t].pc \in {"none", "done"}
    /\ call' = "returned"
    /\ UNCHANGED <<subs, fanout, verifier, ctxDone, task, wire, answer, result, runs>>

CancelContext == /\ call = "running" /\ ~ctxDone /\ ctxDone' = TRUE
                 /\ UNCHANGED <<subs, fanout, verifier, call, task, wire, answer, result, runs>>

TaskStep(t) == Acquire(t) \/ Attempt(t) \/ Answered(t) \/ (\E l \in BOOLEAN : NetworkError(t, l)) \/ Backoff(t)

HookNext ==
    \/ \E t \in Targets : TaskStep(t) \/ SendResult(t) \/ \E s \in {"none", "active", "inactive"} : Subscribe(t, s)
    \/ \E m \in wire, o \in Outcomes : Receive(m, o)
    \/ Dispatch \/ DispatchEnds \/ CancelContext

HookSpec == HookInit /\ [][HookNext]_hookVars

-----------------------------------------------------------------------------
(* A delivery is reported as a success only if the receiver's handlers ran
   and none reported an error, however many attempts, timeouts and late arrivals it took. *)
SuccessMeansHandled == \A t \in Targets : result[t] = "ok" => runs[t] >= 1

(* When the fan-out has returned (or closed the results channel), nobody works
   for it any more: no attempt is made after it, no result is sent on the
   closed channel, and every target it went to has its result. *)
ReturnedIsQuiet ==
    call = "returned" => \A t \in Targets : /\ task[t].pc \in {"none", "done"}
                                            /\ task[t].pc = "done" => result[t] # "none"

(* Dispatch and SendToAll come back, whatever the receivers do: every attempt
   ends with an answer or a timeout, and there is a last one. *)
DispatchReturns == (call = "running" /\ fanout # "async") ~> call = "returned"

(* What a fan-out reports is what happened at the receivers, and it is over when
   it says so (sender.go, receiver.go). *)
DeliveriesSound == SuccessMeansHandled /\ ReturnedIsQuiet
=============================================================================
