---------------------------- MODULE MCBackground ----------------------------
(* Work that goes on behind a caller's back and the guards around it: pooled
   tasks, webhook fan-outs, requests and calls under a timeout, retries, and the
   circuit breaker.  "part" says which one runs; the others stand still in one
   of their initial states. *)
EXTENDS Webhook, Timeout, Retry, Pool, Circuit

CONSTANTS Parts, t1, t2, t3, t4

VARIABLE part

workVars == <<hookVars, timeoutVars, retryVars>>
backgroundVars == <<part, workVars, poolVars, vars>>

BackgroundInit ==
    /\ part \in Parts
    /\ HookInit    /\ (part # "webhook" => fanout = "batch" /\ verifier = "none")
    /\ TimeoutInit /\ (part # "timeout" => tMode = "run")
    /\ RetryInit   /\ (part # "retry" => rKind = "do")
    /\ PoolInit /\ Init

InHook(A) == part = "webhook" /\ A /\ UNCHANGED <<part, timeoutVars, retryVars, poolVars, vars>>
InTimeout(A) == part = "timeout" /\ A /\ UNCHANGED <<part, hookVars, retryVars, poolVars, vars>>
InRetry(A) == part = "retry" /\ A /\ UNCHANGED <<part, hookVars, timeoutVars, poolVars, vars>>
InPool(A) == part = "pool" /\ A /\ UNCHANGED <<part, workVars, vars>>
InCircuit(A) == part = "circuit" /\ A /\ UNCHANGED <<part, workVars, poolVars>>

BackgroundNext == \/ InHook(HookNext) \/ InTimeout(TimeoutNext) \/ InRetry(RetryNext)
                  \/ InPool(PoolNext) \/ InCircuit(Next)

(* A goroutine that can go on does: an attempt is answered or its client times
   out, a backoff ends, a deferred function runs, a task ends; the semaphore's
   channel serves blocked senders in turn (SF). *)
BackgroundSpec ==
    /\ BackgroundInit /\ [][BackgroundNext]_backgroundVars
    /\ \A t \in Tasks : /\ SF_backgroundVars(InPool(GoAcquires(t)))
                        /\ WF_backgroundVars(\/ t \in Targets /\ InHook(TaskStep(t))
                                             \/ InPool(Step(t)))
    /\ WF_backgroundVars(InHook(DispatchEnds) \/ InTimeout(HandlerExits))

(* Fan-outs come back whatever the receivers do, and a handler's goroutine ends
   although its caller has given it up. *)
BackgroundEnds == DispatchReturns /\ AbandonedEnds
=============================================================================
