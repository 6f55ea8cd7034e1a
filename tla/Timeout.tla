------------------------------ MODULE Timeout ------------------------------
(* pantry/timeout: a request behind the timeout middleware, or a function under
   Run or RunWithResult.  The handler is a goroutine of its own that nobody
   stops: on a timeout the caller goes on without it. *)
EXTENDS Integers, Sequences

CONSTANT MaxWrites      \* bound: writes of the handler

ASSUME TimeoutAssumption == MaxWrites \in Nat

VARIABLES tMode,        \* "middleware", "skipped" (Skipper) or "run"
          tHandler,     \* "running", "ending" (deferred function), "exited"
          tWrites,
          tPanicked, tPanicChan,
          tDone,        \* tw.done closed, or Run's result in its channel
          tExpired,     \* the context: the deadline, or the request's own end
          tTimedOut,    \* tw.timedOut
          tCaller,      \* "select", "answer" (503 to be written), "returned"
          tOut,         \* writes that reached the connection: "handler" or "timeout"
          tEnd          \* how the caller ended: "none" (not yet), "done", "panic", "timeout"

timeoutVars == <<tMode, tHandler, tWrites, tPanicked, tPanicChan, tDone, tExpired, tTimedOut, tCaller, tOut, tEnd>>

TimeoutTypeOK == /\ tHandler \in {"running", "ending", "exited"} /\ tWrites \in 0..MaxWrites
                 /\ tCaller \in {"select", "answer", "returned"}
                 /\ tOut \in Seq({"handler", "timeout"}) /\ tEnd \in {"none", "done", "panic", "timeout"}

TimeoutInit ==
    /\ tMode \in {"middleware", "skipped", "run"}
    /\ tHandler = "running" /\ tWrites = 0 /\ tPanicked = FALSE /\ tPanicChan = FALSE
    /\ tDone = FALSE /\ tExpired = FALSE /\ tTimedOut = FALSE
    /\ tCaller = "select" /\ tOut = << >> /\ tEnd = "none"

(* Mutant: timedOut is not looked at. *)
HandlerWritesAnyway ==
    /\ tMode # "run" /\ tHandler = "running" /\ tWrites < MaxWrites /\ tWrites' = tWrites + 1
    /\ tOut' = Append(tOut, "handler")
    /\ UNCHANGED <<tMode, tHandler, tPanicked, tPanicChan, tDone, tExpired, tTimedOut, tCaller, tEnd>>
(* timeoutWriter.Write, WriteHeader and Flush: under tw.mu, nothing once
   timedOut is set.  Without the middleware the writer is the connection's. *)
HandlerWrites ==
    /\ tMode # "run" /\ tHandler = "running" /\ tWrites < MaxWrites /\ tWrites' = tWrites + 1
    /\ tOut' = IF tTimedOut THEN tOut ELSE Append(tOut, "handler")
    /\ UNCHANGED <<tMode, tHandler, tPanicked, tPanicChan, tDone, tExpired, tTimedOut, tCaller, tEnd>>

(* The handler returns or panics; the deferred function puts the panic into
   panicChan and then closes done, in two steps. *)
HandlerEnds(panics) ==
    /\ tHandler = "running" /\ tHandler' = "ending"
    /\ panics => tMode = "middleware"
    /\ tPanicked' = panics /\ tPanicChan' = panics
    /\ UNCHANGED <<tMode, tWrites, tDone, tExpired, tTimedOut, tCaller, tOut, tEnd>>
HandlerExits ==
    /\ tHandler = "ending" /\ tHandler' = "exited" /\ tDone' = TRUE
    /\ UNCHANGED <<tMode, tWrites, tPanicked, tPanicChan, tExpired, tTimedOut, tCaller, tOut, tEnd>>

Expire == /\ tMode # "skipped" /\ ~tExpired /\ tExpired' = TRUE
          /\ UNCHANGED <<tMode, tHandler, tWrites, tPanicked, tPanicChan, tDone, tTimedOut, tCaller, tOut, tEnd>>

(* The caller's select: with several cases ready it takes any of them. *)
CallerDone == /\ tCaller = "select" /\ tDone /\ tCaller' = "returned" /\ tEnd' = "done"
              /\ UNCHANGED <<tMode, tHandler, tWrites, tPanicked, tPanicChan, tDone, tExpired, tTimedOut, tOut>>
CallerPanic == /\ tCaller = "select" /\ tPanicChan /\ tPanicChan' = FALSE
               /\ tTimedOut' = TRUE /\ tCaller' = "returned" /\ tEnd' = "panic"
               /\ UNCHANGED <<tMode, tHandler, tWrites, tPanicked, tDone, tExpired, tOut>>
CallerTimeout == /\ tCaller = "select" /\ tExpired /\ tEnd' = "timeout"
                 /\ tTimedOut' = (tMode = "middleware")
                 /\ tCaller' = IF tMode = "middleware" THEN "answer" ELSE "returned"
                 /\ UNCHANGED <<tMode, tHandler, tWrites, tPanicked, tPanicChan, tDone, tExpired, tOut>>
(* OnTimeout, or 503 and its text. *)
CallerAnswers == /\ tCaller = "answer" /\ tCaller' = "returned" /\ tOut' = Append(tOut, "timeout")
                 /\ UNCHANGED <<tMode, tHandler, tWrites, tPanicked, tPanicChan, tDone, tExpired, tTimedOut, tEnd>>
Caller == CallerDone \/ CallerPanic \/ CallerTimeout \/ CallerAnswers

TimeoutNext == \/ HandlerWrites \/ HandlerExits \/ Expire \/ Caller
               \/ \E p \in BOOLEAN : HandlerEnds(p)

TimeoutSpec == TimeoutInit /\ [][TimeoutNext]_timeoutVars

(* Once the caller has given the handler up, nothing the handler writes reaches
   the connection: the timeout answer is the last thing in the response. *)
TimeoutIsLast ==
    \A i, j \in DOMAIN tOut : i < j => ~(tOut[i] = "timeout" /\ tOut[j] = "handler")

(* The goroutine ends once the handler has returned, even if nobody is waiting
   for it any more. *)
AbandonedEnds == tHandler = "ending" ~> tHandler = "exited"

(* "If nil, panics are re-raised after timeout cleanup": a panic of the handler
   is reported, unless the request had timed out before. *)
PanicIsReported == tPanicked /\ tCaller = "returned" => tEnd # "done"
=============================================================================
