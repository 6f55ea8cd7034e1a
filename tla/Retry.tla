------------------------------- MODULE Retry -------------------------------
(* pantry/retry: Do, DoWithResult and the retrying http.RoundTripper. *)
EXTENDS Integers, Sequences

CONSTANTS MaxAttempts,
          InitialDelay, Multiplier, MaxDelay, MaxRetryAfter     \* in ticks, no jitter

ASSUME RetryAssumption == /\ MaxAttempts \in Nat \ {0}
                          /\ {InitialDelay, Multiplier, MaxDelay, MaxRetryAfter} \subseteq Nat

VARIABLES rKind,        \* "do" or "http"
          rPc,          \* "try", "wait", "returned"
          rAttempt, rDelay, rWaited,
          rBody,        \* request body: "none", "replayable" (GetBody) or "stream"
          rLeft,        \* the body is still unread, so the next attempt sends it whole
          rPartial,     \* some attempt sent a body that had been read before
          rResponses,   \* the responses so far: "open" or "closed"
          rCancelled,   \* the context
          rLastErr,
          rResult       \* "none" so far, "ok", "error", or "response": the last one

retryVars == <<rKind, rPc, rAttempt, rDelay, rWaited, rBody, rLeft, rPartial, rResponses, rCancelled, rLastErr, rResult>>

RetryTypeOK == /\ rPc \in {"try", "wait", "returned"} /\ rAttempt \in 0..MaxAttempts
               /\ rResponses \in Seq({"open", "closed"}) /\ rResult \in {"none", "ok", "error", "response"}

(* RoundTrip reads a body that cannot be read twice and gives it a GetBody. *)
RetryInit ==
    /\ rKind \in {"do", "http"} /\ rPc = "try" /\ rAttempt = 0 /\ rDelay = InitialDelay /\ rWaited = 0
    /\ rBody \in (IF rKind = "http" THEN {"none", "replayable", "stream"} ELSE {"none"})
    /\ rLeft = TRUE /\ rPartial = FALSE /\ rResponses = << >>
    /\ rCancelled = FALSE /\ rLastErr = FALSE /\ rResult = "none"

(* Before the wait the response is drained and closed; the one before it is
   closed when the next one is there. *)
CloseResponses(s) == [i \in DOMAIN s |-> "closed"]
Return(res) == rPc' = "returned" /\ rResult' = res

(* The context is over before an attempt. *)
RetryGivesUp ==
    /\ rPc = "try" /\ rCancelled /\ Return("error")
    /\ UNCHANGED <<rKind, rAttempt, rDelay, rWaited, rBody, rLeft, rPartial, rResponses, rCancelled, rLastErr>>

(* Mutant: the body is not rewound before a further attempt. *)
RewindNever == rLeft
(* GetBody before every attempt but the first. *)
Rewind == rLeft \/ (rBody # "none" /\ rAttempt > 0)

(* The delay: of the answer's Retry-After, capped, or the backoff. *)
Wait(retryAfter) == IF retryAfter = 0 THEN rDelay
                    ELSE IF retryAfter > MaxRetryAfter THEN MaxRetryAfter ELSE retryAfter

(* One attempt.  out: "ok" (for "http" any status that is not retried), "retry"
   (an error; for "http" a status that is), "error" (of the connection) or
   "permanent" (RetryIf refuses; RetryOnConnectionError is off). *)
Try(out, retryAfter) ==
    /\ rPc = "try" /\ ~rCancelled
    /\ rAttempt' = rAttempt + 1 /\ rLeft' = FALSE /\ rPartial' = (rPartial \/ (rBody # "none" /\ ~Rewind))
    /\ LET response == rKind = "http" /\ out \in {"ok", "retry"}
           got == IF response THEN Append(rResponses, "open") ELSE rResponses
           last == rAttempt + 1 >= MaxAttempts
       IN CASE out = "ok" -> /\ Return(IF response THEN "response" ELSE "ok") /\ rResponses' = got
                             /\ rLastErr' = FALSE /\ UNCHANGED rWaited
            [] out = "permanent" -> /\ Return("error") /\ rResponses' = rResponses
                                    /\ rLastErr' = TRUE /\ UNCHANGED rWaited
            [] out \in {"retry", "error"} /\ last ->
                 /\ Return(IF response THEN "response" ELSE "error") /\ rResponses' = got
                 /\ rLastErr' = ~response /\ UNCHANGED rWaited
            [] out \in {"retry", "error"} /\ ~last ->
                 /\ rPc' = "wait" /\ UNCHANGED rResult /\ rResponses' = CloseResponses(got)
                 /\ rLastErr' = ~response /\ rWaited' = Wait(IF response THEN retryAfter ELSE 0)
    /\ UNCHANGED <<rKind, rDelay, rBody, rCancelled>>

(* The wait is over, or the context is; then the backoff grows up to its cap. *)
RetryWait ==
    /\ rPc = "wait"
    /\ \/ /\ rCancelled /\ Return("error") /\ UNCHANGED rDelay
       \/ /\ rPc' = "try" /\ UNCHANGED rResult
          /\ rDelay' = LET d == rDelay * Multiplier IN IF d > MaxDelay THEN MaxDelay ELSE d
    /\ UNCHANGED <<rKind, rAttempt, rWaited, rBody, rLeft, rPartial, rResponses, rCancelled, rLastErr>>

RetryCancel == /\ rPc # "returned" /\ ~rCancelled /\ rCancelled' = TRUE
               /\ UNCHANGED <<rKind, rPc, rAttempt, rDelay, rWaited, rBody, rLeft, rPartial, rResponses, rLastErr, rResult>>

RetryNext == \/ RetryGivesUp \/ RetryWait \/ RetryCancel
             \/ \E o \in {"ok", "retry", "error", "permanent"}, ra \in {0, MaxDelay, 2 * MaxRetryAfter} : Try(o, ra)

RetrySpec == RetryInit /\ [][RetryNext]_retryVars

(* RoundTrip leaves no response behind: when it has returned, the response it
   returns is open and every other one it got is closed, at whichever attempt
   it succeeded, failed for good or was cancelled. *)
BodiesSettled ==
    rPc = "returned" => \A i \in DOMAIN rResponses :
        rResponses[i] = "open" <=> rResult = "response" /\ i = Len(rResponses)

(* Every attempt sends the whole request body. *)
WholeBodySent == ~rPartial

(* RetryTransport sends every attempt whole and leaves no response open. *)
RoundTripSound == BodiesSettled /\ WholeBodySent
=============================================================================
