------------------------------ MODULE Circuit ------------------------------
(***************************************************************************)
(* The circuit breaker of pantry/retry/circuit.go, shared by concurrent    *)
(* callers of Circuit.Do.                                                  *)
(*                                                                         *)
(* Do is three critical sections of c.mu with the protected function       *)
(* running unlocked in between: allowRequest (admission), the block that   *)
(* tracks half-open requests, and recordResult.  Each is one action, so    *)
(* every interleaving of callers between them is explored.                 *)
(*                                                                         *)
(* time.Since(lastFailure) is the variable age, which saturates at Timeout *)
(* because the code only compares it with cfg.Timeout.                     *)
(***************************************************************************)
EXTENDS Integers, FiniteSets

CONSTANTS Callers,              \* goroutines that share the breaker
          FailureThreshold,     \* cfg.FailureThreshold
          SuccessThreshold,     \* cfg.SuccessThreshold
          MaxHalfOpenRequests,  \* cfg.MaxHalfOpenRequests
          Timeout               \* cfg.Timeout, in ticks

(* NewCircuit replaces every value <= 0 by a positive default. *)
ASSUME CircuitAssumption ==
    /\ IsFiniteSet(Callers)
    /\ FailureThreshold \in Nat \ {0}
    /\ SuccessThreshold \in Nat \ {0}
    /\ MaxHalfOpenRequests \in Nat \ {0}
    /\ Timeout \in Nat \ {0}

VARIABLES state,             \* c.state
          failures,          \* c.failures
          successes,         \* c.successes
          halfOpenRequests,  \* c.halfOpenRequests
          age,               \* time.Since(c.lastFailure), saturating at Timeout
          pc,                \* where each caller is inside Do
          probe,             \* Do's local isHalfOpen
          openFor,           \* history: time since the circuit last opened
          leaked             \* history: half-open callers whose fn panicked since
                             \* halfOpenRequests was last reset

vars == <<state, failures, successes, halfOpenRequests, age, pc, probe, openFor, leaked>>
counters == <<failures, successes, halfOpenRequests>>

States == {"closed", "open", "halfopen"}

TypeOK ==
    /\ state \in States
    /\ failures \in 0..FailureThreshold
    /\ successes \in 0..SuccessThreshold
    /\ halfOpenRequests \in Int
    /\ age \in 0..Timeout
    /\ pc \in [Callers -> {"idle", "admitted", "executing"}]
    /\ probe \in [Callers -> BOOLEAN]
    /\ openFor \in 0..Timeout
    /\ leaked \in Nat

(* The zero lastFailure of a new circuit lies far in the past. *)
Init ==
    /\ state = "closed"
    /\ failures = 0
    /\ successes = 0
    /\ halfOpenRequests = 0
    /\ age = Timeout
    /\ pc = [c \in Callers |-> "idle"]
    /\ probe = [c \in Callers |-> FALSE]
    /\ openFor = Timeout
    /\ leaked = 0

----------------------------------------------------------------------------
(* transitionTo(to), entered with the counters already at f, s and h. *)
transitionTo(to, f, s, h) ==
    /\ state' = to
    /\ failures' = IF to = "closed" /\ state # to THEN 0 ELSE f
    /\ successes' = IF state # to THEN 0 ELSE s
    /\ halfOpenRequests' = IF to # "halfopen" /\ state # to THEN 0 ELSE h
    /\ openFor' = IF to = "open" /\ state # to THEN 0 ELSE openFor
    /\ leaked' = IF to # "halfopen" /\ state # to THEN 0 ELSE leaked

Stay(f, s, h) ==
    /\ failures' = f
    /\ successes' = s
    /\ halfOpenRequests' = h
    /\ UNCHANGED <<state, openFor, leaked>>

TimeoutElapsed == age >= Timeout

(* allowRequest.  A refused call returns ErrCircuitOpen and changes nothing. *)
allowRequest(c) ==
    /\ pc[c] = "idle"
    /\ \/ /\ state = "closed"
          /\ Stay(failures, successes, halfOpenRequests)
       \/ /\ state = "open"
          /\ TimeoutElapsed
          /\ transitionTo("halfopen", failures, successes, halfOpenRequests)
       \/ /\ state = "halfopen"
          /\ halfOpenRequests < MaxHalfOpenRequests
          /\ Stay(failures, successes, halfOpenRequests)
    /\ pc' = [pc EXCEPT ![c] = "admitted"]
    /\ UNCHANGED <<age, probe>>

(* The block of Do that reads the state again and counts half-open requests. *)
Track(c) ==
    /\ pc[c] = "admitted"
    /\ pc' = [pc EXCEPT ![c] = "executing"]
    /\ probe' = [probe EXCEPT ![c] = state = "halfopen"]
    /\ halfOpenRequests' = halfOpenRequests + (IF state = "halfopen" THEN 1 ELSE 0)
    /\ UNCHANGED <<state, failures, successes, age, openFor, leaked>>

(* recordResult after fn returned; isFailure is what cfg.IsFailure made of the
   error, h the half-open count after this caller gave its slot back.  A result
   that arrives while the circuit is open changes nothing else. *)
Record(c, isFailure, h, threshold) ==
    /\ pc[c] = "executing"
    /\ \/ /\ state = "closed" /\ isFailure
          /\ age' = 0
          /\ IF failures + 1 >= threshold
             THEN transitionTo("open", failures + 1, successes, h)
             ELSE Stay(failures + 1, successes, h)
       \/ /\ state = "closed" /\ ~isFailure
          /\ Stay(0, successes, h) /\ UNCHANGED age
       \/ /\ state = "halfopen" /\ isFailure
          /\ age' = 0
          /\ transitionTo("open", failures, successes, h)
       \/ /\ state = "halfopen" /\ ~isFailure
          /\ UNCHANGED age
          /\ IF successes + 1 >= SuccessThreshold
             THEN transitionTo("closed", failures, successes + 1, h)
             ELSE Stay(failures, successes + 1, h)
       \/ /\ state = "open"
          /\ Stay(failures, successes, h) /\ UNCHANGED age
    /\ pc' = [pc EXCEPT ![c] = "idle"]
    /\ probe' = [probe EXCEPT ![c] = FALSE]

Released(c) == halfOpenRequests - (IF probe[c] THEN 1 ELSE 0)

(* Mutants of recordResult: the slot is not given back; the threshold is
   compared with > instead of >=. *)
RecordKeepingSlot(c, isFailure) ==
    Record(c, isFailure, halfOpenRequests, FailureThreshold)
RecordOneFailureLate(c, isFailure) ==
    Record(c, isFailure, Released(c), FailureThreshold + 1)

recordResult(c, isFailure) ==
    Record(c, isFailure, Released(c), FailureThreshold)

(* fn panics: Do has no deferred call, so recordResult is skipped, and the
   panic is recovered further up (logging.Recoverer, net/http). *)
Panic(c) ==
    /\ pc[c] = "executing"
    /\ pc' = [pc EXCEPT ![c] = "idle"]
    /\ probe' = [probe EXCEPT ![c] = FALSE]
    /\ leaked' = leaked + (IF probe[c] THEN 1 ELSE 0)
    /\ UNCHANGED <<state, counters, age, openFor>>

(* State() moves an open circuit whose timeout has elapsed to half-open. *)
State ==
    /\ state = "open"
    /\ TimeoutElapsed
    /\ transitionTo("halfopen", failures, successes, halfOpenRequests)
    /\ UNCHANGED <<age, pc, probe>>

Reset ==
    /\ transitionTo("closed", failures, successes, halfOpenRequests)
    /\ UNCHANGED <<age, pc, probe>>

(* Mutant of Trip: lastFailure is not refreshed. *)
TripKeepsTime ==
    /\ transitionTo("open", failures, successes, halfOpenRequests)
    /\ UNCHANGED <<age, pc, probe>>

Trip ==
    /\ age' = 0
    /\ transitionTo("open", failures, successes, halfOpenRequests)
    /\ UNCHANGED <<pc, probe>>

(* External: one unit of wall-clock time. *)
Tick ==
    /\ age < Timeout \/ openFor < Timeout
    /\ age' = IF age < Timeout THEN age + 1 ELSE age
    /\ openFor' = IF openFor < Timeout THEN openFor + 1 ELSE openFor
    /\ UNCHANGED <<state, counters, pc, probe, leaked>>

Next ==
    \/ \E c \in Callers : \/ allowRequest(c)
                          \/ Track(c)
                          \/ \E isFailure \in BOOLEAN : recordResult(c, isFailure)
                          \/ Panic(c)
    \/ State \/ Reset \/ Trip \/ Tick

Spec == Init /\ [][Next]_vars

----------------------------------------------------------------------------
(* Callers that hold a half-open slot: inside fn, counted when they entered. *)
Probes == {c \in Callers : pc[c] = "executing" /\ probe[c]}

(* recordResult opens the circuit at the very result that reaches
   FailureThreshold and closes it at the one that reaches SuccessThreshold:
   a closed circuit always has failures to spare, a half-open one still needs
   successes, and no success counted in an earlier half-open phase survives. *)
ThresholdsRespected ==
    /\ state = "closed" => failures < FailureThreshold
    /\ state = "halfopen" => successes < SuccessThreshold
    /\ state # "halfopen" => successes = 0

(* However it was opened (threshold, failed probe, Trip), the circuit is never
   ready for half-open before a full Timeout has passed since it opened. *)
FullCoolDown ==
    state = "open" => age <= openFor

(* Every counted half-open slot belongs to a caller that is still inside fn, or
   was lost to a panic: results that arrive after Reset, Trip or a transition
   cost no slot of the phase they arrive in. *)
SlotsHaveOwners == halfOpenRequests <= Cardinality(Probes) + leaked

(* allowRequest refuses requests in half-open only while a probe is in flight,
   whose result will move the circuit on.  A half-open circuit that admits
   nobody and waits for nobody rejects requests until someone calls Reset or
   Trip: only a panicking fn, which skips recordResult, brings it there. *)
NeverWedged ==
    /\ state = "halfopen"
    /\ halfOpenRequests >= MaxHalfOpenRequests
    => Probes # {} \/ leaked > 0
=============================================================================
