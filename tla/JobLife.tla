------------------------------ MODULE JobLife ------------------------------
(***************************************************************************)
(* What a background queue promises about each job it accepts, whatever    *)
(* queue, worker pool and timers implement it: the job is executed by one  *)
(* worker at a time, at most MaxTries times, it is reported at most once,  *)
(* and after that it is never touched again.                               *)
(***************************************************************************)
EXTENDS Naturals

CONSTANTS Jobs, MaxTries

VARIABLES status,   \* "new", "waiting", "running", "ok", "failed" or "lost"
          tries     \* executions begun

vars == <<status, tries>>

Init ==
    /\ status = [j \in Jobs |-> "new"]
    /\ tries = [j \in Jobs |-> 0]

Move(j, from, to) ==
    /\ status[j] = from
    /\ status' = [status EXCEPT ![j] = to]

Accept(j) == Move(j, "new", "waiting") /\ UNCHANGED tries

Begin(j) ==
    /\ Move(j, "waiting", "running")
    /\ tries[j] < MaxTries
    /\ tries' = [tries EXCEPT ![j] = @ + 1]

Succeed(j) == Move(j, "running", "ok") /\ UNCHANGED tries

Fail(j) ==
    /\ Move(j, "running", "failed")
    /\ tries[j] = MaxTries
    /\ UNCHANGED tries

PutBack(j) ==
    /\ Move(j, "running", "waiting")
    /\ tries[j] < MaxTries
    /\ UNCHANGED tries

(* A job nobody can execute is reported as failed without being tried. *)
Reject(j) == Move(j, "waiting", "failed") /\ UNCHANGED tries

Lose(j) == Move(j, "waiting", "lost") /\ UNCHANGED tries

Next ==
    \E j \in Jobs : \/ Accept(j) \/ Begin(j) \/ Succeed(j) \/ Fail(j)
                    \/ PutBack(j) \/ Reject(j) \/ Lose(j)

Spec == Init /\ [][Next]_vars
=============================================================================
