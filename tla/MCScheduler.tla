---------------------------- MODULE MCScheduler ----------------------------
(* Scheduler with an interval job and a cron job of the same name. *)
EXTENDS Scheduler, TLC

CONSTANTS e1, e2

MCNameOf == [e \in Entries |-> "report"]
MCKindOf == [e \in Entries |-> IF e = e2 THEN "cron" ELSE "interval"]
=============================================================================
