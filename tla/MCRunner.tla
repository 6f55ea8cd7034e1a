------------------------------ MODULE MCRunner ------------------------------
(* Runner on two jobs of one type. *)
EXTENDS Runner

CONSTANTS j1, j2, mail

MCTypeOf == [j \in Jobs |-> mail]
=============================================================================
