------------------------------- MODULE MC_PM -------------------------------
(***************************************************************************)
(* Instances of PM for TLC: IDLE, init (process 1) and its child          *)
(* (process 2), of different nice values, so that aging decides who runs. *)
(***************************************************************************)
EXTENDS PM

MC_Nice == [p \in Procs |-> CASE p = IDLE -> 4 [] p = 1 -> 0 [] OTHER -> p - 1]
MC_Father == [p \in Procs |-> IF p <= 1 THEN IDLE ELSE 1]
=============================================================================
