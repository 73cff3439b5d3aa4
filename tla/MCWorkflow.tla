------------------------------ MODULE MCWorkflow ------------------------------
(***************************************************************************)
(* A workflow of two phases for TLC: 0 like phase3, whose clean command    *)
(* removes infrastructure, and 1 like phase7, whose clean command does     *)
(* nothing.  Both have sources, so that either can go out of date alone.   *)
(***************************************************************************)
EXTENDS Workflow

MCLast == 1
MCSourcePhases == {0, 1}
MCCleanPhases == {0}
===============================================================================
