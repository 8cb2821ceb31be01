------------------------------ MODULE MCWinCond ------------------------------
(***************************************************************************)
(* WinCond with three threads.                                             *)
(***************************************************************************)
EXTENDS WinCond
=============================================================================
