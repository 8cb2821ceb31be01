----------------------------- MODULE MCTaskQueue -----------------------------
(***************************************************************************)
(* TaskQueue with three tasks, two of them blocking, for safety; and with  *)
(* two ordinary tasks for liveness.                                        *)
(***************************************************************************)
EXTENDS TaskQueue
=============================================================================
