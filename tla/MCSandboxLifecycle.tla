---------------------------- MODULE MCSandboxLifecycle ----------------------------
(***************************************************************************)
(* SandboxLifecycle for TLC.  Executors are interchangeable, but liveness  *)
(* is checked on the same run, so no symmetry is declared.                 *)
(***************************************************************************)
EXTENDS SandboxLifecycle, TLC

====================================================================================
