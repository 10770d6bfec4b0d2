------------------------------ MODULE MCStreak ------------------------------
(***************************************************************************)
(* The instances of MCDaemon with the history of the scans.                *)
(***************************************************************************)
EXTENDS DaemonStreak, MCDaemon
=============================================================================
