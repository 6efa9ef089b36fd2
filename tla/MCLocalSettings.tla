---------------------------- MODULE MCLocalSettings ----------------------------
(* The instance of LocalSettings that TLC checks: MCSettings.cfg. *)
EXTENDS LocalSettings
================================================================================
