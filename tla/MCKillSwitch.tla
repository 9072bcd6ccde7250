---------------------------- MODULE MCKillSwitch ----------------------------
(* A small instance of KillSwitch: commands die before they rewrite the file. *)
EXTENDS KillSwitch

BeforeWrite == {"loaded", "ready", "logged"}
=============================================================================
