----------------------------- MODULE MCAlertFile ----------------------------
(***************************************************************************)
(* An instance of AlertFile for TLC: a controller and a simulator write,   *)
(* and a third alert exceeds the cap.                                      *)
(***************************************************************************)
EXTENDS AlertFile
=============================================================================
