---------------------------- MODULE MCEventQueue ----------------------------
(***************************************************************************)
(* Small instances of EventQueue.                                          *)
(***************************************************************************)
EXTENDS EventQueue, TLC

CONSTANTS e1, e2, e3
=============================================================================
