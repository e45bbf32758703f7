----------------------------- MODULE MCEventLog ----------------------------
(***************************************************************************)
(* EventLog on a small instance for TLC.                                    *)
(***************************************************************************)
EXTENDS EventLog, TLC
============================================================================
