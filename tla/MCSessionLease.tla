---------------------------- MODULE MCSessionLease ----------------------------
(***************************************************************************)
(* The lease between two runs: one of the service, one of the pairing      *)
(* command or of the service again (an old task and the one replacing it). *)
(* A window is three renew periods of two instants, as 90 s is of 30 s.    *)
(***************************************************************************)
EXTENDS SessionLease

CONSTANTS task, other

MCProcesses == {task, other}

=============================================================================
