------------------------- MODULE MCRecoveryCoordinator -------------------------
(***************************************************************************)
(* A size of 1 is a text at the record limit and 2 one over it, so that    *)
(* the caps of the contract (2 sessions, one record, three records) bite   *)
(* on the second session's second write.  The legacy slot is empty or holds*)
(* a text of either size.                                                  *)
(***************************************************************************)
EXTENDS RecoveryCoordinator
================================================================================
