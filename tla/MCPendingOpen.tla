----------------------------- MODULE MCPendingOpen -----------------------------
(***************************************************************************)
(* Three files handed over, one of them perhaps on the command line.       *)
(***************************************************************************)
EXTENDS PendingOpen
================================================================================
