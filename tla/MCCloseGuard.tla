----------------------------- MODULE MCCloseGuard -----------------------------
(***************************************************************************)
(* A window opens on a blank Project.  One path is to save to: the shell   *)
(* can hand that file over once it is written.                             *)
(***************************************************************************)
EXTENDS CloseGuard

CONSTANTS drawn, old

MCCompleted == [c \in Contents |-> c]

MCDiskFiles == [path \in Files |-> None]
================================================================================
