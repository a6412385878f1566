------------------------ MODULE MCProjectFileLifecycle ------------------------
(***************************************************************************)
(* One Project file on disk and a path not written yet.  "raw" is content  *)
(* with a bulk default still to be written out, "drawn" the same content   *)
(* with it.  Recovery offers a Project that was bound to that file.        *)
(***************************************************************************)
EXTENDS ProjectFileLifecycle

CONSTANTS raw, drawn, old, fresh

MCCompleted == [c \in Contents |-> IF c = raw THEN drawn ELSE c]

MCDiskFiles ==
    [path \in Files |-> IF path = old THEN [token |-> 0, content |-> raw] ELSE None]

MCRecoverable == {[project |-> [token |-> 1, content |-> drawn], fileBinding |-> old]}
================================================================================
