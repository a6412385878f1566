------------------------- MODULE MCDocumentController -------------------------
(***************************************************************************)
(* A two-Cell instance: a top Cell, a child Cell that can be added and     *)
(* removed, and two contents that publish different symbols.  The editor   *)
(* boots with a new Project; the file it can open keeps the revisions it   *)
(* was saved with, which are the last ones this instance allows.           *)
(***************************************************************************)
EXTENDS DocumentController

CONSTANTS main, child,    \* Documents
          drawn, ported,  \* contents
          plain, pinned   \* the symbol each content publishes

MCSymbolOf == [c \in Contents |-> IF c = ported THEN pinned ELSE plain]

MCMaxRevision == [d \in DocIds |-> IF d = main THEN 3 ELSE 1]

NewProject ==
    [structureRevision |-> 0,
     top               |-> main,
     documents         |-> [d \in DocIds |->
                              IF d = main THEN [revision |-> 0, content |-> drawn]
                                          ELSE Absent]]

SavedProject ==
    [structureRevision |-> MaxStructureRevision,
     top               |-> main,
     documents         |-> [d \in DocIds |-> [revision |-> MCMaxRevision[d], content |-> drawn]]]

MCBootProjects == {NewProject}

MCFileProjects == {SavedProject}
===============================================================================
