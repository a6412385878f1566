-------------------------- MODULE DocumentController --------------------------
(***************************************************************************)
(* apps/editor/src/document/document-controller.ts: the one owner of the   *)
(* live Project, of a DocumentHistory per opened Document, and of the      *)
(* Project-wide undo and redo stacks that structural commits go through.   *)
(*                                                                         *)
(* The controller is synchronous: one action is one method call.  Which    *)
(* edits succeed is the edit engine's business, so a call's outcome        *)
(* (applied, rejected, dry run, exception) is chosen by the environment;   *)
(* what the controller does with each outcome is what is modelled.         *)
(* historyValue is histories[activeDocumentId]: every assignment to it in  *)
(* the code stores the same object under the active Document's id.         *)
(***************************************************************************)
EXTENDS DocumentHistory

CONSTANTS DocIds,         \* identities a Document can have
          Symbols,        \* symbol definitions a Document can publish
          SymbolOf,       \* the definition each content publishes to callers
          BootProjects,   \* Projects the editor can start with
          FileProjects,   \* Projects created, opened or restored later on
          MaxRevision,    \* bound of a run on each Document's revision
          MaxStructureRevision, MaxSession  \* bounds of a run

Present(p) == {d \in DocIds : p.documents[d] # Absent}

\* A Project always holds its top Document.
Projects ==
    {p \in [structureRevision : Nat,
            top               : DocIds,
            documents         : [DocIds -> Document \cup {Absent}]] :
        p.top \in Present(p)}

Resolver == [DocIds -> Symbols \cup {Absent}]

Stack(S) == {s \in Seq(S) : Len(s) <= HistoryLimit}

History == [document : Document, undo : Stack(Document), redo : Stack(Document),
            resolver : Resolver]

\* ProjectHistoryEntry: a Project and the Document that was open in it.
Entry == {e \in [project : Projects, activeDocumentId : DocIds] :
            e.activeDocumentId \in Present(e.project)}

ASSUME ControllerAssumption ==
    /\ Absent \notin Nat
    /\ Absent \notin Contents
    /\ Absent \notin Document
    /\ Absent \notin History
    /\ SymbolOf \in [Contents -> Symbols]
    /\ BootProjects \cup FileProjects \subseteq Projects

\* createProjectSymbolResolver: the definitions the Project's Cells publish.
SymbolsOf(p) ==
    [d \in DocIds |-> IF p.documents[d] = Absent
                      THEN Absent
                      ELSE SymbolOf[p.documents[d].content]]

VARIABLES project, activeDocumentId, resolver, histories,
          projectUndoStack, projectRedoStack, projectSessionCounter

vars == <<project, activeDocumentId, resolver, histories,
          projectUndoStack, projectRedoStack, projectSessionCounter>>

-------------------------------------------------------------------------------
\* historyForDocument: the history kept for d, or a fresh one.
HistoryFor(d) ==
    IF histories[d] # Absent THEN histories[d]
    ELSE NewHistory(project.documents[d], resolver)

\* A Map that holds nothing but a fresh history of the active Document.
OnlyHistoryOf(p, active, symbolResolver) ==
    [d \in DocIds |-> IF d = active
                      THEN NewHistory(p.documents[d], symbolResolver)
                      ELSE Absent]

\* resolveActiveDocument: fall back to the top Document.
ResolveActive(p, d) == IF d \in Present(p) THEN d ELSE p.top

\* replaceProjectDocument
WithDocument(p, d, document) == [p EXCEPT !.documents[d] = document]

\* Mutant: undo is forgotten among the kinds that can change a definition.
MayChangeDefinitionsForward(kind) == kind = "definition"

\* SYMBOL_DEFINITION_EDIT_KINDS plus the two history edits.
MayChangeDefinitions(kind) == kind \in {"definition", "undo", "redo"}

\* The resolver after a commit: rebuilt only for an edit of a listed kind
\* that really changed what the Document publishes.
ResolverAfter(kind, d, next) ==
    IF /\ MayChangeDefinitions(kind)
       /\ SymbolsOf(next)[d] # SymbolsOf(project)[d]
    THEN SymbolsOf(next)
    ELSE resolver

Init ==
    /\ project \in BootProjects
    /\ activeDocumentId = project.top
    /\ resolver = SymbolsOf(project)
    /\ histories = OnlyHistoryOf(project, project.top, SymbolsOf(project))
    /\ projectUndoStack = <<>>
    /\ projectRedoStack = <<>>
    /\ projectSessionCounter = 1

-------------------------------------------------------------------------------
\* openDocument: reuse a history only if it is at the Project's revision.
OpenDocument(d) ==
    /\ d \in Present(project) \ {activeDocumentId}
    /\ histories' =
         [histories EXCEPT ![d] =
            IF /\ histories[d] # Absent
               /\ histories[d].document.revision = project.documents[d].revision
            THEN histories[d]
            ELSE NewHistory(project.documents[d], resolver)]
    /\ activeDocumentId' = d
    /\ UNCHANGED <<project, resolver, projectUndoStack, projectRedoStack,
                   projectSessionCounter>>

\* replaceProject: another Project, another session, no history.
ReplaceProject(p) ==
    /\ projectSessionCounter < MaxSession
    /\ projectSessionCounter' = projectSessionCounter + 1
    /\ project' = p
    /\ activeDocumentId' = p.top
    /\ resolver' = SymbolsOf(p)
    /\ histories' = OnlyHistoryOf(p, p.top, SymbolsOf(p))
    /\ projectUndoStack' = <<>>
    /\ projectRedoStack' = <<>>

\* The commit that every applied per-Document transaction ends in.
CommitHistory(d, history, kind) ==
    /\ histories' = [histories EXCEPT ![d] = history]
    /\ project' = WithDocument(project, d, history.document)
    /\ resolver' = ResolverAfter(kind, d, project')
    /\ UNCHANGED <<activeDocumentId, projectUndoStack, projectSessionCounter>>

\* The kinds of ordinary edit the controller tells apart.  Drawing leaves
\* the published definition alone.  A local power rail is drawn like any
\* other wire, yet adds a formal terminal to the Cell's interface.
EditKinds == {"drawing", "rail", "definition"}

\* Mutant: an edit leaves the redo stack of the Project alone.
DispatchEditKeepingRedo(d, kind, content) ==
    /\ d \in Present(project)
    /\ project.documents[d].revision < MaxRevision[d]
    /\ kind = "drawing" =>
         SymbolOf[content] = SymbolOf[HistoryFor(d).document.content]
    /\ CommitHistory(d, Committed(HistoryFor(d), content), kind)
    /\ UNCHANGED projectRedoStack

\* dispatchTransaction with ordinary edits that the engine applied.
DispatchEdit(d, kind, content) ==
    /\ d \in Present(project)
    /\ project.documents[d].revision < MaxRevision[d]
    /\ kind = "drawing" =>
         SymbolOf[content] = SymbolOf[HistoryFor(d).document.content]
    /\ CommitHistory(d, Committed(HistoryFor(d), content), kind)
    /\ projectRedoStack' = <<>>

\* dispatchTransaction with one undo edit, the Document's own stack first.
UndoDocument(d) ==
    /\ d \in Present(project)
    /\ project.documents[d].revision < MaxRevision[d]
    /\ HistoryFor(d).undo # <<>>
    /\ CommitHistory(d, Undone(HistoryFor(d)), "undo")
    /\ UNCHANGED projectRedoStack

RedoDocument(d) ==
    /\ d \in Present(project)
    /\ project.documents[d].revision < MaxRevision[d]
    /\ HistoryFor(d).redo # <<>>
    /\ CommitHistory(d, Redone(HistoryFor(d)), "redo")
    /\ UNCHANGED projectRedoStack

\* A stale revision, a refused edit, an empty stack or a dry run: nothing is
\* committed, but the history that was looked up stays in the Map.
RejectDispatch(d) ==
    /\ d \in Present(project)
    /\ histories[d] = Absent
    /\ histories' = [histories EXCEPT ![d] = HistoryFor(d)]
    /\ UNCHANGED <<project, activeDocumentId, resolver, projectUndoStack,
                   projectRedoStack, projectSessionCounter>>

\* The engine, or re-validating the committed Document, threw: the Project
\* stays as it was and every history is rebuilt from it.
InternalError ==
    /\ histories' = OnlyHistoryOf(project, activeDocumentId, resolver)
    /\ UNCHANGED <<project, activeDocumentId, resolver, projectUndoStack,
                   projectRedoStack, projectSessionCounter>>

-------------------------------------------------------------------------------
\* commitProjectStructure, after its three checks.
CommitProjectStructure(next, active) ==
    /\ next.structureRevision = project.structureRevision + 1
    /\ next.structureRevision <= MaxStructureRevision
    /\ active \in Present(next)
    /\ projectUndoStack' =
         PushBounded(projectUndoStack,
                     [project |-> project, activeDocumentId |-> activeDocumentId])
    /\ projectRedoStack' = <<>>
    /\ project' = next
    /\ activeDocumentId' = active
    /\ resolver' = SymbolsOf(next)
    /\ histories' = OnlyHistoryOf(next, active, SymbolsOf(next))
    /\ UNCHANGED projectSessionCounter

\* The Project with one Document slot rewritten and its structure advanced.
Restructured(d, document) ==
    [WithDocument(project, d, document) EXCEPT !.structureRevision = @ + 1]

\* executeProjectTransaction, one edit at a time.
AddDocument(d, content, active) ==
    /\ d \notin Present(project)
    /\ CommitProjectStructure(
         Restructured(d, [revision |-> 0, content |-> content]), active)

RemoveDocument(d, active) ==
    /\ d \in Present(project) \ {project.top}
    /\ CommitProjectStructure(Restructured(d, Absent), active)

TransactDocument(d, content, active) ==
    /\ d \in Present(project)
    /\ project.documents[d].revision < MaxRevision[d]
    /\ CommitProjectStructure(
         Restructured(d, [revision |-> project.documents[d].revision + 1,
                          content  |-> content]), active)

\* rename_project, source files, simulation folders: no Document changes.
ChangeProjectOnly(active) ==
    CommitProjectStructure(
        [project EXCEPT !.structureRevision = @ + 1], active)

\* planProjectCodeCommit: the Project written out as code and applied whole.
\* Documents keep, advance or start their revision as their content says.
CodeDocuments(written) ==
    [d \in DocIds |->
        IF written[d] = Absent THEN Absent
        ELSE IF project.documents[d] = Absent
        THEN [revision |-> 0, content |-> written[d]]
        ELSE IF project.documents[d].content = written[d]
        THEN project.documents[d]
        ELSE [revision |-> project.documents[d].revision + 1,
              content  |-> written[d]]]

ApplyProjectCode(written, top) ==
    LET next == [structureRevision |-> project.structureRevision + 1,
                 top               |-> top,
                 documents         |-> CodeDocuments(written)]
    IN  /\ written[top] # Absent
        /\ top # project.top \/ next.documents # project.documents
        /\ \A d \in Present(next) : next.documents[d].revision <= MaxRevision[d]
        /\ CommitProjectStructure(next, IF activeDocumentId \in Present(next)
                                        THEN activeDocumentId ELSE top)

-------------------------------------------------------------------------------
\* Mutant: the stored Project comes back under its own structure revision.
RestoredAsStored(target) ==
    [structureRevision |-> target.structureRevision,
     top               |-> target.top,
     documents         |->
        [d \in DocIds |->
            IF target.documents[d] = Absent \/ project.documents[d] = Absent
            THEN target.documents[d]
            ELSE [revision |-> project.documents[d].revision + 1,
                  content  |-> target.documents[d].content]]]

\* restoreProjectHistory: the stored Project under revisions newer than the
\* live ones; a Document the live Project lacks keeps its stored revision.
RestoredFrom(target) ==
    [structureRevision |-> project.structureRevision + 1,
     top               |-> target.top,
     documents         |->
        [d \in DocIds |->
            IF target.documents[d] = Absent \/ project.documents[d] = Absent
            THEN target.documents[d]
            ELSE [revision |-> project.documents[d].revision + 1,
                  content  |-> target.documents[d].content]]]

\* Mutant: the histories are left as they were.
RestoreKeepingHistories(entry) ==
    LET restored == RestoredFrom(entry.project)
    IN  /\ restored.structureRevision <= MaxStructureRevision
        /\ \A d \in Present(restored) :
              restored.documents[d].revision <= MaxRevision[d]
        /\ project' = restored
        /\ activeDocumentId' = ResolveActive(restored, entry.activeDocumentId)
        /\ resolver' = SymbolsOf(restored)
        /\ UNCHANGED <<histories, projectSessionCounter>>

\* restoreProjectHistory, on the entry taken from the stack.
RestoreProject(entry) ==
    LET restored == RestoredFrom(entry.project)
    IN  /\ restored.structureRevision <= MaxStructureRevision
        /\ \A d \in Present(restored) :
              restored.documents[d].revision <= MaxRevision[d]
        /\ project' = restored
        /\ activeDocumentId' = ResolveActive(restored, entry.activeDocumentId)
        /\ resolver' = SymbolsOf(restored)
        /\ histories' = OnlyHistoryOf(restored, activeDocumentId',
                                      SymbolsOf(restored))
        /\ UNCHANGED projectSessionCounter

LiveEntry == [project |-> project, activeDocumentId |-> activeDocumentId]

\* Undo asked of d when d's own stack is empty.
UndoProject(d) ==
    /\ d \in Present(project)
    /\ HistoryFor(d).undo = <<>>
    /\ projectUndoStack # <<>>
    /\ RestoreProject(Last(projectUndoStack))
    /\ projectUndoStack' = Front(projectUndoStack)
    /\ projectRedoStack' = PushBounded(projectRedoStack, LiveEntry)

RedoProject(d) ==
    /\ d \in Present(project)
    /\ HistoryFor(d).redo = <<>>
    /\ projectRedoStack # <<>>
    /\ RestoreProject(Last(projectRedoStack))
    /\ projectRedoStack' = Front(projectRedoStack)
    /\ projectUndoStack' = PushBounded(projectUndoStack, LiveEntry)

-------------------------------------------------------------------------------
DocumentStep(d) ==
    \/ OpenDocument(d)
    \/ \E kind \in EditKinds, content \in Contents :
          DispatchEdit(d, kind, content)
    \/ UndoDocument(d)
    \/ RedoDocument(d)
    \/ RejectDispatch(d)
    \/ UndoProject(d)
    \/ RedoProject(d)

StructuralStep(active) ==
    \/ \E d \in DocIds, content \in Contents :
          \/ AddDocument(d, content, active)
          \/ TransactDocument(d, content, active)
    \/ \E d \in DocIds : RemoveDocument(d, active)
    \/ ChangeProjectOnly(active)

Next ==
    \/ \E d \in DocIds : DocumentStep(d) \/ StructuralStep(d)
    \/ \E written \in [DocIds -> Contents \cup {Absent}], top \in DocIds :
          ApplyProjectCode(written, top)
    \/ \E p \in FileProjects : ReplaceProject(p)
    \/ InternalError

Spec == Init /\ [][Next]_vars
-------------------------------------------------------------------------------
\* Every variable keeps its shape, every stack stays within its limit (push
\* and shift in history.ts, and again in both halves of the controller), and
\* the active and the top Document are ones the Project holds.
TypeOK ==
    /\ project \in Projects
    /\ activeDocumentId \in Present(project)
    /\ resolver \in Resolver
    /\ histories \in [DocIds -> History \cup {Absent}]
    /\ projectUndoStack \in Stack(Entry)
    /\ projectRedoStack \in Stack(Entry)
    /\ projectSessionCounter \in Nat \ {0}

\* Opened(d): a history is kept for d.
Opened(d) == histories[d] # Absent

\* The histories and the Project are two copies of the same Documents, kept
\* in step by hand in each method.  They never disagree, and the active
\* Document always has a history: an edit is never applied to a Document the
\* user does not see, and historyValue is never a dangling object.
HistoriesInSync ==
    /\ Opened(activeDocumentId)
    /\ \A d \in DocIds : Opened(d) =>
          /\ d \in Present(project)
          /\ histories[d].document = project.documents[d]

\* A Project-wide redo replaces every Document.  It is only on offer while no
\* Document has been edited since the undo it reverts, whichever Document
\* the edit went to and whichever of them is open now.
RedoNeverOverwritesNewerWork ==
    projectRedoStack # <<>> =>
        \A d \in DocIds : Opened(d) =>
            histories[d].undo = <<>> /\ histories[d].redo = <<>>

\* Whatever is stacked is older than what is live: no step back or forward
\* can give the live Document or Project a number that a stacked one holds.
StackedStatesAreOlder ==
    /\ \A d \in DocIds : Opened(d) =>
          \A s \in {histories[d].undo, histories[d].redo} :
             \A i \in 1..Len(s) : s[i].revision < histories[d].document.revision
    /\ \A s \in {projectUndoStack, projectRedoStack} :
          \A i \in 1..Len(s) :
             s[i].project.structureRevision < project.structureRevision

\* projectChangeToken, and the content it stands for.
projectChangeToken(p) ==
    [structureRevision |-> p.structureRevision,
     revisions |-> [d \in DocIds |-> IF p.documents[d] = Absent
                                     THEN Absent
                                     ELSE p.documents[d].revision]]

ContentOf(p) ==
    [top       |-> p.top,
     documents |-> [d \in DocIds |-> IF p.documents[d] = Absent
                                     THEN Absent
                                     ELSE p.documents[d].content]]

\* Saving, the dirty mark and recovery compare change tokens instead of
\* Projects.  Within a session the token only moves forward, so a commit,
\* undo, redo or structural change is never mistaken for no change.
Versioned == INSTANCE VersionedProject WITH
                 session <- projectSessionCounter,
                 token   <- projectChangeToken(project),
                 content <- ContentOf(project)

TokensOnlyAdvance == Versioned!Spec

\* Work replaced by a commit, an undo or a redo can always be brought back:
\* it is on top of one Document's stack or of one Project stack.
TopIs(stack, entry) == stack # <<>> /\ Last(stack) = entry

PriorWorkStaysReachable ==
    [][\/ projectSessionCounter' # projectSessionCounter
       \/ project' = project
       \/ TopIs(projectUndoStack', LiveEntry)
       \/ TopIs(projectRedoStack', LiveEntry)
       \/ \E d \in DocIds :
             /\ Opened(d)'
             /\ WithDocument(project', d, project.documents[d]) = project
             /\ \/ TopIs(histories'[d].undo, project.documents[d])
                \/ TopIs(histories'[d].redo, project.documents[d])]_vars

\* The resolver the canvas draws with follows every definition change but
\* one: only drawing a local power rail may leave it behind the Project.
ResolverFollowsDefinitions ==
    [][(resolver = SymbolsOf(project) /\ resolver' # SymbolsOf(project'))
       => \E d \in DocIds, content \in Contents :
             DispatchEdit(d, "rail", content)]_vars
===============================================================================
