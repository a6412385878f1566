------------------------- MODULE ProjectFileLifecycle -------------------------
(***************************************************************************)
(* apps/editor/src/document/use-project-file-lifecycle.ts: the mark that   *)
(* says whether the live Project has reached its file, the single-flight   *)
(* save, and the guard in front of everything that replaces the Project.   *)
(*                                                                         *)
(* Every await of a handler ends an action.  Between two of them the user  *)
(* can go on drawing, the shell can hand over a file, and the Project the  *)
(* handler started from can be replaced.  The mark is updated by an effect *)
(* of the render that shows an edit, here by the edit itself.              *)
(*                                                                         *)
(* A Project is its change token and its content.  Recovery is the subject *)
(* of RecoveryCoordinator; that a read takes time, and what the guard then *)
(* asks, of PendingOpen.  Feature-owned text buffers are taken as empty.   *)
(***************************************************************************)
EXTENDS Integers

CONSTANTS Contents,    \* what a Project can hold
          Blank,       \* too little of it to be worth protecting
          Completed,   \* the content with its bulk defaults materialized
          Files,       \* paths of Project files
          None,        \* no binding, baseline, save, dialog or file
          DiskFiles,   \* what the files hold at first
          Recoverable, \* records of earlier runs: a Project and its binding
          MaxToken,    \* bound of a run on the edits of a session
          MaxSession   \* bound of a run on the sessions a request starts from

Snapshot == [token : Nat, content : Contents]

PersistenceState == {"unbound", "clean", "dirty", "saving", "failed"}

\* ReplaceProjectOptions, with the Project they install.
Replacement == [project : Snapshot, persistenceState : PersistenceState,
                fileBinding : Files \cup {None},
                savedBaseline : Snapshot \cup {None}]

\* saveInFlightRef.  What performProjectSave closed over when it started,
\* and the mark it found then, which the code forgets.
Save == [phase : {"writing", "confirming"}, session : Nat, candidate : Snapshot,
         fileBinding : Files \cup {None}, firstSave : BOOLEAN, saveAs : BOOLEAN,
         before : PersistenceState]

\* replaceGuardSaving: the answer given to the dialog, and what it performs.
Continuation == [step : {"saving", "deleting", "performing"}, perform : Replacement]

ASSUME LifecycleAssumption ==
    /\ Blank \in Contents
    /\ None \notin Files \cup Snapshot
    /\ None \notin Replacement /\ None \notin Save /\ None \notin Continuation
    /\ Completed \in [Contents -> Contents]
    /\ \A c \in Contents : Completed[Completed[c]] = Completed[c]
    /\ DiskFiles \in [Files -> Snapshot \cup {None}]
    /\ Recoverable \subseteq [project : Snapshot, fileBinding : Files \cup {None}]
    /\ MaxToken \in Nat
    /\ MaxSession \in Nat \ {0}

VARIABLES live, session, persistenceState, fileBinding, savedBaseline,
          files,        \* what the disk holds
          save,         \* the save in flight
          replaceGuard, \* the replacement the open dialog asks about
          continuing    \* the replacement an answer is about to perform

workVars == <<live, session, persistenceState, fileBinding, savedBaseline>>

vars == <<workVars, files, save, replaceGuard, continuing>>

-------------------------------------------------------------------------------
isDirtyWork == persistenceState \in {"dirty", "saving", "failed"}

\* Content below MEANINGFUL_CONTENT_MIN_OBJECTS is not worth a question.
hasUnsafeWork == isDirtyWork /\ live.content # Blank

\* materializeRazaviProjectBulkConnections commits a transaction of its own
\* when a default has to be written out.
Materialized(p) ==
    IF Completed[p.content] = p.content THEN p
    ELSE [token |-> p.token + 1, content |-> Completed[p.content]]

\* replaceActiveProject
Install(r) ==
    /\ session' = session + 1
    /\ live' = Materialized(r.project)
    /\ persistenceState' = r.persistenceState
    /\ fileBinding' = r.fileBinding
    /\ savedBaseline' = r.savedBaseline

\* How far the answer that is being carried out has come.
At(step) == continuing # None /\ continuing.step = step

\* Between an outcome and the replacement it licenses only microtasks run.
Interactive == ~At("performing")

Init ==
    /\ live = [token |-> 0, content |-> Blank]
    /\ session = 1
    /\ persistenceState = "unbound"
    /\ fileBinding = None
    /\ savedBaseline = None
    /\ files = DiskFiles
    /\ save = None
    /\ replaceGuard = None
    /\ continuing = None

-------------------------------------------------------------------------------
\* A commit, an undo or a redo, and the effect that compares the change token
\* with the baseline's.  DocumentController shows the token only advances.
CommitEdit(content) ==
    /\ replaceGuard = None
    /\ Interactive
    /\ live.token < MaxToken
    /\ live' = [token |-> live.token + 1, content |-> content]
    /\ persistenceState' = IF /\ savedBaseline # None
                              /\ savedBaseline.token = live'.token
                           THEN "clean" ELSE "dirty"
    /\ UNCHANGED <<session, fileBinding, savedBaseline, files, save, replaceGuard,
                   continuing>>

\* saveProject up to the write: the candidate is cloned, the mark is "saving".
\* A save already in flight is joined instead.
StartSave(saveAs) ==
    IF save # None THEN UNCHANGED <<workVars, save>>
    ELSE /\ save' = [phase       |-> "writing",
                     session     |-> session,
                     candidate   |-> live,
                     fileBinding |-> fileBinding,
                     firstSave   |-> fileBinding = None /\ savedBaseline = None,
                     saveAs      |-> saveAs,
                     before      |-> persistenceState]
         /\ persistenceState' = "saving"
         /\ UNCHANGED <<live, session, fileBinding, savedBaseline>>

SaveCommand(saveAs) ==
    /\ replaceGuard = None
    /\ Interactive
    /\ save = None
    /\ StartSave(saveAs)
    /\ UNCHANGED <<files, replaceGuard, continuing>>

\* Mutant: the save is not told apart from one of the live session.
SaveIsAnyones == TRUE

\* liveSessionRef.current === projectSessionId
SaveIsLive == save.session = session

\* Mutant: the guard stays busy when the save came to nothing.
SettledUnlessFailed(saved) ==
    /\ save' = None
    /\ continuing' = IF At("saving") /\ saved
                     THEN [continuing EXCEPT !.step = "performing"]
                     ELSE continuing

\* The save settles: a guard that waited for it performs or stays open.
Settled(saved) ==
    /\ save' = None
    /\ continuing' = IF ~At("saving") THEN continuing
                     ELSE IF saved THEN [continuing EXCEPT !.step = "performing"]
                     ELSE None

\* Without a binding, and for Save As, the shell asks where to write.
Targets ==
    IF save.fileBinding = None \/ save.saveAs THEN Files ELSE {save.fileBinding}

\* The file is written.  In a session that is gone nothing else changes.
WriteSaved(path) ==
    /\ save # None
    /\ save.phase = "writing"
    /\ path \in Targets
    /\ files' = [files EXCEPT ![path] = save.candidate]
    /\ IF SaveIsLive
       THEN /\ fileBinding' = path
            /\ savedBaseline' = save.candidate
            /\ save' = [save EXCEPT !.phase = "confirming"]
            /\ UNCHANGED continuing
       ELSE /\ Settled(TRUE)
            /\ UNCHANGED <<fileBinding, savedBaseline>>
    /\ UNCHANGED <<live, session, persistenceState, replaceGuard>>

\* Mutant: the live Project is not compared again after the last await.
ConfirmUnchecked ==
    /\ save # None
    /\ save.phase = "confirming"
    /\ persistenceState' = IF SaveIsLive THEN "clean" ELSE persistenceState
    /\ Settled(TRUE)
    /\ UNCHANGED <<live, session, fileBinding, savedBaseline, files, replaceGuard>>

\* The recovery flush that follows the write is done.
ConfirmSave ==
    /\ save # None
    /\ save.phase = "confirming"
    /\ persistenceState' = IF ~SaveIsLive THEN persistenceState
                           ELSE IF live.token = save.candidate.token
                           THEN "clean" ELSE "dirty"
    /\ Settled(TRUE)
    /\ UNCHANGED <<live, session, fileBinding, savedBaseline, files, replaceGuard>>

\* The write failed.
FailSave ==
    /\ save # None
    /\ save.phase = "writing"
    /\ persistenceState' = IF SaveIsLive THEN "failed" ELSE persistenceState
    /\ Settled(FALSE)
    /\ UNCHANGED <<live, session, fileBinding, savedBaseline, files, replaceGuard>>

\* The dialog that asks for a path was cancelled.
CancelSave ==
    /\ save # None
    /\ save.phase = "writing"
    /\ Targets = Files
    /\ persistenceState' = IF ~SaveIsLive THEN persistenceState
                           ELSE IF save.firstSave THEN "unbound" ELSE "dirty"
    /\ Settled(FALSE)
    /\ UNCHANGED <<live, session, fileBinding, savedBaseline, files, replaceGuard>>

-------------------------------------------------------------------------------
\* createNewProject
NewProject ==
    [project |-> [token |-> 0, content |-> Blank], persistenceState |-> "unbound",
     fileBinding |-> None, savedBaseline |-> None]

\* installOpenedFile: "An upgraded or repaired Project differs from the bytes
\* on disk, so it is dirty until saved back; otherwise the file is the
\* baseline."
OpenedFile(path, changed) ==
    [project          |-> files[path],
     persistenceState |-> IF changed THEN "dirty" ELSE "clean",
     fileBinding      |-> path,
     savedBaseline    |-> IF changed THEN None ELSE files[path]]

\* openProjectFile: a copy, bound to nothing.
OpenedCopy(path, changed) ==
    [project          |-> files[path],
     persistenceState |-> IF changed THEN "dirty" ELSE "unbound",
     fileBinding      |-> None,
     savedBaseline    |-> None]

\* restoreRecoverySession: a record, under the binding stored with it.
Recovered(record) ==
    [project |-> record.project, persistenceState |-> "dirty",
     fileBinding |-> record.fileBinding, savedBaseline |-> None]

\* revertToSavedProjectBaseline
Reverted ==
    [project |-> savedBaseline, persistenceState |-> "clean",
     fileBinding |-> fileBinding, savedBaseline |-> savedBaseline]

FilesPresent == {path \in Files : files[path] # None}

\* What the menus can ask for.
Requests ==
    {NewProject}
    \cup {OpenedFile(path, changed) : path \in FilesPresent, changed \in BOOLEAN}
    \cup {OpenedCopy(path, changed) : path \in FilesPresent, changed \in BOOLEAN}
    \cup {Recovered(record) : record \in Recoverable}
    \cup (IF savedBaseline # None /\ isDirtyWork THEN {Reverted} ELSE {})

\* What the shell can ask for at any time: a file it was handed.
ShellRequests ==
    {OpenedFile(path, changed) : path \in FilesPresent, changed \in BOOLEAN}

\* guardDirtyReplacement: perform at once, or ask.  A second question takes
\* the place of the one that is open.
GuardDirtyReplacement(r) ==
    IF hasUnsafeWork
    THEN /\ replaceGuard' = r
         /\ UNCHANGED <<workVars, files, save, continuing>>
    ELSE /\ Install(r)
         /\ UNCHANGED <<files, save, replaceGuard, continuing>>

Request(r) ==
    /\ session < MaxSession
    /\ replaceGuard = None
    /\ Interactive
    /\ GuardDirtyReplacement(r)

ShellRequest(r) ==
    /\ session < MaxSession
    /\ replaceGuard # None
    /\ Interactive
    /\ GuardDirtyReplacement(r)

\* Mutant: Stay also works while an answer is being carried out.
CancelReplaceGuardAnytime ==
    /\ replaceGuard # None
    /\ replaceGuard' = None
    /\ UNCHANGED <<workVars, files, save, continuing>>

\* Stay.
CancelReplaceGuard ==
    /\ replaceGuard # None
    /\ continuing = None
    /\ replaceGuard' = None
    /\ UNCHANGED <<workVars, files, save, continuing>>

\* Continue without saving: the outgoing recovery session is deleted first.
ConfirmReplaceGuard ==
    /\ replaceGuard # None
    /\ continuing = None
    /\ continuing' = [step |-> "deleting", perform |-> replaceGuard]
    /\ UNCHANGED <<workVars, files, save, replaceGuard>>

RecoveryDeleted ==
    /\ At("deleting")
    /\ continuing' = [continuing EXCEPT !.step = "performing"]
    /\ UNCHANGED <<workVars, files, save, replaceGuard>>

\* Save and continue.
SaveAndContinue ==
    /\ replaceGuard # None
    /\ continuing = None
    /\ continuing' = [step |-> "saving", perform |-> replaceGuard]
    /\ StartSave(FALSE)
    /\ UNCHANGED <<files, replaceGuard>>

\* The replacement the answer was about.
PerformReplacement ==
    /\ At("performing")
    /\ Install(continuing.perform)
    /\ replaceGuard' = None
    /\ continuing' = None
    /\ UNCHANGED <<files, save>>

-------------------------------------------------------------------------------
Next ==
    \/ \E content \in Contents : CommitEdit(content)
    \/ \E saveAs \in BOOLEAN : SaveCommand(saveAs)
    \/ \E path \in Files : WriteSaved(path)
    \/ ConfirmSave
    \/ FailSave
    \/ CancelSave
    \/ \E r \in Requests : Request(r)
    \/ \E r \in ShellRequests : ShellRequest(r)
    \/ CancelReplaceGuard
    \/ ConfirmReplaceGuard
    \/ RecoveryDeleted
    \/ SaveAndContinue
    \/ PerformReplacement

\* A write and the flush after it settle, and the user answers the dialog
\* that asks for a path; the recovery delete settles; microtasks run.
Fairness ==
    /\ WF_vars((\E path \in Files : WriteSaved(path)) \/ FailSave \/ CancelSave)
    /\ WF_vars(ConfirmSave)
    /\ WF_vars(RecoveryDeleted)
    /\ WF_vars(PerformReplacement)

Spec == Init /\ [][Next]_vars /\ Fairness
-------------------------------------------------------------------------------
\* Every variable keeps its shape, and an answer is only carried out while
\* its dialog is open.
TypeOK ==
    /\ live \in Snapshot
    /\ session \in 1..(MaxSession + 1)
    /\ persistenceState \in PersistenceState
    /\ fileBinding \in Files \cup {None}
    /\ savedBaseline \in Snapshot \cup {None}
    /\ files \in [Files -> Snapshot \cup {None}]
    /\ save = None \/ save \in Save
    /\ replaceGuard = None \/ replaceGuard \in Replacement
    /\ continuing = None \/ continuing \in Continuation
    /\ continuing # None => replaceGuard # None

\* A Project that is shown as clean is its baseline and has a file, whatever
\* was saved, replaced or reverted meanwhile: a late answer to an older
\* session's save never marks this one.  Installing may write defaults out.
CleanMatchesBaseline ==
    persistenceState = "clean" =>
        /\ fileBinding # None
        /\ savedBaseline # None
        /\ live \in {savedBaseline, Materialized(savedBaseline)}

\* Within a session the dirty mark goes away only when the bound file holds
\* exactly the live Project, newer edits included.  The one other way is a
\* cancelled first save.
DirtyMarkSurvives ==
    [][(isDirtyWork /\ ~isDirtyWork' /\ session' = session)
       => IF fileBinding' # None
          THEN files'[fileBinding'] = live'
          ELSE CancelSave /\ save.firstSave]_vars

\* Every answer to the guard's dialog is carried out or taken back: the
\* dialog never stays busy, whichever save it waited for and however that
\* save ended.
GuardSettles == (continuing # None) ~> (continuing = None)

\* docs/specs/persistence-and-recovery.md: a cancelled write leaves the dirty
\* state exactly as it was.
CancelledSaveKeepsTheMark ==
    [][(/\ CancelSave
        /\ SaveIsLive
        /\ live.token = save.candidate.token
        /\ save.before \in {"dirty", "failed"})
       => isDirtyWork']_vars
================================================================================
