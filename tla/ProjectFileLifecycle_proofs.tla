---------------------- MODULE ProjectFileLifecycle_proofs ----------------------
(***************************************************************************)
(* Proofs about ProjectFileLifecycle, for any contents, files, records and *)
(* bounds.  The inductive invariant says how the live Project, its         *)
(* baseline, its binding and the save in flight stand to each other.       *)
(***************************************************************************)
EXTENDS ProjectFileLifecycle, TLAPS

\* p is an earlier state of the live Project, or the live Project itself.
Behind(p) == p = live \/ p.token < live.token

\* A replacement brings a baseline only with the file that holds it, and is
\* clean only with a baseline.
Consistent(r) ==
    /\ r.savedBaseline # None =>
          r.savedBaseline = r.project /\ r.fileBinding # None
    /\ r.persistenceState = "clean" => r.savedBaseline # None

\* What the variables of the live session hold.
WorkOK ==
    /\ live \in Snapshot
    /\ session \in Nat
    /\ persistenceState \in PersistenceState
    /\ fileBinding \in Files \cup {None}
    /\ savedBaseline \in Snapshot \cup {None}
    /\ files \in [Files -> Snapshot \cup {None}]
    /\ save = None \/ save \in Save

\* What the dialog and its answer hold.
GuardOK ==
    /\ replaceGuard = None \/ (replaceGuard \in Replacement /\ Consistent(replaceGuard))
    /\ \/ continuing = None
       \/ /\ continuing \in Continuation
          /\ Consistent(continuing.perform)
          /\ replaceGuard # None

\* Only an open dialog can still end a session at the bound.
Bounded ==
    /\ session \in 1..(MaxSession + 1)
    /\ replaceGuard # None => session <= MaxSession

\* A baseline has a file and is no newer than the live Project.
BaselineBehind ==
    savedBaseline # None => fileBinding # None /\ Behind(savedBaseline)

\* The save in flight belongs to no later session; one of this session keeps
\* the mark dirty, its candidate is no newer than the live Project, the
\* binding is the one it started from until it has written, and the file and
\* the baseline are its candidate since.
SaveBehind ==
    save # None =>
       /\ save.session <= session
       /\ SaveIsLive =>
            /\ isDirtyWork
            /\ Behind(save.candidate)
            /\ save.phase = "writing" =>
                 fileBinding = save.fileBinding /\ (save.firstSave => fileBinding = None)
            /\ save.phase = "confirming" =>
                 /\ fileBinding \in Files
                 /\ files[fileBinding] = save.candidate
                 /\ savedBaseline = save.candidate

\* The part of the invariant that the dialog has no say in.
WorkInv == WorkOK /\ BaselineBehind /\ SaveBehind /\ CleanMatchesBaseline

IInv == WorkInv /\ GuardOK /\ Bounded

-------------------------------------------------------------------------------
LEMMA NoneIsApart ==
    /\ None \notin Files /\ None \notin Snapshot
    /\ None \notin Replacement /\ None \notin Save /\ None \notin Continuation
  BY LifecycleAssumption

\* Writing defaults out is an edit: the token moves, never back.
LEMMA MaterializedSnapshot ==
    ASSUME NEW p \in Snapshot
    PROVE  /\ Materialized(p) \in Snapshot
           /\ Materialized(p) = p \/ p.token < Materialized(p).token
<1>1. p.token \in Nat /\ Completed[p.content] \in Contents
  BY LifecycleAssumption DEF Snapshot
<1> QED
  BY <1>1 DEF Materialized, Snapshot

\* What is installed starts a session that satisfies the invariant: its
\* baseline is the Project that was read, and no save belongs to it.
LEMMA InstallKeeps ==
    ASSUME WorkInv, NEW r \in Replacement, Consistent(r), Install(r),
           UNCHANGED <<files, save>>
    PROVE  WorkInv'
<1> USE NoneIsApart
<1>1. /\ r.project \in Snapshot
      /\ r.persistenceState \in PersistenceState
      /\ r.fileBinding \in Files \cup {None}
      /\ r.savedBaseline \in Snapshot \cup {None}
  BY DEF Replacement
<1>2. live' \in Snapshot /\ (live' = r.project \/ r.project.token < live'.token)
  BY <1>1, MaterializedSnapshot DEF Install
<1>3. WorkOK'
  BY <1>1, <1>2 DEF WorkInv, WorkOK, Install
<1>4. BaselineBehind'
  BY <1>2 DEF Install, Consistent, BaselineBehind, Behind
<1>5. SaveBehind'
  <2>1. save # None => save.session <= session /\ session \in Nat /\ save.session \in Nat
    BY DEF WorkInv, SaveBehind, WorkOK, Save
  <2> QED
    BY <2>1 DEF Install, SaveBehind, SaveIsLive
<1>6. CleanMatchesBaseline'
  BY DEF Install, Consistent, CleanMatchesBaseline
<1> QED
  BY <1>3, <1>4, <1>5, <1>6 DEF WorkInv

\* Every replacement that can be asked for is consistent.
LEMMA NewProjectConsistent == NewProject \in Replacement /\ Consistent(NewProject)
  BY LifecycleAssumption
     DEF NewProject, Replacement, Consistent, Snapshot, PersistenceState

LEMMA OpenedConsistent ==
    ASSUME WorkOK, NEW path \in FilesPresent, NEW changed \in BOOLEAN
    PROVE  /\ OpenedFile(path, changed) \in Replacement
           /\ Consistent(OpenedFile(path, changed))
           /\ OpenedCopy(path, changed) \in Replacement
           /\ Consistent(OpenedCopy(path, changed))
<1>1. path \in Files /\ files[path] \in Snapshot
  BY DEF FilesPresent, WorkOK
<1> QED
  BY <1>1, NoneIsApart
     DEF OpenedFile, OpenedCopy, Replacement, Consistent, PersistenceState

LEMMA RecoveredConsistent ==
    ASSUME NEW record \in Recoverable
    PROVE  Recovered(record) \in Replacement /\ Consistent(Recovered(record))
<1>1. record \in [project : Snapshot, fileBinding : Files \cup {None}]
  BY LifecycleAssumption
<1> QED
  BY <1>1 DEF Recovered, Replacement, Consistent, PersistenceState

LEMMA RevertedConsistent ==
    ASSUME WorkOK, BaselineBehind, savedBaseline # None
    PROVE  Reverted \in Replacement /\ Consistent(Reverted)
  BY DEF WorkOK, BaselineBehind, Reverted, Replacement, Consistent, PersistenceState

LEMMA ShellRequestsConsistent ==
    ASSUME WorkInv, NEW r \in ShellRequests
    PROVE  r \in Replacement /\ Consistent(r)
  BY OpenedConsistent DEF ShellRequests, WorkInv

LEMMA RequestsConsistent ==
    ASSUME WorkInv, NEW r \in Requests
    PROVE  r \in Replacement /\ Consistent(r)
  BY NewProjectConsistent, OpenedConsistent, RecoveredConsistent, RevertedConsistent
     DEF Requests, WorkInv

-------------------------------------------------------------------------------
LEMMA InitWork == Init => WorkInv
<1> SUFFICES ASSUME Init PROVE WorkInv
  OBVIOUS
<1>1. WorkOK
  BY LifecycleAssumption DEF Init, WorkOK, Snapshot, PersistenceState
<1>2. BaselineBehind /\ SaveBehind /\ CleanMatchesBaseline
  BY DEF Init, BaselineBehind, SaveBehind, CleanMatchesBaseline
<1> QED
  BY <1>1, <1>2 DEF WorkInv

\* An edit moves the token past the baseline and the candidate, so it never
\* finds its own state there: it always leaves the Project dirty.
LEMMA EditKeeps ==
    ASSUME WorkInv, NEW content \in Contents, CommitEdit(content)
    PROVE  WorkInv' /\ persistenceState' = "dirty"
<1>1. live \in Snapshot /\ live.token \in Nat /\ live'.token = live.token + 1
  BY DEF WorkInv, WorkOK, CommitEdit, Snapshot
<1>2. \A p \in Snapshot : Behind(p) => p.token < live'.token
  BY <1>1 DEF Behind, Snapshot
<1>3. persistenceState' = "dirty"
  BY <1>1, <1>2 DEF WorkInv, WorkOK, BaselineBehind, CommitEdit
<1>4. WorkOK'
  BY <1>1, <1>3 DEF WorkInv, WorkOK, CommitEdit, Snapshot, PersistenceState
<1>5. BaselineBehind'
  BY <1>2 DEF WorkInv, WorkOK, BaselineBehind, CommitEdit, Behind
<1>6. SaveBehind'
  <2>1. save # None => save.candidate \in Snapshot
    BY DEF WorkInv, WorkOK, Save
  <2>2. save # None /\ SaveIsLive => Behind(save.candidate)'
    BY <1>2, <2>1 DEF WorkInv, SaveBehind, CommitEdit, Behind
  <2> QED
    BY <1>3, <2>2 DEF WorkInv, SaveBehind, SaveIsLive, CommitEdit, isDirtyWork
<1>7. CleanMatchesBaseline'
  BY <1>3 DEF CleanMatchesBaseline
<1> QED
  BY <1>3, <1>4, <1>5, <1>6, <1>7 DEF WorkInv

\* A save starts from the live Project and marks it.
LEMMA StartSaveKeeps ==
    ASSUME WorkInv, NEW saveAs \in BOOLEAN, StartSave(saveAs), UNCHANGED files
    PROVE  WorkInv'
<1>1. CASE save # None
  BY <1>1 DEF WorkInv, WorkOK, BaselineBehind, SaveBehind, CleanMatchesBaseline,
              StartSave, workVars, Behind, SaveIsLive, isDirtyWork, Materialized
<1>2. CASE save = None
  <2>1. /\ UNCHANGED <<live, session, fileBinding, savedBaseline>>
        /\ persistenceState' = "saving"
        /\ save' = [phase |-> "writing", session |-> session, candidate |-> live,
                    fileBinding |-> fileBinding,
                    firstSave |-> fileBinding = None /\ savedBaseline = None,
                    saveAs |-> saveAs, before |-> persistenceState]
    BY <1>2 DEF StartSave
  <2>2. save' \in Save
    BY <2>1 DEF WorkInv, WorkOK, Save
  <2>3. WorkOK'
    BY <2>1, <2>2 DEF WorkInv, WorkOK, PersistenceState
  <2>4. BaselineBehind'
    BY <2>1 DEF WorkInv, BaselineBehind, Behind
  <2>5. SaveBehind'
    <3>1. /\ save'.phase = "writing" /\ save'.session = session
          /\ save'.candidate = live /\ save'.fileBinding = fileBinding
      BY <2>1
    <3>2. save'.firstSave => fileBinding = None
      BY <2>1
    <3>3. session \in Nat
      BY DEF WorkInv, WorkOK
    <3> QED
      BY <2>1, <3>1, <3>2, <3>3 DEF SaveBehind, isDirtyWork, Behind
  <2>6. CleanMatchesBaseline'
    BY <2>1 DEF CleanMatchesBaseline
  <2> QED
    BY <2>3, <2>4, <2>5, <2>6 DEF WorkInv
<1> QED
  BY <1>1, <1>2

\* The write puts the candidate into the file, and in its own session makes
\* that file the binding and the candidate the baseline.
LEMMA WriteKeeps ==
    ASSUME WorkInv, NEW path \in Files, WriteSaved(path)
    PROVE  WorkInv'
<1> USE NoneIsApart
<1>1. save \in Save /\ save.candidate \in Snapshot
  BY DEF WorkInv, WorkOK, WriteSaved, Save
<1>2. /\ files' \in [Files -> Snapshot \cup {None}]
      /\ files'[path] = save.candidate
  BY <1>1 DEF WorkInv, WorkOK, WriteSaved
<1>3. CASE SaveIsLive
  <2>1. /\ fileBinding' = path
        /\ savedBaseline' = save.candidate
        /\ save' = [save EXCEPT !.phase = "confirming"]
        /\ UNCHANGED <<live, session, persistenceState>>
    BY <1>3 DEF WriteSaved
  <2>2. /\ save' \in Save
        /\ save'.phase = "confirming"
        /\ save'.session = save.session
        /\ save'.candidate = save.candidate
    BY <1>1, <2>1 DEF Save
  <2>3. isDirtyWork /\ Behind(save.candidate) /\ save.session <= session
    BY <1>3 DEF WorkInv, SaveBehind, WriteSaved
  <2>4. WorkOK'
    BY <1>1, <1>2, <2>1, <2>2 DEF WorkInv, WorkOK
  <2>5. BaselineBehind'
    BY <2>1, <2>3 DEF BaselineBehind, Behind
  <2>6. SaveBehind'
    BY <1>2, <2>1, <2>2, <2>3 DEF SaveBehind, SaveIsLive, isDirtyWork, Behind
  <2>7. CleanMatchesBaseline'
    BY <2>1, <2>3 DEF CleanMatchesBaseline, isDirtyWork
  <2> QED
    BY <2>4, <2>5, <2>6, <2>7 DEF WorkInv
<1>4. CASE ~SaveIsLive
  <2>1. save' = None /\ UNCHANGED workVars
    BY <1>4 DEF WriteSaved, Settled, workVars
  <2>2. WorkOK'
    BY <1>2, <2>1 DEF WorkInv, WorkOK, workVars
  <2> QED
    BY <2>1, <2>2 DEF WorkInv, BaselineBehind, SaveBehind, CleanMatchesBaseline,
                      workVars, Behind, Materialized
<1> QED
  BY <1>3, <1>4

\* A save that ends, well or not, leaves the invariant: the mark it sets is
\* clean only when its candidate is the live Project.
LEMMA EndOfSaveKeeps ==
    ASSUME WorkInv, save # None, save' = None,
           UNCHANGED <<live, session, fileBinding, savedBaseline, files>>,
           persistenceState' \in PersistenceState,
           \/ persistenceState' = persistenceState
           \/ persistenceState' # "clean"
           \/ /\ SaveIsLive
              /\ save.phase = "confirming"
              /\ live.token = save.candidate.token
    PROVE  WorkInv'
<1>1. WorkOK'
  BY DEF WorkInv, WorkOK
<1>2. BaselineBehind' /\ SaveBehind'
  BY DEF WorkInv, BaselineBehind, SaveBehind, Behind
<1>3. CleanMatchesBaseline'
  <2>1. CASE persistenceState' = persistenceState \/ persistenceState' # "clean"
    BY <2>1 DEF WorkInv, CleanMatchesBaseline, Materialized
  <2>2. CASE SaveIsLive /\ save.phase = "confirming" /\ live.token = save.candidate.token
    <3>1. savedBaseline = save.candidate /\ fileBinding \in Files
          /\ Behind(save.candidate)
      BY <2>2 DEF WorkInv, SaveBehind
    <3>2. live = save.candidate /\ save.candidate \in Snapshot
      BY <2>2, <3>1 DEF WorkInv, WorkOK, Behind, Snapshot, Save
    <3> QED
      BY <3>1, <3>2, NoneIsApart DEF CleanMatchesBaseline
  <2> QED
    BY <2>1, <2>2
<1> QED
  BY <1>1, <1>2, <1>3 DEF WorkInv

LEMMA SettlingKeeps ==
    ASSUME WorkInv, ConfirmSave \/ FailSave \/ CancelSave
    PROVE  WorkInv'
<1>1. /\ save # None /\ save' = None
      /\ UNCHANGED <<live, session, fileBinding, savedBaseline, files>>
      /\ persistenceState \in PersistenceState
  BY DEF WorkInv, WorkOK, ConfirmSave, FailSave, CancelSave, Settled
<1>2. CASE ConfirmSave
  BY <1>1, <1>2, EndOfSaveKeeps DEF ConfirmSave, PersistenceState
<1>3. CASE FailSave
  BY <1>1, <1>3, EndOfSaveKeeps DEF FailSave, PersistenceState
<1>4. CASE CancelSave
  BY <1>1, <1>4, EndOfSaveKeeps DEF CancelSave, PersistenceState
<1> QED
  BY <1>2, <1>3, <1>4

\* The guard installs a consistent replacement or asks about it.
LEMMA GuardedKeeps ==
    ASSUME WorkInv, NEW r \in Replacement, Consistent(r), GuardDirtyReplacement(r)
    PROVE  WorkInv'
<1>1. CASE hasUnsafeWork
  BY <1>1 DEF GuardDirtyReplacement, WorkInv, WorkOK, BaselineBehind, SaveBehind,
              CleanMatchesBaseline, workVars, Behind, SaveIsLive, isDirtyWork,
              Materialized
<1>2. CASE ~hasUnsafeWork
  BY <1>2, InstallKeeps DEF GuardDirtyReplacement
<1> QED
  BY <1>1, <1>2

\* What the page does by itself keeps the invariant, the replacement an
\* answer is about included.
LEMMA UnchangedKeeps ==
    ASSUME WorkInv, UNCHANGED <<workVars, files, save>>
    PROVE  WorkInv'
  BY DEF WorkInv, WorkOK, BaselineBehind, SaveBehind, CleanMatchesBaseline,
         workVars, Behind, SaveIsLive, isDirtyWork, Materialized

LEMMA PerformKeeps ==
    ASSUME WorkInv, GuardOK, PerformReplacement
    PROVE  WorkInv'
<1>1. continuing \in Continuation /\ Consistent(continuing.perform)
  BY DEF GuardOK, PerformReplacement, At
<1>2. continuing.perform \in Replacement
  BY <1>1 DEF Continuation
<1> QED
  BY <1>1, <1>2, InstallKeeps DEF PerformReplacement

-------------------------------------------------------------------------------
\* The steps after which the dialog and its answer are what they were, or the
\* answer has come one step further or been taken back.
LEMMA AnswerKeeps ==
    ASSUME GuardOK, Bounded, UNCHANGED <<session, replaceGuard>>,
           \/ continuing' = continuing
           \/ continuing' = None
           \/ /\ continuing # None
              /\ continuing' = [continuing EXCEPT !.step = "performing"]
           \/ /\ replaceGuard # None
              /\ \E step \in {"saving", "deleting"} :
                    continuing' = [step |-> step, perform |-> replaceGuard]
    PROVE  GuardOK' /\ Bounded'
<1>1. Bounded'
  BY DEF Bounded
<1>2. CASE continuing' = continuing \/ continuing' = None
  BY <1>1, <1>2 DEF GuardOK, Consistent
<1>3. CASE /\ continuing # None
           /\ continuing' = [continuing EXCEPT !.step = "performing"]
  <2>1. continuing' \in Continuation /\ continuing'.perform = continuing.perform
    BY <1>3 DEF GuardOK, Continuation
  <2> QED
    BY <1>1, <1>3, <2>1 DEF GuardOK, Consistent
<1>4. ASSUME replaceGuard # None, NEW step \in {"saving", "deleting"},
             continuing' = [step |-> step, perform |-> replaceGuard]
      PROVE  GuardOK' /\ Bounded'
  <2>1. continuing' \in Continuation /\ continuing'.perform = replaceGuard
    BY <1>4 DEF GuardOK, Continuation
  <2> QED
    BY <1>1, <1>4, <2>1 DEF GuardOK, Consistent
<1> QED
  BY <1>2, <1>3, <1>4

\* A request opens the dialog, replaces the one that is open, or installs.
LEMMA RequestKeeps ==
    ASSUME GuardOK, Bounded, session < MaxSession,
           NEW r \in Replacement, Consistent(r), GuardDirtyReplacement(r)
    PROVE  GuardOK' /\ Bounded'
<1> USE NoneIsApart
<1>1. continuing' = continuing
  BY DEF GuardDirtyReplacement
<1>2. CASE hasUnsafeWork
  <2>1. replaceGuard' = r /\ session' = session
    BY <1>2 DEF GuardDirtyReplacement, workVars
  <2>2. GuardOK'
    BY <1>1, <2>1 DEF GuardOK, Consistent
  <2>3. Bounded'
    BY <2>1, LifecycleAssumption DEF Bounded
  <2> QED
    BY <2>2, <2>3
<1>3. CASE ~hasUnsafeWork
  <2>1. replaceGuard' = replaceGuard /\ session' = session + 1
    BY <1>3 DEF GuardDirtyReplacement, Install
  <2>2. GuardOK'
    BY <1>1, <2>1 DEF GuardOK, Consistent
  <2>3. Bounded'
    BY <2>1, LifecycleAssumption DEF Bounded
  <2> QED
    BY <2>2, <2>3
<1> QED
  BY <1>2, <1>3

LEMMA PerformEnds ==
    ASSUME GuardOK, Bounded, PerformReplacement
    PROVE  GuardOK' /\ Bounded'
<1>1. replaceGuard # None
  BY DEF GuardOK, PerformReplacement, At
<1>2. session' = session + 1 /\ replaceGuard' = None /\ continuing' = None
  BY DEF PerformReplacement, Install
<1>3. Bounded'
  BY <1>1, <1>2, LifecycleAssumption DEF Bounded
<1> QED
  BY <1>2, <1>3 DEF GuardOK

\* How the end of a save and the other steps move the answer.
LEMMA SavedAnswer ==
    ASSUME (\E path \in Files : WriteSaved(path)) \/ ConfirmSave \/ FailSave \/ CancelSave
    PROVE  /\ UNCHANGED <<live, session, replaceGuard>>
           /\ \/ continuing' = continuing
              \/ continuing' = None
              \/ /\ continuing # None
                 /\ continuing' = [continuing EXCEPT !.step = "performing"]
<1>1. ASSUME NEW saved, Settled(saved)
      PROVE  \/ continuing' = continuing
             \/ continuing' = None
             \/ /\ continuing # None
                /\ continuing' = [continuing EXCEPT !.step = "performing"]
  BY <1>1 DEF Settled, At
<1> QED
  BY <1>1 DEF WriteSaved, ConfirmSave, FailSave, CancelSave

-------------------------------------------------------------------------------
LEMMA InitInvariant == Init => IInv
<1>1. Init => GuardOK /\ Bounded
  BY LifecycleAssumption DEF Init, GuardOK, Bounded
<1> QED
  BY <1>1, InitWork DEF IInv

LEMMA StepInvariant == IInv /\ [Next]_vars => IInv'
<1> SUFFICES ASSUME IInv, [Next]_vars PROVE IInv'
  OBVIOUS
<1> USE DEF IInv
<1>1. ASSUME NEW content \in Contents, CommitEdit(content) PROVE IInv'
  BY <1>1, EditKeeps, AnswerKeeps DEF CommitEdit
<1>2. ASSUME NEW saveAs \in BOOLEAN, SaveCommand(saveAs) PROVE IInv'
  <2>1. UNCHANGED session
    BY <1>2 DEF SaveCommand, StartSave, workVars
  <2> QED
    BY <1>2, <2>1, StartSaveKeeps, AnswerKeeps DEF SaveCommand
<1>3. ASSUME NEW path \in Files, WriteSaved(path) PROVE IInv'
  BY <1>3, WriteKeeps, SavedAnswer, AnswerKeeps
<1>4. CASE ConfirmSave \/ FailSave \/ CancelSave
  BY <1>4, SettlingKeeps, SavedAnswer, AnswerKeeps
<1>5. ASSUME NEW r \in Requests, Request(r) PROVE IInv'
  BY <1>5, RequestsConsistent, GuardedKeeps, RequestKeeps DEF Request
<1>6. ASSUME NEW r \in ShellRequests, ShellRequest(r) PROVE IInv'
  BY <1>6, ShellRequestsConsistent, GuardedKeeps, RequestKeeps DEF ShellRequest
<1>7. CASE CancelReplaceGuard
  <2>1. GuardOK' /\ Bounded'
    BY <1>7 DEF CancelReplaceGuard, GuardOK, Bounded, workVars
  <2> QED
    BY <1>7, <2>1, UnchangedKeeps DEF CancelReplaceGuard
<1>8. CASE ConfirmReplaceGuard \/ RecoveryDeleted
  BY <1>8, UnchangedKeeps, AnswerKeeps
     DEF ConfirmReplaceGuard, RecoveryDeleted, At, workVars
<1>9. CASE SaveAndContinue
  <2>1. UNCHANGED session
    BY <1>9 DEF SaveAndContinue, StartSave, workVars
  <2> QED
    BY <1>9, <2>1, StartSaveKeeps, AnswerKeeps DEF SaveAndContinue
<1>10. CASE PerformReplacement
  BY <1>10, PerformKeeps, PerformEnds
<1>11. CASE UNCHANGED vars
  BY <1>11, UnchangedKeeps, AnswerKeeps DEF vars, workVars
<1> QED
  BY <1>1, <1>2, <1>3, <1>4, <1>5, <1>6, <1>7, <1>8, <1>9, <1>10, <1>11 DEF Next

LEMMA Invariant == Spec => []IInv
  BY InitInvariant, StepInvariant, PTL DEF Spec

\* Every variable keeps its shape, an answer is only carried out while its
\* dialog is open, and the bound on sessions holds in spite of the one
\* replacement a dialog still owes.
THEOREM TypeCorrect == Spec => []TypeOK
<1>1. IInv => TypeOK
  BY DEF IInv, WorkInv, WorkOK, GuardOK, Bounded, TypeOK
<1> QED
  BY <1>1, Invariant, PTL

\* A Project that is shown as clean is its baseline and has a file, however
\* saves, replacements and reverts overlap.
THEOREM CleanIsBaseline == Spec => []CleanMatchesBaseline
<1>1. IInv => CleanMatchesBaseline
  BY DEF IInv, WorkInv
<1> QED
  BY <1>1, Invariant, PTL

-------------------------------------------------------------------------------
\* Without a new session, a mark that stops being dirty was set by a save
\* that confirmed the live Project or by a cancelled first save.
LEMMA MarkLeaves ==
    ASSUME IInv, Next, isDirtyWork, ~isDirtyWork', session' = session
    PROVE  \/ /\ SaveIsLive
              /\ ConfirmSave
              /\ live.token = save.candidate.token
           \/ CancelSave /\ SaveIsLive /\ save.firstSave
<1> USE DEF isDirtyWork
<1>1. ASSUME NEW r, Install(r) PROVE FALSE
  BY <1>1 DEF Install, IInv, Bounded
<1>2. ASSUME NEW content \in Contents, CommitEdit(content) PROVE FALSE
  BY <1>2, EditKeeps DEF IInv
<1>3. ASSUME NEW saveAs \in BOOLEAN, StartSave(saveAs) PROVE FALSE
  BY <1>3 DEF StartSave, workVars
<1>4. ASSUME NEW r, GuardDirtyReplacement(r) PROVE FALSE
  BY <1>1, <1>4 DEF GuardDirtyReplacement, workVars
<1>5. CASE ConfirmSave
  BY <1>5 DEF ConfirmSave
<1>6. CASE CancelSave
  BY <1>6 DEF CancelSave
<1>7. CASE FailSave
  BY <1>7 DEF FailSave
<1>8. CASE UNCHANGED persistenceState
  BY <1>8
<1> QED
  BY <1>1, <1>2, <1>3, <1>4, <1>5, <1>6, <1>7, <1>8
     DEF Next, SaveCommand, WriteSaved, Request, ShellRequest, CancelReplaceGuard,
         ConfirmReplaceGuard, RecoveryDeleted, SaveAndContinue, PerformReplacement,
         workVars

\* In the bound file is then the live Project, or there is no such file.
LEMMA MarkIsTaken ==
    ASSUME IInv, Next, isDirtyWork, ~isDirtyWork', session' = session
    PROVE  IF fileBinding' # None
           THEN files'[fileBinding'] = live'
           ELSE CancelSave /\ save.firstSave
<1>1. CASE SaveIsLive /\ ConfirmSave /\ live.token = save.candidate.token
  <2>1. /\ fileBinding \in Files
        /\ files[fileBinding] = save.candidate
        /\ Behind(save.candidate)
    BY <1>1 DEF IInv, WorkInv, SaveBehind, ConfirmSave
  <2>2. live = save.candidate
    BY <1>1, <2>1 DEF IInv, WorkInv, WorkOK, Behind, Snapshot
  <2>3. UNCHANGED <<live, fileBinding, files>>
    BY <1>1 DEF ConfirmSave
  <2> QED
    BY <2>1, <2>2, <2>3, NoneIsApart
<1>2. CASE CancelSave /\ SaveIsLive /\ save.firstSave
  <2>1. fileBinding = None /\ fileBinding' = fileBinding
    BY <1>2 DEF IInv, WorkInv, SaveBehind, CancelSave
  <2> QED
    BY <1>2, <2>1
<1> QED
  BY <1>1, <1>2, MarkLeaves

\* Within a session the dirty mark goes away only when the bound file holds
\* exactly the live Project, or by a cancelled first save.
THEOREM MarkSurvives == Spec => DirtyMarkSurvives
<1>1. ASSUME IInv, [Next]_vars, isDirtyWork, ~isDirtyWork', session' = session
      PROVE  IF fileBinding' # None
             THEN files'[fileBinding'] = live'
             ELSE CancelSave /\ save.firstSave
  <2>1. Next
    BY <1>1 DEF vars, workVars, isDirtyWork
  <2> QED
    BY <1>1, <2>1, MarkIsTaken
<1>2. IInv /\ [Next]_vars =>
         [(isDirtyWork /\ ~isDirtyWork' /\ session' = session)
          => IF fileBinding' # None
             THEN files'[fileBinding'] = live'
             ELSE CancelSave /\ save.firstSave]_vars
  BY <1>1
<1> QED
  BY <1>2, Invariant, PTL DEF Spec, DirtyMarkSurvives
================================================================================
