--------------------------- MODULE CloseGuard_proofs ---------------------------
(***************************************************************************)
(* Proof of the safety of close decisions, for any number of presses.  The *)
(* editor's invariant is the one of ProjectFileLifecycle_proofs; what has  *)
(* to be added is that a save which has written its file stays written,    *)
(* also after the session it belongs to is gone, and that a press which    *)
(* began a Save still waits for that very save.                            *)
(***************************************************************************)
EXTENDS CloseGuard, ProjectFileLifecycle_proofs

\* The candidate of a save that waits for the flush after its write is in a
\* file, whichever session is live by now.
Written ==
    (save # None /\ save.phase = "confirming")
       => \E path \in Files : files[path] = save.candidate

DecisionsOK == decisions \in [Presses -> Decision]

\* A press that began a Save waits for what the window held then.
AskedSave ==
    \A p \in In("saving") :
        decisions[p].joined \/ (save # None /\ SavesWhatWasAsked(decisions[p]))

CloseInv == IInv /\ Written /\ DecisionsOK /\ AskedSave

-------------------------------------------------------------------------------
LEMMA HereIsWork == IInv => Here \in Work
  BY DEF IInv, WorkInv, WorkOK, Here, Work, Snapshot

\* Nothing writes to the files between a save's write and its confirmation.
LEMMA WrittenStays ==
    ASSUME IInv, Written,
           \/ UNCHANGED <<files, save>>
           \/ save' = None
           \/ (\E saveAs \in BOOLEAN : StartSave(saveAs)) /\ UNCHANGED files
           \/ \E path \in Files : WriteSaved(path)
    PROVE  Written'
<1>1. CASE UNCHANGED <<files, save>> \/ save' = None
  BY <1>1 DEF Written
<1>2. CASE (\E saveAs \in BOOLEAN : StartSave(saveAs)) /\ UNCHANGED files
  BY <1>2 DEF Written, StartSave
<1>3. ASSUME NEW path \in Files, WriteSaved(path) PROVE Written'
  <2>1. save \in Save /\ files'[path] = save.candidate
    BY <1>3 DEF IInv, WorkInv, WorkOK, WriteSaved
  <2>2. save' = None \/ save'.candidate = save.candidate
    BY <1>3, <2>1 DEF WriteSaved, Settled, Save
  <2> QED
    BY <2>1, <2>2 DEF Written
<1> QED
  BY <1>1, <1>2, <1>3

\* What the shell hands over keeps the editor's invariant at any time.
LEMMA HandedKeeps ==
    ASSUME IInv, session < MaxSession, NEW r \in ShellRequests, GuardDirtyReplacement(r)
    PROVE  IInv'
  BY ShellRequestsConsistent, GuardedKeeps, RequestKeeps DEF IInv

\* The one save the shell asks for itself.
LEMMA AskedSaveKeeps ==
    ASSUME IInv, StartSave(FALSE), UNCHANGED <<files, replaceGuard, continuing>>
    PROVE  IInv'
<1>1. UNCHANGED session
  BY DEF StartSave, workVars
<1> QED
  BY <1>1, StartSaveKeeps, AnswerKeeps DEF IInv

-------------------------------------------------------------------------------
LEMMA DecisionSteps ==
    ASSUME DecisionsOK, IInv, NEW p \in Presses
    PROVE  /\ \A phase \in {"reading", "asking", "reporting", "closing"} :
                 Phase(p, phase) => DecisionsOK'
           /\ decisions' = [decisions EXCEPT ![p] = Idle] => DecisionsOK'
           /\ decisions' = [decisions EXCEPT ![p] =
                 [phase |-> "saving", asked |-> Here, joined |-> save # None]]
              => DecisionsOK'
<1>1. Idle \in Decision
  BY DEF Idle, Decision
<1>2. decisions[p] \in Decision
  BY DEF DecisionsOK
<1>3. \A phase \in {"reading", "asking", "reporting", "closing"} :
         [decisions[p] EXCEPT !.phase = phase] \in Decision
  BY <1>2 DEF Decision
<1>4. [phase |-> "saving", asked |-> Here, joined |-> save # None] \in Decision
  BY HereIsWork DEF Decision
<1> QED
  BY <1>1, <1>3, <1>4 DEF DecisionsOK, Phase

LEMMA AttemptSteps ==
    ASSUME DecisionsOK, NEW outcome \in {"saved", "failed", "cancelled"},
           SaveAttempt(outcome)
    PROVE  DecisionsOK'
<1>1. Idle \in Decision
  BY DEF Idle, Decision
<1>2. \A p \in Presses : /\ decisions[p] \in Decision
                         /\ [decisions[p] EXCEPT !.phase = "closing", !.joined = FALSE] \in Decision
                         /\ [Idle EXCEPT !.phase = "reporting"] \in Decision
  BY DEF DecisionsOK, Decision, Idle
<1> QED
  BY <1>1, <1>2 DEF DecisionsOK, SaveAttempt

\* The save a press began stays the one it waits for: a save is only begun
\* while there is none, and a step of it keeps its candidate and its session.
LEMMA AskedSaveStays ==
    ASSUME AskedSave, DecisionsOK,
           \/ UNCHANGED save
           \/ \E saveAs \in BOOLEAN : StartSave(saveAs)
           \/ IInv /\ save' # None /\ \E path \in Files : WriteSaved(path),
           \A p \in Presses : decisions'[p].phase = "saving" => decisions'[p] = decisions[p]
    PROVE  AskedSave'
<1> SUFFICES ASSUME NEW p \in Presses, decisions'[p].phase = "saving"
             PROVE  decisions'[p].joined \/ (save' # None /\ SavesWhatWasAsked(decisions[p])')
  BY DEF AskedSave, In
<1>1. decisions[p].joined \/ (save # None /\ SavesWhatWasAsked(decisions[p]))
  BY DEF AskedSave, In
<1>2. CASE UNCHANGED save \/ decisions[p].joined
  BY <1>1, <1>2 DEF SavesWhatWasAsked
<1>3. CASE (\E saveAs \in BOOLEAN : StartSave(saveAs)) /\ save # None
  BY <1>1, <1>3 DEF StartSave, SavesWhatWasAsked
<1>4. CASE IInv /\ save' # None /\ \E path \in Files : WriteSaved(path)
  <2>1. save # None /\ save \in Save
    BY <1>4 DEF IInv, WorkInv, WorkOK, WriteSaved
  <2>2. save' = [save EXCEPT !.phase = "confirming"]
    BY <1>4 DEF WriteSaved, Settled
  <2>3. save'.session = save.session /\ save'.candidate = save.candidate
    BY <2>1, <2>2 DEF Save
  <2> QED
    BY <1>1, <1>4, <2>3 DEF SavesWhatWasAsked
<1> QED
  BY <1>1, <1>2, <1>3, <1>4

\* When a save settles nobody waits for it any more.
LEMMA AttemptEndsWaiting ==
    ASSUME DecisionsOK, NEW outcome, SaveAttempt(outcome)
    PROVE  AskedSave'
<1>1. \A p \in Presses : decisions'[p].phase # "saving"
  BY DEF SaveAttempt, DecisionsOK, Decision, In, Idle
<1> QED
  BY <1>1 DEF AskedSave, In

LEMMA CloseInitInvariant == CloseInit => CloseInv
<1> SUFFICES ASSUME CloseInit PROVE CloseInv
  OBVIOUS
<1>1. IInv
  BY InitInvariant DEF CloseInit
<1>2. Written
  BY DEF CloseInit, Init, Written
<1>3. DecisionsOK
  BY DEF CloseInit, DecisionsOK, Idle, Decision
<1>4. AskedSave
  BY DEF CloseInit, AskedSave, In, Idle
<1> QED
  BY <1>1, <1>2, <1>3, <1>4 DEF CloseInv

\* A press, a message box and the window leave the editor alone.
LEMMA PressKeeps ==
    ASSUME CloseInv, NEW p \in Presses,
           \/ Press(p) \/ ReadState(p) \/ Answer(p) \/ DismissFailure(p) \/ Destroy(p)
    PROVE  CloseInv'
<1> USE DEF CloseInv
<1>1. CASE AnswerSave(p) /\ page # "gone"
  <2>1. StartSave(FALSE) /\ UNCHANGED <<files, replaceGuard, continuing>>
    BY <1>1 DEF AnswerSave
  <2>2. IInv' /\ Written'
    BY <2>1, AskedSaveKeeps, WrittenStays
  <2>3. DecisionsOK'
    BY <1>1, DecisionSteps DEF AnswerSave
  <2>4. AskedSave'
    <3> SUFFICES ASSUME NEW q \in Presses, decisions'[q].phase = "saving"
                 PROVE  decisions'[q].joined
                          \/ (save' # None /\ SavesWhatWasAsked(decisions[q])')
      BY DEF AskedSave, In, SavesWhatWasAsked
    <3>1. CASE q = p
      <4>1. decisions'[q] = [phase |-> "saving", asked |-> Here, joined |-> save # None]
        BY <1>1, <3>1 DEF AnswerSave, DecisionsOK
      <4>2. CASE save = None
        <5>1. save'.session = session /\ save'.candidate = live
          BY <2>1, <4>2 DEF StartSave
        <5>2. save' \in Save
          <6>1. save' = [phase |-> "writing", session |-> session, candidate |-> live,
                         fileBinding |-> fileBinding,
                         firstSave |-> fileBinding = None /\ savedBaseline = None,
                         saveAs |-> FALSE, before |-> persistenceState]
            BY <2>1, <4>2 DEF StartSave
          <6>2. WorkOK
            BY DEF IInv, WorkInv
          <6> QED
            BY <6>1, <6>2 DEF WorkOK, Save
        <5>3. save' # None
          BY <5>2, NoneIsApart
        <5> QED
          BY <4>1, <5>1, <5>3 DEF SavesWhatWasAsked, Here
      <4>3. CASE save # None
        <5>1. decisions'[q].joined = (save # None)
          BY <4>1
        <5> QED
          BY <4>3, <5>1
      <4> QED
        BY <4>2, <4>3
    <3>2. CASE q # p
      <4>1. decisions'[q] = decisions[q]
        BY <1>1, <3>2 DEF AnswerSave, DecisionsOK
      <4>2. decisions[q].joined \/ (save # None /\ SavesWhatWasAsked(decisions[q]))
        BY <4>1 DEF AskedSave, In
      <4> QED
        BY <2>1, <4>1, <4>2 DEF StartSave, SavesWhatWasAsked
    <3> QED
      BY <3>1, <3>2
  <2> QED
    BY <2>2, <2>3, <2>4
<1>2. CASE ~(AnswerSave(p) /\ page # "gone")
  <2>1. UNCHANGED vars
    BY <1>2 DEF Press, ReadState, Answer, AnswerCancel, AnswerDiscard, AnswerSave,
                DismissFailure, Destroy, vars
  <2>2. IInv' /\ Written'
    BY <2>1, StepInvariant, WrittenStays DEF vars
  <2>3. DecisionsOK'
    BY <1>2, DecisionSteps
       DEF Press, ReadState, Answer, AnswerCancel, AnswerDiscard, AnswerSave,
           DismissFailure, Destroy, Approve, DecisionsOK
  <2>4. \A q \in Presses : decisions'[q].phase = "saving" => decisions'[q] = decisions[q]
    <3>1. ASSUME NEW phase \in {"reading", "asking", "reporting", "closing"}, Phase(p, phase)
          PROVE  \A q \in Presses : decisions'[q].phase = "saving"
                                       => decisions'[q] = decisions[q]
      BY <3>1 DEF Phase, DecisionsOK, Decision
    <3>2. ASSUME decisions' = [decisions EXCEPT ![p] = Idle]
          PROVE  \A q \in Presses : decisions'[q].phase = "saving"
                                       => decisions'[q] = decisions[q]
      BY <3>2 DEF Idle, DecisionsOK
    <3>3. \/ \E phase \in {"reading", "asking", "reporting", "closing"} : Phase(p, phase)
          \/ decisions' = [decisions EXCEPT ![p] = Idle]
          \/ UNCHANGED decisions
      BY <1>2 DEF Press, ReadState, Answer, AnswerCancel, AnswerDiscard, AnswerSave,
                  DismissFailure, Destroy, Approve
    <3> QED
      BY <3>1, <3>2, <3>3
  <2>5. AskedSave'
    BY <2>1, <2>4, AskedSaveStays DEF vars
  <2> QED
    BY <2>2, <2>3, <2>5
<1> QED
  BY <1>1, <1>2

\* What the page does is a step of the editor; a save that ends is heard by
\* every press that waited for it.
LEMMA PageKeeps ==
    ASSUME CloseInv,
           PageWrites \/ PageConfirms \/ PageContinues \/ PageInput \/ PageRequested
    PROVE  CloseInv'
<1> USE DEF CloseInv
<1>1. CASE PageWrites
  <2>1. Next /\ ((\E path \in Files : WriteSaved(path)) \/ save' = None)
    BY <1>1 DEF PageWrites, Next, FailSave, CancelSave, Settled
  <2>2. IInv' /\ Written'
    BY <2>1, StepInvariant, WrittenStays
  <2>3. DecisionsOK'
    BY <1>1, AttemptSteps DEF PageWrites, DecisionsOK
  <2>4. AskedSave'
    BY <1>1, AskedSaveStays, AttemptEndsWaiting DEF PageWrites
  <2> QED
    BY <2>2, <2>3, <2>4
<1>2. CASE PageConfirms
  <2>1. Next /\ save' = None
    BY <1>2 DEF PageConfirms, Next, ConfirmSave, Settled
  <2>2. IInv' /\ Written'
    BY <2>1, StepInvariant, WrittenStays
  <2>3. DecisionsOK'
    BY <1>2, AttemptSteps DEF PageConfirms
  <2>4. AskedSave'
    BY <1>2, AttemptEndsWaiting DEF PageConfirms
  <2> QED
    BY <2>2, <2>3, <2>4
<1>3. CASE PageContinues
  <2>1. Next /\ UNCHANGED <<files, save, decisions>>
    BY <1>3 DEF PageContinues, Next, RecoveryDeleted, PerformReplacement
  <2> QED
    BY <2>1, StepInvariant, WrittenStays, AskedSaveStays DEF DecisionsOK
<1>4. CASE PageInput
  <2>1. Next /\ UNCHANGED decisions
    BY <1>4 DEF PageInput, Next
  <2>2. \/ UNCHANGED <<files, save>>
        \/ (\E saveAs \in BOOLEAN : StartSave(saveAs)) /\ UNCHANGED files
    BY <1>4 DEF PageInput, CommitEdit, SaveCommand, Request, GuardDirtyReplacement,
                CancelReplaceGuard, ConfirmReplaceGuard, SaveAndContinue
  <2> QED
    BY <2>1, <2>2, StepInvariant, WrittenStays, AskedSaveStays DEF DecisionsOK
<1>5. CASE PageRequested
  <2>1. PICK r \in ShellRequests : GuardDirtyReplacement(r)
    BY <1>5 DEF PageRequested
  <2>2. session < MaxSession /\ UNCHANGED <<files, save, decisions>>
    BY <1>5, <2>1 DEF PageRequested, GuardDirtyReplacement
  <2> QED
    BY <2>1, <2>2, HandedKeeps, WrittenStays, AskedSaveStays DEF DecisionsOK
<1> QED
  BY <1>1, <1>2, <1>3, <1>4, <1>5

LEMMA CloseStepInvariant == CloseInv /\ [CloseNext]_closeVars => CloseInv'
<1> SUFFICES ASSUME CloseInv, [CloseNext]_closeVars PROVE CloseInv'
  OBVIOUS
<1>1. CASE PageGone
  <2>1. UNCHANGED vars
    BY <1>1 DEF PageGone
  <2>2. IInv' /\ Written'
    BY <2>1, StepInvariant, WrittenStays DEF CloseInv, vars
  <2>3. [Idle EXCEPT !.phase = "reporting"] \in Decision
    BY DEF Idle, Decision
  <2>4. DecisionsOK'
    BY <1>1, <2>3 DEF CloseInv, DecisionsOK, PageGone
  <2>5. AskedSave'
    BY <1>1, <2>4 DEF PageGone, CloseInv, DecisionsOK, Decision, AskedSave, In
  <2> QED
    BY <2>2, <2>4, <2>5 DEF CloseInv
<1>2. CASE PressAgain \/ UNCHANGED closeVars
  <2>1. UNCHANGED <<vars, decisions>>
    BY <1>2 DEF PressAgain, closeVars
  <2> QED
    BY <2>1, StepInvariant, WrittenStays, AskedSaveStays DEF CloseInv, DecisionsOK, vars
<1> QED
  BY <1>1, <1>2, PressKeeps, PageKeeps DEF CloseNext

LEMMA CloseInvariant == CloseSpec => []CloseInv
  BY CloseInitInvariant, CloseStepInvariant, PTL DEF CloseSpec

-------------------------------------------------------------------------------
\* The save a press waited for is heard as saved only once its candidate is in
\* a file, which in the live session is the bound one.
LEMMA SavedIsWritten ==
    ASSUME CloseInv,
           \/ PageConfirms
           \/ (\E path \in Files : WriteSaved(path)) /\ save' = None
    PROVE  SaveIsWritten
<1> USE DEF CloseInv, SaveIsWritten
<1>1. CASE PageConfirms
  <2>1. /\ save # None /\ save.phase = "confirming"
        /\ UNCHANGED <<files, fileBinding>>
    BY <1>1 DEF PageConfirms, ConfirmSave
  <2>2. CASE SaveIsLive
    <3>1. fileBinding \in Files /\ files[fileBinding] = save.candidate
      BY <2>1, <2>2 DEF IInv, WorkInv, SaveBehind
    <3> QED
      BY <2>1, <3>1
  <2>3. CASE ~SaveIsLive
    <3>1. PICK path \in Files : files[path] = save.candidate
      BY <2>1 DEF Written
    <3> QED
      BY <2>1, <2>3, <3>1 DEF SaveIsLive
  <2> QED
    BY <2>2, <2>3 DEF SaveIsLive
<1>2. ASSUME NEW path \in Files, WriteSaved(path), save' = None
      PROVE  files'[path] = save.candidate /\ save.session # session
  <2>1. files \in [Files -> Snapshot \cup {None}] /\ save \in Save
    BY <1>2 DEF IInv, WorkInv, WorkOK, WriteSaved
  <2>2. ~SaveIsLive
    <3>1. [save EXCEPT !.phase = "confirming"] \in Save
      BY <2>1 DEF Save
    <3> QED
      BY <1>2, <3>1, NoneIsApart DEF WriteSaved
  <2> QED
    BY <1>2, <2>1, <2>2 DEF WriteSaved, SaveIsLive
<1> QED
  BY <1>1, <1>2 DEF SaveIsLive

\* Unsaved work is closed over only when Don't Save was pressed, or when the
\* Save a press waited for is in a file; a Save the press itself began is of
\* the Project and the edit it was answered for.
THEOREM WorkIsGivenUp == CloseSpec => DroppedWorkWasGivenUp
<1> DEFINE GivenUp(p) ==
        \/ AnswerDiscard(p)
        \/ /\ decisions[p].phase = "saving"
           /\ SaveIsWritten
           /\ decisions[p].joined \/ SavesWhatWasAsked(decisions[p])
<1>1. ASSUME CloseInv, [CloseNext]_closeVars, NEW p \in Presses,
             decisions[p].phase # "closing",
             decisions'[p].phase = "closing",
             page = "up",
             hasUnsafeWork'
      PROVE  GivenUp(p)
  <2>0. decisions[p].phase = "saving"
          => decisions[p].joined \/ SavesWhatWasAsked(decisions[p])
    BY <1>1 DEF CloseInv, AskedSave, In
  <2>1. decisions \in [Presses -> Decision] /\ decisions' # decisions
    BY <1>1 DEF CloseInv, DecisionsOK
  <2>2. ASSUME NEW q \in Presses, NEW phase,
               Phase(q, phase) \/ decisions' = [decisions EXCEPT ![q] = Idle]
                 \/ decisions' = [decisions EXCEPT ![q] =
                       [phase |-> "saving", asked |-> Here, joined |-> save # None]]
        PROVE  q = p /\ Phase(p, phase) /\ phase = "closing"
    BY <1>1, <2>1, <2>2 DEF Phase, Idle, Decision
  <2>3. ASSUME NEW q \in Presses,
               Press(q) \/ ReadState(q) \/ Answer(q) \/ DismissFailure(q) \/ Destroy(q)
        PROVE  AnswerDiscard(p)
    <3>1. CASE AnswerDiscard(q)
      BY <2>2, <3>1 DEF AnswerDiscard, Approve
    <3>2. CASE ReadState(q)
      <4>1. UNCHANGED vars
        BY <3>2 DEF ReadState
      <4>2. hasUnsafeWork
        BY <1>1, <4>1 DEF vars, workVars, hasUnsafeWork, isDirtyWork
      <4> QED
        BY <1>1, <2>1, <2>2, <3>2, <4>2 DEF ReadState
    <3>3. CASE Press(q) \/ AnswerCancel(q) \/ AnswerSave(q) \/ DismissFailure(q) \/ Destroy(q)
      BY <2>1, <2>2, <3>3
         DEF Press, AnswerCancel, AnswerSave, DismissFailure, Destroy
    <3> QED
      BY <2>3, <3>1, <3>2, <3>3 DEF Answer
  <2>4. ASSUME NEW outcome \in {"saved", "failed", "cancelled"}, SaveAttempt(outcome)
        PROVE  outcome = "saved" /\ decisions[p].phase = "saving"
    BY <1>1, <2>1, <2>4 DEF SaveAttempt, In, Idle, Decision
  <2>5. CASE PageWrites
    <3>1. /\ decisions[p].phase = "saving"
          /\ (\E path \in Files : WriteSaved(path)) /\ save' = None
      BY <2>1, <2>4, <2>5 DEF PageWrites
    <3> QED
      BY <1>1, <2>0, <3>1, SavedIsWritten
  <2>6. CASE PageConfirms
    <3>1. decisions[p].phase = "saving"
      BY <2>4, <2>6 DEF PageConfirms
    <3> QED
      BY <1>1, <2>0, <2>6, <3>1, SavedIsWritten
  <2>7. CASE PageGone
    BY <1>1, <2>1, <2>7 DEF PageGone, Decision
  <2>8. CASE PressAgain \/ PageContinues \/ PageInput \/ PageRequested \/ UNCHANGED closeVars
    BY <2>1, <2>8 DEF PressAgain, PageContinues, PageInput, PageRequested, closeVars
  <2> QED
    BY <1>1, <2>3, <2>5, <2>6, <2>7, <2>8 DEF CloseNext
<1>2. CloseInv /\ [CloseNext]_closeVars =>
         [\A p \in Presses :
            (/\ decisions[p].phase # "closing"
             /\ decisions'[p].phase = "closing"
             /\ page = "up"
             /\ hasUnsafeWork')
            => GivenUp(p)]_closeVars
  BY <1>1
<1> QED
  BY <1>2, CloseInvariant, PTL DEF CloseSpec, DroppedWorkWasGivenUp

-------------------------------------------------------------------------------
\* What the editor promises of its mark it keeps while the shell asks, saves
\* in its name and hands over files behind a message box.

\* A Project shown as clean is its baseline and has a file, also if presses
\* joined or began the save that said so.
THEOREM CleanUnderPresses == CloseSpec => []CleanMatchesBaseline
<1>1. CloseInv => CleanMatchesBaseline
  BY DEF CloseInv, IInv, WorkInv
<1> QED
  BY <1>1, CloseInvariant, PTL

\* No press, answer or crash takes the mark off work that is in no file: a
\* close that the shell refuses leaves the editor as it was.
THEOREM MarkSurvivesPresses == CloseSpec => DirtyMarkSurvives
<1>1. ASSUME CloseInv, CloseNext, isDirtyWork, ~isDirtyWork', session' = session
      PROVE  IF fileBinding' # None
             THEN files'[fileBinding'] = live'
             ELSE CancelSave /\ save.firstSave
  <2>1. CASE Next
    BY <1>1, <2>1, MarkIsTaken DEF CloseInv
  <2>2. CASE UNCHANGED persistenceState
    BY <1>1, <2>2 DEF isDirtyWork
  <2>3. ASSUME StartSave(FALSE) PROVE FALSE
    BY <1>1, <2>3 DEF StartSave, workVars, isDirtyWork
  <2>4. ASSUME NEW r, GuardDirtyReplacement(r) PROVE FALSE
    BY <1>1, <2>4 DEF GuardDirtyReplacement, Install, workVars, isDirtyWork,
                      CloseInv, IInv, Bounded
  <2>5. ASSUME NEW p \in Presses,
               Press(p) \/ ReadState(p) \/ Answer(p) \/ DismissFailure(p) \/ Destroy(p)
        PROVE  UNCHANGED persistenceState
    BY <2>3, <2>5 DEF Press, ReadState, Answer, AnswerCancel, AnswerDiscard, AnswerSave,
                      DismissFailure, Destroy, vars, workVars
  <2>6. CASE PressAgain \/ PageGone
    BY <2>2, <2>6 DEF PressAgain, PageGone, vars, workVars
  <2>7. CASE PageWrites \/ PageConfirms \/ PageContinues \/ PageInput
    BY <2>1, <2>7 DEF PageWrites, PageConfirms, PageContinues, PageInput, Next
  <2>8. CASE PageRequested
    BY <2>4, <2>8 DEF PageRequested
  <2> QED
    BY <1>1, <2>2, <2>5, <2>6, <2>7, <2>8 DEF CloseNext
<1>2. CloseInv /\ [CloseNext]_closeVars =>
         [(isDirtyWork /\ ~isDirtyWork' /\ session' = session)
          => IF fileBinding' # None
             THEN files'[fileBinding'] = live'
             ELSE CancelSave /\ save.firstSave]_vars
  BY <1>1 DEF closeVars, vars, workVars, isDirtyWork
<1> QED
  BY <1>2, CloseInvariant, PTL DEF CloseSpec, DirtyMarkSurvives
================================================================================
