------------------------------- MODULE CloseGuard -------------------------------
(***************************************************************************)
(* apps/desktop/src/close-guard.ts and guardWindowClose of main.ts: what   *)
(* the shell asks the editor before a window with unsaved work goes away.  *)
(*                                                                         *)
(* A decision runs in the main process and awaits, in turn, the editor's   *)
(* answer, the person's, and the editor's own Save.  Nothing keeps a       *)
(* second press of the close button out, so decisions overlap with each    *)
(* other as well as with everything ProjectFileLifecycle does.             *)
(***************************************************************************)
EXTENDS ProjectFileLifecycle

CONSTANT Presses   \* presses of the close button that may be undecided at once

VARIABLES page,      \* the renderer: "up", or "gone" after a crash
          window,
          approved,
          decisions  \* how far decideClose has come for each press

closeVars == <<vars, page, window, approved, decisions>>

\* Where the work stood: of which session, after which edit.
Work == [session : Nat, token : Nat]

Here == [session |-> session, token |-> live.token]

\* asked is where the work stood when Save was answered, and joined whether
\* that Save joined one in flight; the code keeps neither.
Decision == [phase  : {"idle", "reading", "asking", "saving", "reporting", "closing"},
             asked  : Work \cup {None},
             joined : BOOLEAN]

Idle == [phase |-> "idle", asked |-> None, joined |-> FALSE]

In(phase) == {p \in Presses : decisions[p].phase = phase}

\* A message box that belongs to the window keeps the person out of the page.
Modal == In("asking") \cup In("reporting") # {}

CloseInit ==
    /\ Init
    /\ page = "up"
    /\ window = "open"
    /\ approved = FALSE
    /\ decisions = [p \in Presses |-> Idle]

-------------------------------------------------------------------------------
Phase(p, phase) == decisions' = [decisions EXCEPT ![p].phase = phase]

\* "close": the size of the window is still to be written.
Approve(p) ==
    /\ approved' = TRUE
    /\ Phase(p, "closing")

\* The close button, or what else closes a window.
Press(p) ==
    /\ ~approved
    /\ ~Modal
    /\ decisions[p].phase = "idle"
    /\ Phase(p, "reading")
    /\ UNCHANGED <<vars, page, window, approved>>

\* After an approval nothing holds the close back but the page's own
\* beforeunload, which refuses it silently while work is unsaved.
PressAgain ==
    /\ approved
    /\ ~Modal
    /\ page = "gone" \/ ~hasUnsafeWork
    /\ window' = "closed"
    /\ UNCHANGED <<vars, page, approved, decisions>>

\* Mutant: an editor that cannot be read keeps the window.
UnansweredStays(p) ==
    /\ decisions[p].phase = "reading"
    /\ IF page = "gone" THEN Phase(p, "idle") /\ UNCHANGED approved
       ELSE /\ Interactive
            /\ IF hasUnsafeWork THEN Phase(p, "asking") /\ UNCHANGED approved
               ELSE Approve(p)
    /\ UNCHANGED <<vars, page, window>>

\* The editor's answer to unsavedWork, or the lack of one.
ReadState(p) ==
    /\ decisions[p].phase = "reading"
    /\ IF page = "gone" THEN Approve(p)
       ELSE /\ Interactive
            /\ IF hasUnsafeWork THEN Phase(p, "asking") /\ UNCHANGED approved
               ELSE Approve(p)
    /\ UNCHANGED <<vars, page, window>>

AnswerCancel(p) ==
    /\ decisions[p].phase = "asking"
    /\ decisions' = [decisions EXCEPT ![p] = Idle]
    /\ UNCHANGED <<vars, page, window, approved>>

AnswerDiscard(p) ==
    /\ decisions[p].phase = "asking"
    /\ Approve(p)
    /\ UNCHANGED <<vars, page, window>>

\* The editor's own Save, which joins one that is in flight.
AnswerSave(p) ==
    /\ decisions[p].phase = "asking"
    /\ IF page = "gone" THEN Phase(p, "reporting") /\ UNCHANGED <<workVars, save>>
       ELSE /\ Interactive
            /\ StartSave(FALSE)
            /\ decisions' = [decisions EXCEPT ![p] =
                                [phase |-> "saving", asked |-> Here, joined |-> save # None]]
    /\ UNCHANGED <<files, replaceGuard, continuing, page, window, approved>>

DismissFailure(p) ==
    /\ decisions[p].phase = "reporting"
    /\ decisions' = [decisions EXCEPT ![p] = Idle]
    /\ UNCHANGED <<vars, page, window, approved>>

\* Mutant: close() in place of destroy(), which the page may refuse.
CloseWindow(p) ==
    /\ decisions[p].phase = "closing"
    /\ page = "gone" \/ ~hasUnsafeWork
    /\ window' = "closed"
    /\ UNCHANGED <<vars, page, approved, decisions>>

\* destroy() once the size is written, whatever the page holds by then.
Destroy(p) ==
    /\ decisions[p].phase = "closing"
    /\ window' = "closed"
    /\ UNCHANGED <<vars, page, approved, decisions>>

-------------------------------------------------------------------------------
\* Mutant: a cancelled dialog counts as saved.
OnlyFailureStays(outcome) ==
    LET Heard(d) ==
            IF outcome = "failed" THEN [Idle EXCEPT !.phase = "reporting"]
            ELSE [d EXCEPT !.phase = "closing", !.joined = FALSE]
    IN  /\ decisions' = [p \in Presses |-> IF p \in In("saving")
                                           THEN Heard(decisions[p]) ELSE decisions[p]]
        /\ approved' = (approved \/ (outcome # "failed" /\ In("saving") # {}))

\* The save a press waited for is over; all who waited hear the same.
SaveAttempt(outcome) ==
    LET Heard(d) ==
            CASE outcome = "saved" -> [d EXCEPT !.phase = "closing", !.joined = FALSE]
              [] outcome = "failed" -> [Idle EXCEPT !.phase = "reporting"]
              [] OTHER -> Idle
    IN  /\ decisions' = [p \in Presses |-> IF p \in In("saving")
                                           THEN Heard(decisions[p]) ELSE decisions[p]]
        /\ approved' = (approved \/ (outcome = "saved" /\ In("saving") # {}))

PageWrites ==
    /\ page = "up"
    /\ \/ /\ \E path \in Files : WriteSaved(path)
          /\ IF save' = None THEN SaveAttempt("saved")
             ELSE UNCHANGED <<approved, decisions>>
       \/ FailSave /\ SaveAttempt("failed")
       \/ CancelSave /\ SaveAttempt("cancelled")
    /\ UNCHANGED <<page, window>>

PageConfirms ==
    /\ page = "up"
    /\ ConfirmSave
    /\ SaveAttempt("saved")
    /\ UNCHANGED <<page, window>>

PageContinues ==
    /\ page = "up"
    /\ RecoveryDeleted \/ PerformReplacement
    /\ UNCHANGED <<page, window, approved, decisions>>

\* What the person does in the page.
PageInput ==
    /\ page = "up"
    /\ ~Modal
    /\ \/ \E content \in Contents : CommitEdit(content)
       \/ \E saveAs \in BOOLEAN : SaveCommand(saveAs)
       \/ \E r \in Requests : Request(r)
       \/ CancelReplaceGuard
       \/ ConfirmReplaceGuard
       \/ SaveAndContinue
    /\ UNCHANGED <<page, window, approved, decisions>>

\* A file the shell hands over, message box or not.
PageRequested ==
    /\ page = "up"
    /\ session < MaxSession
    /\ Interactive
    /\ \E r \in ShellRequests : GuardDirtyReplacement(r)
    /\ UNCHANGED <<page, window, approved, decisions>>

\* The renderer crashes: what it was asked for is rejected.
PageGone ==
    /\ page = "up"
    /\ page' = "gone"
    /\ decisions' = [p \in Presses |-> IF p \in In("saving")
                                       THEN [Idle EXCEPT !.phase = "reporting"]
                                       ELSE decisions[p]]
    /\ UNCHANGED <<vars, window, approved>>

-------------------------------------------------------------------------------
Answer(p) == AnswerCancel(p) \/ AnswerDiscard(p) \/ AnswerSave(p)

CloseNext ==
    /\ window = "open"
    /\ \/ \E p \in Presses :
            Press(p) \/ ReadState(p) \/ Answer(p) \/ DismissFailure(p) \/ Destroy(p)
       \/ PressAgain
       \/ PageWrites
       \/ PageConfirms
       \/ PageContinues
       \/ PageInput
       \/ PageRequested
       \/ PageGone

\* Scripts are answered, message boxes are, and what the page started settles.
CloseFairness ==
    /\ \A p \in Presses : /\ WF_closeVars(window = "open" /\ ReadState(p))
                          /\ WF_closeVars(window = "open" /\ Answer(p))
                          /\ WF_closeVars(window = "open" /\ DismissFailure(p))
                          /\ WF_closeVars(window = "open" /\ Destroy(p))
    /\ WF_closeVars(window = "open" /\ PageWrites)
    /\ WF_closeVars(window = "open" /\ PageConfirms)
    /\ WF_closeVars(window = "open" /\ PageContinues)

CloseSpec == CloseInit /\ [][CloseNext]_closeVars /\ CloseFairness
-------------------------------------------------------------------------------
\* The Save a press waited for has put its text into a file, which is bound
\* if its Project is still the live one.
SaveIsWritten ==
    \E path \in Files : /\ files'[path] = save.candidate
                        /\ SaveIsLive => fileBinding' = path

\* What is saved is what the window held when Save was answered.
SavesWhatWasAsked(decision) ==
    /\ save.session = decision.asked.session
    /\ save.candidate.token = decision.asked.token

\* Unsaved work is closed over only when Don't Save was pressed, or when the
\* Save the press waited for is in a file: no order of presses, edits, saves,
\* replacements and crashes lets a cancelled or failed save pass for a kept
\* Project, and a Save that the answer itself began keeps the Project of that
\* answer.  What is drawn after the answer is not kept, nor does a Save that
\* joined one in flight promise whose text it is: that one may be older, or
\* of a Project replaced since, and counts as saved (see SaveLosesNothing).
DroppedWorkWasGivenUp ==
    [][\A p \in Presses :
          (/\ decisions[p].phase # "closing"
           /\ decisions'[p].phase = "closing"
           /\ page = "up"
           /\ hasUnsafeWork')
          => \/ AnswerDiscard(p)
             \/ /\ decisions[p].phase = "saving"
                /\ SaveIsWritten
                /\ decisions[p].joined \/ SavesWhatWasAsked(decisions[p])]_closeVars

\* Every press comes to an end: the window closes, or it is free to be used.
PressesAreDecided ==
    \A p \in Presses : (decisions[p].phase # "idle")
                          ~> (decisions[p].phase = "idle" \/ window = "closed")

\* "A guard that cannot read the editor must not be able to trap a person in
\* a window that refuses to shut."
UnanswerableCloses ==
    (page = "gone" /\ In("reading") # {}) ~> (window = "closed")

\* close-guard.ts: "Save leads because it is the one that loses nothing": a
\* window that closes because Save was answered, with nothing drawn since,
\* leaves its Project in a file.
SaveLosesNothing ==
    [][(/\ window' = "closed"
        /\ page = "up"
        /\ hasUnsafeWork
        /\ In("closing") # {}
        /\ \A p \in In("closing") : decisions[p].asked = Here)
       => \E path \in Files : files[path] = live]_closeVars
================================================================================
