---------------------------- MODULE CanvasGestures ----------------------------
(***************************************************************************)
(* The canvas of the editor: presses, drags and clicks of a few pointers,  *)
(* the keys and buttons that start or end a tool, and the commits that     *)
(* land underneath them.                                                   *)
(*                                                                         *)
(* A gesture plans on the Document it was started over and commits onto    *)
(* the one there is when it ends.  The drag session, the wire and the      *)
(* keyboard Move each have their own way of noticing that the two differ:  *)
(* a commit cancels the drag session, the wire compares a revision, the    *)
(* Move compares the Cell and its revision, and a replaced project resets  *)
(* all three.  This module asks whether that is enough, and whether the    *)
(* pieces (session, interaction kind, Move session, swallowed click) stay  *)
(* in step while the person mixes them.                                    *)
(*                                                                         *)
(* React renders before the next event, so a handler works on the Document *)
(* of the moment, with one exception: a press moves the focus to the       *)
(* canvas, a property field commits when it loses it, and the rest of that *)
(* press still works on the Document rendered before.                      *)
(***************************************************************************)
EXTENDS Naturals

CONSTANTS Docs,        \* the Cells of the project
          Pointers,    \* mouse, pen, fingers
          InitialDoc,
          MaxRev,      \* bound on the revision of a Cell
          MaxProject,  \* bound on the projects opened one after another
          None

VARIABLES project,  \* which opening of a project this is
          doc,      \* the Cell on the canvas
          rev,      \* the revision of every Cell
          ui,       \* the editor's transient state
          press,    \* what each pointer is doing
          landing   \* history: the gesture commit of the last step

vars == <<project, doc, rev, ui, press, landing>>

Kinds == {"idle", "placing", "copy-placement", "moving-selection", "wire"}

\* What a plan is made from, and what a commit lands on.
Token == [project : Nat, doc : Docs, rev : Nat]

ASSUME CanvasAssumption ==
    /\ InitialDoc \in Docs
    /\ None \notin Pointers /\ None \notin Token

Live == [project |-> project, doc |-> doc, rev |-> rev[doc]]

\* seen is the Document the session's closures hold, opened the one there was
\* when the session had begun.
Session == [copy : BOOLEAN, dragged : BOOLEAN, seen : Token, opened : Token]

\* ref: canvasDragSessionRef, by the pointer whose session it holds.
\* sessions: the sessions that still listen.  move: commandMoveSessionRef.
\* swallow: suppressCommitClickRef.
Transient == [ref : Pointers \cup {None},
              sessions : [Pointers -> Session \cup {None}],
              kind : Kinds,
              wire : Token \cup {None},
              move : Token \cup {None},
              armed : {None, "copy", "move"},
              swallow : BOOLEAN]

Press == [at : {"up", "down", "released"},
          begun : {"nothing", "object", "copy", "outline", "pickup"},
          landed : BOOLEAN]

Landing == [by : {"drag", "copy", "move", "wire", "placing"},
            plan : Token, opened : Token, onto : Token]

Up == [at |-> "up", begun |-> "nothing", landed |-> FALSE]

Init ==
    /\ project = 0
    /\ doc = InitialDoc
    /\ rev = [d \in Docs |-> 0]
    /\ ui = [ref |-> None, sessions |-> [p \in Pointers |-> None],
             kind |-> "idle", wire |-> None, move |-> None,
             armed |-> None, swallow |-> FALSE]
    /\ press = [p \in Pointers |-> Up]
    /\ landing = None

-------------------------------------------------------------------------------
(* What the handlers do to the transient state.                            *)

\* cancel() of the session the ref holds; its onCancel empties the ref.
CancelDrag(u) ==
    IF u.ref = None THEN u
    ELSE [u EXCEPT !.sessions[u.ref] = None, !.ref = None]

\* A session that ends by itself empties the ref, whatever it holds.
EndSession(u, p) == [u EXCEPT !.sessions[p] = None, !.ref = None]

ClearTransient(u) == [CancelDrag(u) EXCEPT !.ref = None]

\* Mutant: the wire of the state before outlives it.
ReduceKeepingWire(u, kind) == [u EXCEPT !.kind = kind]

\* The interaction state is replaced; a wire exists only in its own.
Reduce(u, kind) == [u EXCEPT !.kind = kind, !.wire = None]

CancelAll(u) ==
    [Reduce(ClearTransient(u), "idle") EXCEPT !.move = None, !.armed = None]

\* Mutant: a commit leaves the session of a drag alone.
CommitUnnoticed(u) == u

\* What the controller's commit callback does.
OnCommit(u) == CancelDrag(u)

\* Mutant: a commit leaves the tool that was active.
TransactedKeepingTool(u) == OnCommit(u)

\* A commit through transact() also ends the tool that was active.
Transacted(u) == IF u.kind = "idle" THEN OnCommit(u) ELSE CancelAll(OnCommit(u))

\* Mutant: the session of another pointer is not cancelled first.
BeginOverAnother(u, p, copy, seen, opened) ==
    [u EXCEPT
        !.sessions[p] = [copy |-> copy, dragged |-> FALSE, seen |-> seen, opened |-> opened],
        !.ref = p]

Begin(u, p, copy, seen, opened) ==
    [CancelDrag(u) EXCEPT
        !.sessions[p] = [copy |-> copy, dragged |-> FALSE, seen |-> seen, opened |-> opened],
        !.ref = p]

\* Refused, changing nothing, unless the editor is idle.
BeginCopy(u) ==
    IF u.kind = "idle" THEN Reduce(ClearTransient(u), "copy-placement") ELSE u

\* Refused while a Move session is kept, whatever the interaction is.
BeginMove(u, seen) ==
    IF u.move = None THEN [Reduce(u, "moving-selection") EXCEPT !.move = seen] ELSE u

-------------------------------------------------------------------------------
Same == UNCHANGED <<project, doc, rev>>

Commit ==
    /\ rev[doc] < MaxRev
    /\ rev' = [rev EXCEPT ![doc] = @ + 1]
    /\ UNCHANGED <<project, doc>>

\* A click follows its release before any other input is handled.
Ready == \A p \in Pointers : press[p].at # "released"

NoLanding == landing' = None

Lands(by, plan, opened) ==
    landing' = [by |-> by, plan |-> plan, opened |-> opened, onto |-> Live]

\* Input that belongs to no pointer.
Command == Ready /\ NoLanding /\ UNCHANGED press

(* A press. *)

\* The press takes the focus; a property field it leaves may commit.
TakeFocus(blurred) == IF blurred THEN Commit ELSE Same

Focused(blurred) == IF blurred THEN Transacted(ui) ELSE ui

Down(p, begun) ==
    /\ Ready
    /\ press[p].at = "up"
    /\ press' = [press EXCEPT ![p] = [at |-> "down", begun |-> begun, landed |-> FALSE]]
    /\ NoLanding

\* The pointer tool was rendered, nothing being placed, and no Move is active.
Claimed(blurred) ==
    /\ ui.kind \in {"idle", "moving-selection"}
    /\ Focused(blurred).kind = "idle"

\* On nothing, or while the canvas belongs to a tool that answers the click.
PressPasses(p, blurred) ==
    /\ Down(p, "nothing")
    /\ TakeFocus(blurred)
    /\ ui' = Focused(blurred)

\* On an object: a drag session begins, which with Shift duplicates.
PressHit(p, copy, blurred) ==
    /\ Claimed(blurred)
    /\ copy => ui.armed = None
    /\ Down(p, IF copy THEN "copy" ELSE "object")
    /\ TakeFocus(blurred)
    /\ ui' = Begin(Focused(blurred), p, copy, Live, Live')

\* On a handle of what is selected, which answers under most tools as well.
PressHandle(p, blurred) ==
    /\ Focused(blurred).kind # "moving-selection"
    /\ Down(p, "object")
    /\ TakeFocus(blurred)
    /\ ui' = Begin(Focused(blurred), p, FALSE, Live, Live')

\* An outline arrow is drawn with a drag session, under the tool rendered.
PressOutline(p, blurred) ==
    /\ ui.kind = "placing"
    /\ Down(p, "outline")
    /\ TakeFocus(blurred)
    /\ ui' = Begin(Focused(blurred), p, FALSE, Live, Live')

\* Mutant: the click of the press is not swallowed.
PickUpUnswallowed(p, blurred) ==
    LET u == [Focused(blurred) EXCEPT !.armed = None]
    IN /\ Claimed(blurred)
       /\ ui.armed # None
       /\ Down(p, "pickup")
       /\ TakeFocus(blurred)
       /\ ui' \in {u, IF ui.armed = "copy" THEN BeginCopy(u) ELSE BeginMove(u, Live)}

\* With Copy or Move armed the press picks the part up, if it can be.
PickUp(p, blurred) ==
    LET u == [Focused(blurred) EXCEPT !.armed = None, !.swallow = TRUE]
    IN /\ Claimed(blurred)
       /\ ui.armed # None
       /\ Down(p, "pickup")
       /\ TakeFocus(blurred)
       /\ ui' \in {u, IF ui.armed = "copy" THEN BeginCopy(u) ELSE BeginMove(u, Live)}

-------------------------------------------------------------------------------
(* The drag session. *)

Listening(p) == ui.sessions[p] # None

Dragged(p, copy) ==
    Listening(p) /\ ui.sessions[p].dragged /\ ui.sessions[p].copy = copy

\* The pointer crosses the threshold.
Drag(p) ==
    /\ Listening(p)
    /\ ~ui.sessions[p].dragged
    /\ ui' = [ui EXCEPT !.sessions[p].dragged = TRUE]
    /\ Same /\ Command

\* The first preview of a duplicate starts the copy placement, which cancels
\* the canvas drag: this very session.  The click after the release commits.
Frame(p) ==
    /\ Dragged(p, TRUE)
    /\ ui' \in {EndSession(ui, p), CancelDrag(BeginCopy(ui))}
    /\ Same /\ Command

Released(p, landed) ==
    /\ Ready
    /\ press[p].at = "down"
    /\ press' = [press EXCEPT ![p].at = "released", ![p].landed = landed]

\* No session, no drag, or a commit refused.
Release(p) ==
    /\ Released(p, FALSE)
    /\ ui' = IF Listening(p) THEN EndSession(ui, p) ELSE ui
    /\ Same /\ NoLanding

\* Moving objects: the session is over before its commit.
DropObject(p) ==
    /\ Dragged(p, FALSE)
    /\ press[p].begun = "object"
    /\ Released(p, TRUE)
    /\ Commit
    /\ ui' = Transacted(EndSession(ui, p))
    /\ Lands("drag", ui.sessions[p].seen, ui.sessions[p].opened)

\* The arrow is placed, dragged or not, wherever its Document has got to.
DropOutline(p) ==
    /\ Listening(p)
    /\ press[p].begun = "outline"
    /\ Released(p, TRUE)
    /\ Commit
    /\ ui' = Transacted(EndSession(ui, p))
    /\ Lands("placing", Live, ui.sessions[p].opened)

\* A duplicate released before its first frame: the last preview starts the
\* copy placement and cancels the session, and the release finishes it still.
DropCopy(p) ==
    /\ Dragged(p, TRUE)
    /\ ui.kind = "idle"
    /\ Released(p, TRUE)
    /\ Commit
    /\ ui' = OnCommit(BeginCopy(ui))
    /\ Lands("copy", ui.sessions[p].seen, ui.sessions[p].opened)

\* The same with the commit refused: the copy stays in hand.
DropCopyRefused(p) ==
    /\ Dragged(p, TRUE)
    /\ Released(p, FALSE)
    /\ ui' = CancelDrag(BeginCopy(ui))
    /\ Same /\ NoLanding

\* pointercancel, or the capture is lost: no click follows.
PointerCancel(p) ==
    /\ Ready
    /\ press[p].at = "down"
    /\ press' = [press EXCEPT ![p] = Up]
    /\ ui' = IF Listening(p) THEN EndSession(ui, p) ELSE ui
    /\ Same /\ NoLanding

-------------------------------------------------------------------------------
(* The click that follows a release. *)

\* The click of another pointer may take what this press was to swallow.
Ended(p) ==
    /\ press[p].at = "released"
    /\ press' = [q \in Pointers |->
                    IF q = p THEN Up
                    ELSE IF press[q].begun = "pickup" THEN [press[q] EXCEPT !.begun = "nothing"]
                    ELSE press[q]]

\* No click, a repeated one, or one that nothing answers.
NoClick(p) ==
    /\ Ended(p)
    /\ UNCHANGED ui
    /\ Same /\ NoLanding

ClickSwallowed(p) ==
    /\ Ended(p)
    /\ ui.kind \in {"moving-selection", "copy-placement"}
    /\ ui.swallow
    /\ ui' = [ui EXCEPT !.swallow = FALSE]
    /\ Same /\ NoLanding

\* The first click of a wire.
AnchorWire(p) ==
    /\ Ended(p)
    /\ ui.kind = "wire" /\ ui.wire = None
    /\ ui' = [ui EXCEPT !.wire = Live]
    /\ Same /\ NoLanding

\* The wire knows only the revision of its source.  Drawing on, it takes a new
\* source from the leg it has committed.
CommitWire ==
    /\ ui.kind = "wire" /\ ui.wire # None
    /\ ui.wire.rev = rev[doc]
    /\ Commit
    /\ \E next \in {None, Live'} : ui' = [OnCommit(ui) EXCEPT !.wire = next]
    /\ Lands("wire", Live, ui.wire)

DropStaleWire ==
    /\ ui.kind = "wire" /\ ui.wire # None
    /\ ui.wire.rev # rev[doc]
    /\ ui' = Reduce(ClearTransient(ui), "idle")
    /\ Same /\ NoLanding

ClickWire(p) == Ended(p) /\ (CommitWire \/ DropStaleWire)

\* Enter.
FinishWire == Ready /\ UNCHANGED press /\ (CommitWire \/ DropStaleWire)

\* A double click ends the wire, the right button its tool as well.
EndWire ==
    /\ ui.kind = "wire"
    /\ ui' \in {[ui EXCEPT !.wire = None], Reduce(ui, "idle")}
    /\ Same /\ Command

Moving == ui.kind = "moving-selection" /\ ui.move # None

\* Mutant: the stale Move is dropped, the interaction stays.
DropMoveKeepingKind ==
    /\ Moving
    /\ ui.move.doc = doc
    /\ ui.move.rev # rev[doc]
    /\ ui' = [ui EXCEPT !.move = None]

\* The preview of a Move finds its Cell at another revision.
DropStaleMove ==
    /\ Moving
    /\ ui.move.doc = doc
    /\ ui.move.rev # rev[doc]
    /\ ui' = [Reduce(ui, "idle") EXCEPT !.move = None]

Hover == DropStaleMove /\ Same /\ Command

\* A click previews once more before it commits.
ClickStaleMove(p) == Ended(p) /\ ~ui.swallow /\ DropStaleMove /\ Same /\ NoLanding

LandMove(p) ==
    /\ Ended(p)
    /\ Moving /\ ~ui.swallow
    /\ ui.move.doc = doc /\ ui.move.rev = rev[doc]
    /\ Commit
    /\ ui' = CancelAll(OnCommit(ui))
    /\ Lands("move", ui.move, ui.move)

RefuseMove(p) ==
    /\ Ended(p)
    /\ Moving /\ ~ui.swallow
    /\ ui.move.doc = doc /\ ui.move.rev = rev[doc]
    /\ ui' = [Reduce(ui, "idle") EXCEPT !.move = None]
    /\ Same /\ NoLanding

\* The copy stays in hand for the next click.
LandCopy(p) ==
    /\ Ended(p)
    /\ ui.kind = "copy-placement" /\ ~ui.swallow
    /\ Commit
    /\ ui' = OnCommit(ui)
    /\ Lands("copy", Live, Live)

\* A new part keeps the placement, anything else ends it.
LandPlacing(p) ==
    /\ Ended(p)
    /\ ui.kind = "placing"
    /\ Commit
    /\ ui' \in {OnCommit(ui), Transacted(ui)}
    /\ Lands("placing", Live, Live)

-------------------------------------------------------------------------------
(* Keys and buttons. *)

Escape ==
    /\ ui' = IF ui.ref # None THEN CancelDrag(ui)
             ELSE IF ui.kind # "idle" THEN CancelAll(ui)
             ELSE [ui EXCEPT !.armed = None]
    /\ Same /\ Command

\* With nothing to move or copy the verb waits for a press on a part.
StartMove ==
    /\ ui.kind \in {"idle", "moving-selection"}
    /\ ui' \in {BeginMove(ui, Live), [ui EXCEPT !.armed = "move"]}
    /\ Same /\ Command

StartCopy ==
    /\ ui.kind \in {"idle", "copy-placement"}
    /\ ui' \in {BeginCopy(ui), [ui EXCEPT !.armed = "copy"]}
    /\ Same /\ Command

\* Mutant: the Move session is left behind.
ActivateToolOverMove(kind) ==
    /\ kind # ui.kind \/ kind = "placing"
    /\ ui' = Reduce(ClearTransient(ui), kind)
    /\ Same /\ Command

\* Pointer, wire or one of the drawing tools, which are among "placing".
ActivateTool(kind) ==
    /\ kind # ui.kind \/ kind = "placing"
    /\ LET u == IF ui.kind = "moving-selection" THEN [ui EXCEPT !.move = None] ELSE ui
       IN ui' = Reduce(ClearTransient(u), kind)
    /\ Same /\ Command

\* The picker, or at once a placement of what was chosen before.
StartInsert ==
    /\ LET u == IF ui.kind = "idle" THEN ui ELSE CancelAll(ui)
       IN ui' \in {CancelAll(u), Reduce(ClearTransient(u), "placing")}
    /\ Same /\ Command

\* The Text button starts a placement without ending what was active.
AddText ==
    /\ ui' = Reduce(ClearTransient(ui), "placing")
    /\ Same /\ Command

\* The page is hidden or left.
Hide ==
    /\ ui' = ClearTransient(ui)
    /\ Same /\ Command

(* Commits and replacements from elsewhere. *)

\* Undo and Redo, panels, and what a command commits after an await.
Edit ==
    /\ Commit
    /\ ui' = Transacted(ui)
    /\ Command

\* A structural commit may open the Cell it made, and ends no tool, not even
\* a Move of the Cell it leaves.
CommitStructure(d) ==
    /\ \/ Commit
       \/ doc' = d /\ UNCHANGED <<project, rev>>
    /\ ui' = OnCommit(ui)
    /\ Command

SwitchDocument(d) ==
    /\ d # doc
    /\ doc' = d
    /\ ui' = CancelAll(ui)
    /\ UNCHANGED <<project, rev>>
    /\ Command

\* Another project, with Cells of any name and revision: in the worst case
\* the same ones.
InstallProject(d) ==
    /\ project < MaxProject
    /\ project' = project + 1
    /\ doc' = d
    /\ ui' = CancelAll(ui)
    /\ UNCHANGED rev
    /\ Command

-------------------------------------------------------------------------------
PointerStep(p) ==
    \/ \E blurred \in BOOLEAN :
          \/ PressPasses(p, blurred)
          \/ \E copy \in BOOLEAN : PressHit(p, copy, blurred)
          \/ PressHandle(p, blurred) \/ PressOutline(p, blurred)
          \/ PickUp(p, blurred)
    \/ Drag(p) \/ Frame(p)
    \/ Release(p) \/ DropObject(p) \/ DropOutline(p) \/ DropCopy(p) \/ DropCopyRefused(p)
    \/ PointerCancel(p)

ClickStep(p) ==
    \/ NoClick(p) \/ ClickSwallowed(p)
    \/ AnchorWire(p) \/ ClickWire(p)
    \/ ClickStaleMove(p) \/ LandMove(p) \/ RefuseMove(p)
    \/ LandCopy(p) \/ LandPlacing(p)

CommandStep ==
    \/ FinishWire \/ EndWire \/ Hover \/ Escape \/ StartMove \/ StartCopy
    \/ \E kind \in {"idle", "wire", "placing"} : ActivateTool(kind)
    \/ StartInsert \/ AddText \/ Hide \/ Edit
    \/ \E d \in Docs : CommitStructure(d) \/ SwitchDocument(d) \/ InstallProject(d)

Next ==
    \/ \E p \in Pointers : PointerStep(p) \/ ClickStep(p)
    \/ CommandStep

Spec == Init /\ [][Next]_vars

-------------------------------------------------------------------------------
\* Type correctness.  The reducer keeps a wire in the wire tool only: the
\* click handler asks the state for its wire whenever that tool is active.
TypeOK ==
    /\ project \in Nat /\ doc \in Docs /\ rev \in [Docs -> Nat]
    /\ ui \in Transient
    /\ ui.wire # None => ui.kind = "wire"
    /\ press \in [Pointers -> Press]
    /\ landing \in Landing \cup {None}

\* Every session that still listens is the one the ref holds, although a
\* second pointer may begin one before the first is done: a commit, Escape
\* and a replaced project reach a session only through the ref.
ListeningIsCurrent ==
    \A p \in Pointers : Listening(p) => ui.ref = p

\* A gesture lands on the project, the Cell and the revision it was begun on,
\* whatever was committed, undone, switched or opened while it lasted.  A wire
\* compares the revision alone, so its Cell may differ.
GesturesMissNoCommit ==
    landing # None =>
        /\ landing.opened.project = landing.onto.project
        /\ landing.opened.rev = landing.onto.rev
        /\ landing.by # "wire" => landing.opened.doc = landing.onto.doc

\* The Move was taken up over the Cell on the canvas: a click commits it, or
\* drops it when that Cell was changed.
MoveIsHere == ui.move # None /\ ui.move.project = project /\ ui.move.doc = doc

\* A Move that is active can be put down: in the moving state every press is
\* stopped, and a click without a session of this Cell does nothing.  The one
\* way into such a canvas is a structural commit that opens another Cell under
\* the Move, as New Cell does; only Escape, a tool, a commit or a switch of
\* Cells leads out.
MovesCanBePutDown ==
    [][ui'.kind = "moving-selection" =>
          \/ MoveIsHere'
          \/ \E d \in Docs \ {doc} : CommitStructure(d) /\ doc' = d
          \/ ui.kind = "moving-selection" /\ ui'.move = ui.move /\ ~MoveIsHere]_vars

\* A press whose release committed does nothing with its click, whatever tool
\* was started while the pointer was down: it neither commits again nor drops
\* the tool.  (A duplicate released before its first frame does; see DropCopy.)
PressesCommitOnce ==
    [][\A p \in Pointers :
          press[p].landed /\ press[p].begun # "copy"
          => landing' = None /\ ui' = ui]_vars

\* The press that picks a part up does not put it down again with its own
\* click, unless another pointer clicked in between.
PickupsStayInHand ==
    [][\A p \in Pointers :
          /\ press[p].at = "released"
          /\ press[p].begun = "pickup"
          /\ landing' # None
          => landing'.by \notin {"move", "copy"}]_vars

\* Only the Text button leaves a Move session behind the interaction it
\* belongs to; every other way out of the moving state ends the session.
OnlyTextLeavesAMove ==
    [][ui'.move # None /\ ui'.kind # "moving-selection"
       => \/ ui.kind = "moving-selection" /\ ui'.kind = "placing"
          \/ ui.move # None /\ ui.kind # "moving-selection"]_vars

\* A drag commits what was planned from the Document it commits onto: no
\* commit made since the Document was rendered is reverted.
DragsRevertNothing ==
    landing # None /\ landing.by = "drag" => landing.plan = landing.onto

===============================================================================
