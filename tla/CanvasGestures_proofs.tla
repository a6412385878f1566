------------------------- MODULE CanvasGestures_proofs -------------------------
(***************************************************************************)
(* Proofs about CanvasGestures, for any Cells, pointers and bounds.  The   *)
(* inductive invariant ties the drag session, the Move and the wire to     *)
(* what is on the canvas, and the presses to the sessions they began.      *)
(***************************************************************************)
EXTENDS CanvasGestures, TLAPS

\* The one session that listens was opened over what is on the canvas.
Current(u, live) ==
    \A p \in Pointers :
        u.sessions[p] # None => u.ref = p /\ u.sessions[p].opened = live

\* A Move or a wire never outlives its project; each has its own tool.
Tooled(u, live) ==
    /\ u.move # None => u.move.project = live.project
    /\ u.wire # None => u.wire.project = live.project /\ u.kind = "wire"
    /\ u.kind = "moving-selection" => u.move # None

\* The presses that begin a session, one that duplicates or another.
BegunBy(copy) == IF copy THEN {"copy"} ELSE {"object", "outline"}

\* What a pointer does with its session, and with the click it is to swallow.
Linked(u, pr) ==
    \A p \in Pointers :
        /\ u.sessions[p] # None =>
              /\ pr[p].at = "down"
              /\ pr[p].begun \in BegunBy(u.sessions[p].copy)
        /\ pr[p].begun = "pickup" => u.swallow
        /\ pr[p].landed =>
              /\ pr[p].at = "released"
              /\ pr[p].begun # "copy" => u.kind = "idle"

IInv ==
    /\ TypeOK
    /\ Current(ui, Live)
    /\ Tooled(ui, Live)
    /\ Linked(ui, press)
    /\ GesturesMissNoCommit

\* No session listens.
Quiet(u) == u.ref = None /\ \A p \in Pointers : u.sessions[p] = None

-------------------------------------------------------------------------------
(* What the handlers do to a transient state. *)

\* Cancelling the drag through the ref reaches every session.
LEMMA CancelDragQuiet ==
    ASSUME NEW live, NEW u \in Transient, Current(u, live)
    PROVE  /\ CancelDrag(u) \in Transient
           /\ Quiet(CancelDrag(u))
           /\ CancelDrag(u).kind = u.kind /\ CancelDrag(u).wire = u.wire
           /\ CancelDrag(u).move = u.move /\ CancelDrag(u).armed = u.armed
           /\ CancelDrag(u).swallow = u.swallow
<1> USE DEF Transient
<1>1. CASE u.ref = None
  <2>1. CancelDrag(u) = u
    BY <1>1 DEF CancelDrag
  <2>2. \A p \in Pointers : u.sessions[p] = None
    BY <1>1, CanvasAssumption DEF Current
  <2> QED
    BY <1>1, <2>1, <2>2 DEF Quiet
<1>2. CASE u.ref # None
  <2> DEFINE v == [u EXCEPT !.sessions[u.ref] = None, !.ref = None]
  <2>1. CancelDrag(u) = v
    BY <1>2 DEF CancelDrag
  <2>2. v \in Transient
    OBVIOUS
  <2>3. v.ref = None /\ v.sessions = [u.sessions EXCEPT ![u.ref] = None]
    OBVIOUS
  <2>4. \A p \in Pointers : v.sessions[p] = None
    BY <2>3 DEF Current
  <2>5. /\ v.kind = u.kind /\ v.wire = u.wire /\ v.move = u.move
        /\ v.armed = u.armed /\ v.swallow = u.swallow
    OBVIOUS
  <2> HIDE DEF v
  <2> QED
    BY <2>1, <2>2, <2>3, <2>4, <2>5 DEF Quiet
<1> QED
  BY <1>1, <1>2

\* A session that ends by itself is the only one.
LEMMA EndSessionQuiet ==
    ASSUME NEW live, NEW u \in Transient, Current(u, live),
           NEW p \in Pointers, u.sessions[p] # None
    PROVE  /\ EndSession(u, p) = CancelDrag(u)
           /\ u.ref = p
<1>1. u.ref = p /\ u.ref # None
  BY CanvasAssumption DEF Current
<1> QED
  BY <1>1 DEF EndSession, CancelDrag

\* Replacing the interaction leaves the rest as it was.
LEMMA ReduceKeeps ==
    ASSUME NEW u \in Transient, NEW kind \in Kinds
    PROVE  /\ Reduce(u, kind) \in Transient
           /\ Quiet(u) => Quiet(Reduce(u, kind))
           /\ Reduce(u, kind).ref = u.ref /\ Reduce(u, kind).sessions = u.sessions
           /\ Reduce(u, kind).kind = kind /\ Reduce(u, kind).wire = None
           /\ Reduce(u, kind).move = u.move /\ Reduce(u, kind).armed = u.armed
           /\ Reduce(u, kind).swallow = u.swallow
  BY DEF Reduce, Transient, Quiet

\* A quiet state is cleared already.
LEMMA ClearIsCancel ==
    ASSUME NEW live, NEW u \in Transient, Current(u, live)
    PROVE  ClearTransient(u) = CancelDrag(u)
<1>1. CancelDrag(u) \in Transient /\ CancelDrag(u).ref = None
  BY CancelDragQuiet DEF Quiet
<1> QED
  BY <1>1 DEF ClearTransient, Transient

LEMMA CancelAllQuiet ==
    ASSUME NEW live, NEW u \in Transient, Current(u, live)
    PROVE  /\ CancelAll(u) \in Transient
           /\ Quiet(CancelAll(u))
           /\ CancelAll(u).kind = "idle" /\ CancelAll(u).wire = None
           /\ CancelAll(u).move = None /\ CancelAll(u).armed = None
           /\ CancelAll(u).swallow = u.swallow
<1> DEFINE v == Reduce(ClearTransient(u), "idle")
<1>1. v \in Transient /\ Quiet(v) /\ v.kind = "idle" /\ v.wire = None
      /\ v.swallow = u.swallow
  BY CancelDragQuiet, ClearIsCancel, ReduceKeeps DEF Kinds
<1>2. CancelAll(u) = [v EXCEPT !.move = None, !.armed = None]
  BY DEF CancelAll
<1> HIDE DEF v
<1> QED
  BY <1>1, <1>2 DEF Transient, Quiet

\* A commit through transact() leaves neither a session nor a tool.
LEMMA TransactedQuiet ==
    ASSUME NEW live, NEW u \in Transient, Current(u, live), Tooled(u, live)
    PROVE  /\ Transacted(u) \in Transient
           /\ Quiet(Transacted(u))
           /\ Transacted(u).kind = "idle" /\ Transacted(u).wire = None
           /\ Transacted(u).move \in {u.move, None}
           /\ Transacted(u).swallow = u.swallow
<1>1. CancelDrag(u) \in Transient /\ Quiet(CancelDrag(u))
      /\ CancelDrag(u).kind = u.kind /\ CancelDrag(u).wire = u.wire
      /\ CancelDrag(u).move = u.move /\ CancelDrag(u).swallow = u.swallow
  BY CancelDragQuiet
<1>2. CASE u.kind = "idle"
  <2>1. Transacted(u) = CancelDrag(u)
    BY <1>2 DEF Transacted, OnCommit
  <2>2. u.wire = None
    BY <1>2 DEF Tooled
  <2> QED
    BY <1>1, <1>2, <2>1, <2>2
<1>3. CASE u.kind # "idle"
  <2> DEFINE v == CancelDrag(u)
  <2>1. Transacted(u) = CancelAll(v)
    BY <1>3 DEF Transacted, OnCommit
  <2>2. Current(v, live)
    BY <1>1 DEF Current, Quiet
  <2> HIDE DEF v
  <2>3. /\ CancelAll(v) \in Transient /\ Quiet(CancelAll(v))
        /\ CancelAll(v).kind = "idle" /\ CancelAll(v).wire = None
        /\ CancelAll(v).move = None /\ CancelAll(v).swallow = v.swallow
    BY <1>1, <2>2, CancelAllQuiet DEF v
  <2> QED
    BY <1>1, <2>1, <2>3 DEF v
<1> QED
  BY <1>2, <1>3

\* The copy placement cancels the drag it starts from, or is refused.
LEMMA BeginCopyKeeps ==
    ASSUME NEW live, NEW u \in Transient, Current(u, live), Tooled(u, live)
    PROVE  /\ BeginCopy(u) \in Transient
           /\ Current(BeginCopy(u), live) /\ Tooled(BeginCopy(u), live)
           /\ BeginCopy(u).swallow = u.swallow
           /\ BeginCopy(u).sessions = u.sessions \/ Quiet(BeginCopy(u))
           /\ u.kind = "idle" => Quiet(BeginCopy(u))
<1>1. CASE u.kind = "idle"
  <2> DEFINE v == CancelDrag(u)
  <2>1. /\ v \in Transient /\ Quiet(v) /\ v.move = u.move
        /\ v.swallow = u.swallow
    BY CancelDragQuiet
  <2>2. BeginCopy(u) = Reduce(v, "copy-placement")
    BY <1>1, ClearIsCancel DEF BeginCopy
  <2> HIDE DEF v
  <2>3. LET w == Reduce(v, "copy-placement")
        IN /\ w \in Transient /\ Quiet(w) /\ w.wire = None
           /\ w.kind = "copy-placement" /\ w.move = u.move
           /\ w.swallow = u.swallow
    BY <2>1, ReduceKeeps DEF Kinds
  <2>4. Current(Reduce(v, "copy-placement"), live)
    BY <2>3 DEF Current, Quiet
  <2>5. Tooled(Reduce(v, "copy-placement"), live)
    BY <2>3 DEF Tooled
  <2> QED
    BY <2>2, <2>3, <2>4, <2>5
<1>2. CASE u.kind # "idle"
  BY <1>2 DEF BeginCopy
<1> QED
  BY <1>1, <1>2

\* A Move begins only when none is kept, and has its session from the start.
LEMMA BeginMoveKeeps ==
    ASSUME NEW live, NEW u \in Transient, NEW seen \in Token,
           seen.project = live.project, Current(u, live), Tooled(u, live)
    PROVE  /\ BeginMove(u, seen) \in Transient
           /\ Current(BeginMove(u, seen), live) /\ Tooled(BeginMove(u, seen), live)
           /\ BeginMove(u, seen).swallow = u.swallow
           /\ BeginMove(u, seen).sessions = u.sessions
<1>1. CASE u.move = None
  <2> DEFINE v == Reduce(u, "moving-selection")
             w == [v EXCEPT !.move = seen]
  <2>1. /\ v \in Transient /\ v.sessions = u.sessions /\ v.ref = u.ref
        /\ v.wire = None /\ v.kind = "moving-selection"
        /\ v.swallow = u.swallow
    BY ReduceKeeps DEF Kinds
  <2>2. BeginMove(u, seen) = w
    BY <1>1 DEF BeginMove
  <2> HIDE DEF v
  <2>3. /\ w \in Transient /\ w.sessions = u.sessions /\ w.ref = u.ref
        /\ w.wire = None /\ w.kind = "moving-selection"
        /\ w.move = seen /\ w.swallow = u.swallow
    BY <2>1 DEF Transient
  <2> HIDE DEF w
  <2>4. seen # None
    BY CanvasAssumption
  <2> QED
    BY <2>2, <2>3, <2>4 DEF Current, Tooled
<1>2. CASE u.move # None
  BY <1>2 DEF BeginMove
<1> QED
  BY <1>1, <1>2

-------------------------------------------------------------------------------
(* What every step has to show. *)

LEMMA LiveSame ==
    ASSUME TypeOK, Same
    PROVE  /\ project' \in Nat /\ doc' \in Docs /\ rev' \in [Docs -> Nat]
           /\ Live \in Token /\ Live' = Live
  BY DEF TypeOK, Same, Live, Token

LEMMA LiveCommit ==
    ASSUME TypeOK, Commit
    PROVE  /\ project' \in Nat /\ doc' \in Docs /\ rev' \in [Docs -> Nat]
           /\ Live \in Token /\ Live' \in Token
           /\ Live'.project = Live.project
  BY DEF TypeOK, Commit, Live, Token

LEMMA Assemble ==
    ASSUME project' \in Nat, doc' \in Docs, rev' \in [Docs -> Nat],
           ui' \in Transient, press' \in [Pointers -> Press],
           landing' \in Landing \cup {None}, GesturesMissNoCommit',
           Current(ui', Live'), Tooled(ui', Live'), Linked(ui', press')
    PROVE  IInv'
<1>1. TypeOK'
  BY DEF TypeOK, Tooled
<1> QED
  BY <1>1 DEF IInv

\* Between presses and releases nothing has landed that is not clicked yet.
LEMMA ReadyLinked ==
    ASSUME Ready, Linked(ui, press), NEW u, u.swallow = ui.swallow,
           \A p \in Pointers : u.sessions[p] # None =>
               ui.sessions[p] # None /\ u.sessions[p].copy = ui.sessions[p].copy
    PROVE  Linked(u, press)
  BY DEF Ready, Linked

\* A command shows what it makes of the transient state.
LEMMA CommandSound ==
    ASSUME IInv, Command,
           project' \in Nat, doc' \in Docs, rev' \in [Docs -> Nat],
           ui' \in Transient, ui'.swallow = ui.swallow,
           Current(ui', Live'), Tooled(ui', Live'),
           \A p \in Pointers : ui'.sessions[p] # None =>
               ui.sessions[p] # None /\ ui'.sessions[p].copy = ui.sessions[p].copy
    PROVE  IInv'
<1>1. Ready /\ press' = press /\ landing' = None
  BY DEF Command, NoLanding
<1>2. Linked(ui', press')
  BY <1>1, ReadyLinked DEF IInv
<1>3. press' \in [Pointers -> Press]
  BY <1>1 DEF IInv, TypeOK
<1>4. GesturesMissNoCommit'
  BY <1>1 DEF GesturesMissNoCommit
<1> QED
  BY <1>1, <1>2, <1>3, <1>4, Assemble

\* The same when no session is left.
LEMMA QuietCommandSound ==
    ASSUME IInv, Command,
           project' \in Nat, doc' \in Docs, rev' \in [Docs -> Nat],
           ui' \in Transient, ui'.swallow = ui.swallow,
           Quiet(ui'), Tooled(ui', Live')
    PROVE  IInv'
<1>1. Current(ui', Live')
  BY DEF Current, Quiet
<1> QED
  BY <1>1, CommandSound DEF Quiet

-------------------------------------------------------------------------------
(* The presses and the sessions they began. *)

\* A press that goes down: no release is waiting for its click.
LEMMA DownLinked ==
    ASSUME TypeOK, Linked(ui, press), NEW p \in Pointers,
           NEW begun \in {"nothing", "object", "copy", "outline", "pickup"}, Down(p, begun),
           NEW u \in Transient,
           ui.swallow => u.swallow,
           begun = "pickup" => u.swallow,
           \A q \in Pointers \ {p} : u.sessions[q] # None =>
               ui.sessions[q] # None /\ u.sessions[q].copy = ui.sessions[q].copy,
           u.sessions[p] # None =>
               begun \in BegunBy(u.sessions[p].copy)
    PROVE  /\ Linked(u, press')
           /\ press' \in [Pointers -> Press]
           /\ landing' = None
           /\ ui.sessions[p] = None
<1>1. /\ press \in [Pointers -> Press]
      /\ press[p].at = "up" /\ Ready /\ landing' = None
      /\ press' = [press EXCEPT ![p] = [at |-> "down", begun |-> begun, landed |-> FALSE]]
  BY DEF TypeOK, Down, NoLanding
<1>2. press' \in [Pointers -> Press]
  BY <1>1 DEF Press
<1>3. ui.sessions[p] = None
  BY <1>1 DEF Linked
<1>4. /\ press'[p].at = "down" /\ press'[p].begun = begun /\ ~press'[p].landed
      /\ \A q \in Pointers \ {p} : press'[q] = press[q]
  BY <1>1
<1>5. \A q \in Pointers : ~press[q].landed
  BY <1>1 DEF Linked, Ready
<1>6. Linked(u, press')
  <2> SUFFICES ASSUME NEW q \in Pointers
               PROVE  /\ u.sessions[q] # None =>
                           /\ press'[q].at = "down"
                           /\ press'[q].begun \in BegunBy(u.sessions[q].copy)
                      /\ press'[q].begun = "pickup" => u.swallow
                      /\ ~press'[q].landed
    BY DEF Linked
  <2>1. CASE q = p
    BY <1>4, <2>1
  <2>2. CASE q # p
    BY <1>4, <1>5, <2>2 DEF Linked
  <2> QED
    BY <2>1, <2>2
<1> QED
  BY <1>1, <1>2, <1>3, <1>6

\* A release: the click it waits for meets the pointer tool if it has landed.
LEMMA ReleasedLinked ==
    ASSUME TypeOK, Linked(ui, press), NEW p \in Pointers, NEW landed \in BOOLEAN,
           Released(p, landed), NEW u \in Transient, u.swallow = ui.swallow,
           u.sessions[p] = None,
           \A q \in Pointers : u.sessions[q] # None => u.sessions[q] = ui.sessions[q],
           landed /\ press[p].begun # "copy" => u.kind = "idle"
    PROVE  /\ Linked(u, press')
           /\ press' \in [Pointers -> Press]
<1>1. /\ press \in [Pointers -> Press] /\ Ready
      /\ press' = [press EXCEPT ![p].at = "released", ![p].landed = landed]
  BY DEF TypeOK, Released
<1>2. press' \in [Pointers -> Press]
  BY <1>1 DEF Press
<1>3. /\ press'[p].at = "released" /\ press'[p].landed = landed
      /\ press'[p].begun = press[p].begun
      /\ \A q \in Pointers \ {p} : press'[q] = press[q]
  BY <1>1 DEF Press
<1>4. \A q \in Pointers : ~press[q].landed
  BY <1>1 DEF Linked, Ready
<1>5. Linked(u, press')
  <2> SUFFICES ASSUME NEW q \in Pointers
               PROVE  /\ u.sessions[q] # None =>
                           /\ press'[q].at = "down"
                           /\ press'[q].begun \in BegunBy(u.sessions[q].copy)
                      /\ press'[q].begun = "pickup" => u.swallow
                      /\ press'[q].landed =>
                           /\ press'[q].at = "released"
                           /\ press'[q].begun # "copy" => u.kind = "idle"
    BY DEF Linked
  <2>1. CASE q = p
    BY <1>3, <2>1 DEF Linked
  <2>2. CASE q # p
    BY <1>3, <1>4, <2>2 DEF Linked
  <2> QED
    BY <2>1, <2>2
<1> QED
  BY <1>2, <1>5

\* A click: nothing is left to swallow one, and an idle editor stays idle.
LEMMA EndedLinked ==
    ASSUME TypeOK, Linked(ui, press), NEW p \in Pointers, Ended(p),
           NEW u \in Transient, ui.kind = "idle" => u.kind = "idle",
           \A q \in Pointers : u.sessions[q] # None => u.sessions[q] = ui.sessions[q]
    PROVE  /\ Linked(u, press')
           /\ press' \in [Pointers -> Press]
<1> DEFINE after(q) == IF q = p THEN Up
                       ELSE IF press[q].begun = "pickup"
                            THEN [press[q] EXCEPT !.begun = "nothing"]
                            ELSE press[q]
<1>1. /\ press \in [Pointers -> Press] /\ press[p].at = "released"
      /\ press' = [q \in Pointers |-> after(q)]
  BY DEF TypeOK, Ended
<1>2. \A q \in Pointers : after(q) \in Press
  BY <1>1 DEF Press, Up
<1>3. \A q \in Pointers : press'[q] = after(q)
  BY <1>1
<1>4. ASSUME NEW q \in Pointers
      PROVE  /\ u.sessions[q] # None =>
                  /\ press'[q].at = "down"
                  /\ press'[q].begun \in BegunBy(u.sessions[q].copy)
             /\ press'[q].begun # "pickup"
             /\ press'[q].landed =>
                  /\ press'[q].at = "released"
                  /\ press'[q].begun # "copy" => u.kind = "idle"
  <2>1. CASE q = p
    <3>1. press'[q] = [at |-> "up", begun |-> "nothing", landed |-> FALSE]
      BY <1>3, <2>1 DEF Up
    <3>2. u.sessions[q] = None
      BY <1>1, <2>1 DEF Linked
    <3> QED
      BY <3>1, <3>2
  <2>2. CASE q # p /\ press[q].begun = "pickup"
    <3>1. press'[q] = [press[q] EXCEPT !.begun = "nothing"]
      BY <1>3, <2>2
    <3>2. /\ press'[q].at = press[q].at /\ press'[q].begun = "nothing"
          /\ press'[q].landed = press[q].landed
      BY <1>1, <3>1 DEF Press
    <3>3. u.sessions[q] = None
      BY <2>2 DEF Linked, BegunBy
    <3> QED
      BY <2>2, <3>2, <3>3 DEF Linked
  <2>3. CASE q # p /\ press[q].begun # "pickup"
    <3>1. press'[q] = press[q]
      BY <1>3, <2>3
    <3> QED
      BY <2>3, <3>1 DEF Linked
  <2> QED
    BY <2>1, <2>2, <2>3
<1>5. press' \in [Pointers -> Press]
  BY <1>1, <1>2
<1>6. Linked(u, press')
  BY <1>4 DEF Linked
<1> QED
  BY <1>5, <1>6

-------------------------------------------------------------------------------
(* The steps. *)

LEMMA InitInvariant == Init => IInv
<1> SUFFICES ASSUME Init PROVE IInv
  OBVIOUS
<1>1. ui \in Transient /\ Quiet(ui)
  BY DEF Init, Transient, Kinds, Quiet
<1>2. press \in [Pointers -> Press]
  BY DEF Init, Press, Up
<1>3. project \in Nat /\ doc \in Docs /\ rev \in [Docs -> Nat] /\ landing = None
  BY CanvasAssumption DEF Init
<1>4. /\ ui.kind = "idle" /\ ui.wire = None /\ ui.move = None
      /\ \A p \in Pointers : press[p].begun = "nothing" /\ ~press[p].landed
  BY DEF Init, Up
<1>5. TypeOK
  BY <1>1, <1>2, <1>3, <1>4 DEF TypeOK
<1>6. Current(ui, Live) /\ Tooled(ui, Live) /\ Linked(ui, press)
  BY <1>1, <1>4 DEF Current, Tooled, Linked, Quiet
<1>7. GesturesMissNoCommit
  BY <1>3 DEF GesturesMissNoCommit
<1> QED
  BY <1>5, <1>6, <1>7 DEF IInv

\* A Move or a wire of the project stays one of it.
LEMMA TooledStays ==
    ASSUME NEW u, NEW live, NEW live2, live2.project = live.project, Tooled(u, live)
    PROVE  Tooled(u, live2)
  BY DEF Tooled

\* What the press leaves when it has taken the focus.
LEMMA FocusKeeps ==
    ASSUME IInv, NEW blurred \in BOOLEAN, TakeFocus(blurred)
    PROVE  /\ project' \in Nat /\ doc' \in Docs /\ rev' \in [Docs -> Nat]
           /\ Live \in Token /\ Live' \in Token /\ Live'.project = Live.project
           /\ Focused(blurred) \in Transient
           /\ Current(Focused(blurred), Live') /\ Tooled(Focused(blurred), Live')
           /\ Focused(blurred).swallow = ui.swallow
           /\ Focused(blurred).sessions = ui.sessions \/ Quiet(Focused(blurred))
<1>1. CASE blurred
  <2>1. Commit /\ Focused(blurred) = Transacted(ui)
    BY <1>1 DEF TakeFocus, Focused
  <2>2. /\ Transacted(ui) \in Transient /\ Quiet(Transacted(ui))
        /\ Transacted(ui).kind = "idle" /\ Transacted(ui).wire = None
        /\ Transacted(ui).move \in {ui.move, None}
        /\ Transacted(ui).swallow = ui.swallow
    BY TransactedQuiet DEF IInv, TypeOK
  <2>3. Current(Transacted(ui), Live')
    BY <2>2 DEF Current, Quiet
  <2>4. Tooled(Transacted(ui), Live)
    BY <2>2 DEF Tooled, IInv
  <2> QED
    BY <2>1, <2>2, <2>3, <2>4, LiveCommit, TooledStays DEF IInv
<1>2. CASE ~blurred
  <2>1. Same /\ Focused(blurred) = ui
    BY <1>2 DEF TakeFocus, Focused
  <2> QED
    BY <2>1, LiveSame DEF IInv, TypeOK
<1> QED
  BY <1>1, <1>2

\* The session that begins is the only one.
LEMMA BeginCurrent ==
    ASSUME NEW u \in Transient, NEW live \in Token, Current(u, live), Tooled(u, live),
           NEW p \in Pointers, NEW copy \in BOOLEAN, NEW seen \in Token
    PROVE  LET v == Begin(u, p, copy, seen, live)
           IN /\ v \in Transient
              /\ Current(v, live) /\ Tooled(v, live)
              /\ v.swallow = u.swallow
              /\ v.sessions[p].copy = copy
              /\ \A q \in Pointers \ {p} : v.sessions[q] = None
<1> DEFINE w == CancelDrag(u)
           session == [copy |-> copy, dragged |-> FALSE, seen |-> seen, opened |-> live]
           v == [w EXCEPT !.sessions[p] = session, !.ref = p]
<1>1. /\ w \in Transient /\ Quiet(w) /\ w.kind = u.kind /\ w.wire = u.wire
      /\ w.move = u.move /\ w.swallow = u.swallow
  BY CancelDragQuiet
<1>2. session \in Session /\ session.copy = copy /\ session.opened = live
  BY DEF Session
<1> HIDE DEF w, session
<1>3. /\ v \in Transient /\ v.ref = p
      /\ v.sessions = [w.sessions EXCEPT ![p] = session]
      /\ v.kind = u.kind /\ v.wire = u.wire /\ v.move = u.move
      /\ v.swallow = u.swallow
  BY <1>1, <1>2 DEF Transient
<1>4. w.sessions \in [Pointers -> Session \cup {None}]
  BY <1>1 DEF Transient
<1>5. v.sessions[p] = session /\ \A q \in Pointers \ {p} : v.sessions[q] = None
  BY <1>1, <1>3, <1>4 DEF Quiet
<1>6. Begin(u, p, copy, seen, live) = v
  BY DEF Begin, w, session
<1> HIDE DEF v
<1>7. Current(v, live)
  BY <1>2, <1>3, <1>5 DEF Current
<1>8. Tooled(v, live)
  BY <1>3 DEF Tooled
<1> QED
  BY <1>2, <1>3, <1>5, <1>6, <1>7, <1>8

LEMMA PressPassesStep ==
    ASSUME IInv, NEW p \in Pointers, NEW blurred \in BOOLEAN, PressPasses(p, blurred)
    PROVE  IInv'
<1>1. Down(p, "nothing") /\ TakeFocus(blurred) /\ ui' = Focused(blurred)
  BY DEF PressPasses
<1> DEFINE u == Focused(blurred)
<1>2. /\ project' \in Nat /\ doc' \in Docs /\ rev' \in [Docs -> Nat]
      /\ u \in Transient /\ Current(u, Live') /\ Tooled(u, Live')
      /\ u.swallow = ui.swallow /\ (u.sessions = ui.sessions \/ Quiet(u))
  BY <1>1, FocusKeeps
<1>3. ui.sessions[p] = None
  BY <1>1 DEF Down, IInv, Linked
<1>4. \A q \in Pointers : u.sessions[q] # None => u.sessions[q] = ui.sessions[q]
  BY <1>2 DEF Quiet
<1> HIDE DEF u
<1>5. Linked(u, press') /\ press' \in [Pointers -> Press] /\ landing' = None
  <2>1. TypeOK /\ Linked(ui, press)
    BY DEF IInv
  <2>2. u.sessions[p] = None
    BY <1>3, <1>4
  <2>3. ui.swallow => u.swallow
    BY <1>2
  <2> QED
    BY <1>1, <1>2, <1>4, <2>1, <2>2, <2>3, DownLinked
<1>6. GesturesMissNoCommit'
  BY <1>5 DEF GesturesMissNoCommit
<1> QED
  BY <1>1, <1>2, <1>5, <1>6, Assemble DEF u

\* A press that begins a session, on whatever it does so.
LEMMA PressBeginsStep ==
    ASSUME IInv, NEW p \in Pointers, NEW copy \in BOOLEAN, NEW blurred \in BOOLEAN,
           NEW begun \in BegunBy(copy),
           Down(p, begun), TakeFocus(blurred),
           ui' = Begin(Focused(blurred), p, copy, Live, Live')
    PROVE  IInv'
<1> DEFINE u == Focused(blurred)
           v == Begin(u, p, copy, Live, Live')
<1>1. Down(p, begun) /\ TakeFocus(blurred) /\ ui' = v
  OBVIOUS
<1>2. /\ project' \in Nat /\ doc' \in Docs /\ rev' \in [Docs -> Nat]
      /\ Live \in Token /\ Live' \in Token
      /\ u \in Transient /\ Current(u, Live') /\ Tooled(u, Live')
      /\ u.swallow = ui.swallow
  BY <1>1, FocusKeeps
<1> HIDE DEF u
<1>3. /\ v \in Transient /\ Current(v, Live') /\ Tooled(v, Live')
      /\ v.swallow = u.swallow /\ v.sessions[p].copy = copy
      /\ \A q \in Pointers \ {p} : v.sessions[q] = None
  BY <1>2, BeginCurrent
<1> HIDE DEF v
<1>4. Linked(v, press') /\ press' \in [Pointers -> Press] /\ landing' = None
  <2>1. TypeOK /\ Linked(ui, press)
    BY DEF IInv
  <2>2. begun \in {"object", "copy", "outline"} /\ begun # "pickup"
    BY DEF BegunBy
  <2>3. ui.swallow => v.swallow
    BY <1>2, <1>3
  <2> QED
    BY <1>1, <1>3, <2>1, <2>2, <2>3, DownLinked
<1>5. GesturesMissNoCommit'
  BY <1>4 DEF GesturesMissNoCommit
<1> QED
  BY <1>1, <1>2, <1>3, <1>4, <1>5, Assemble

LEMMA PressHitStep ==
    ASSUME IInv, NEW p \in Pointers, NEW copy \in BOOLEAN, NEW blurred \in BOOLEAN,
           PressHit(p, copy, blurred) \/ PressHandle(p, blurred) \/ PressOutline(p, blurred)
    PROVE  IInv'
<1>1. CASE PressHit(p, copy, blurred)
  BY <1>1, PressBeginsStep DEF PressHit, BegunBy
<1>2. CASE PressHandle(p, blurred) \/ PressOutline(p, blurred)
  <2>1. {"object", "outline"} = BegunBy(FALSE)
    BY DEF BegunBy
  <2> QED
    BY <1>2, <2>1, PressBeginsStep DEF PressHandle, PressOutline
<1> QED
  BY <1>1, <1>2

LEMMA PickUpStep ==
    ASSUME IInv, NEW p \in Pointers, NEW blurred \in BOOLEAN, PickUp(p, blurred)
    PROVE  IInv'
<1> DEFINE f == Focused(blurred)
           u == [f EXCEPT !.armed = None, !.swallow = TRUE]
<1>1. /\ Down(p, "pickup") /\ TakeFocus(blurred)
      /\ ui' \in {u, BeginCopy(u), BeginMove(u, Live)}
  BY DEF PickUp
<1>2. /\ project' \in Nat /\ doc' \in Docs /\ rev' \in [Docs -> Nat]
      /\ Live \in Token /\ Live.project = Live'.project
      /\ f \in Transient /\ Current(f, Live') /\ Tooled(f, Live')
      /\ (f.sessions = ui.sessions \/ Quiet(f))
  BY <1>1, FocusKeeps
<1>3. ui.sessions[p] = None
  BY <1>1 DEF Down, IInv, Linked
<1> HIDE DEF f
<1>4. /\ u \in Transient /\ u.sessions = f.sessions /\ u.ref = f.ref
      /\ u.kind = f.kind /\ u.wire = f.wire /\ u.move = f.move /\ u.swallow
  BY <1>2 DEF Transient
<1> HIDE DEF u
<1>5. /\ Current(u, Live') /\ Tooled(u, Live')
      /\ \A q \in Pointers : u.sessions[q] # None => u.sessions[q] = ui.sessions[q]
  BY <1>2, <1>4 DEF Current, Tooled, Quiet
<1>6. /\ ui' \in Transient /\ Current(ui', Live') /\ Tooled(ui', Live')
      /\ ui'.swallow = u.swallow
      /\ ui'.sessions = u.sessions \/ Quiet(ui')
  <2>1. CASE ui' = u
    BY <1>4, <1>5, <2>1
  <2>2. CASE ui' = BeginCopy(u)
    BY <1>4, <1>5, <2>2, BeginCopyKeeps
  <2>3. CASE ui' = BeginMove(u, Live)
    BY <1>2, <1>4, <1>5, <2>3, BeginMoveKeeps
  <2> QED
    BY <1>1, <2>1, <2>2, <2>3
<1>7. \A q \in Pointers : ui'.sessions[q] # None => ui'.sessions[q] = ui.sessions[q]
  BY <1>5, <1>6 DEF Quiet
<1>8. ui'.swallow
  BY <1>4, <1>6
<1>9. Linked(ui', press') /\ press' \in [Pointers -> Press] /\ landing' = None
  <2>1. TypeOK /\ Linked(ui, press)
    BY DEF IInv
  <2>2. ui'.sessions[p] = None
    BY <1>3, <1>7
  <2> QED
    BY <1>1, <1>6, <1>7, <1>8, <2>1, <2>2, DownLinked
<1>10. GesturesMissNoCommit'
  BY <1>9 DEF GesturesMissNoCommit
<1> QED
  BY <1>2, <1>6, <1>9, <1>10, Assemble

\* Crossing the threshold changes nothing but the session.
LEMMA DragStep ==
    ASSUME IInv, NEW p \in Pointers, Drag(p)
    PROVE  IInv'
<1> DEFINE v == [ui EXCEPT !.sessions[p].dragged = TRUE]
<1>1. Same /\ Command /\ ui' = v /\ ui.sessions[p] # None
  BY DEF Drag, Listening
<1>2. ui \in Transient /\ ui.sessions \in [Pointers -> Session \cup {None}]
      /\ ui.sessions[p] \in Session
  BY <1>1 DEF IInv, TypeOK, Transient
<1>3. /\ v.ref = ui.ref /\ v.kind = ui.kind /\ v.wire = ui.wire /\ v.move = ui.move
      /\ v.swallow = ui.swallow
      /\ v.sessions = [ui.sessions EXCEPT ![p] = [ui.sessions[p] EXCEPT !.dragged = TRUE]]
  BY <1>2 DEF Transient
<1>4. LET s == [ui.sessions[p] EXCEPT !.dragged = TRUE]
      IN /\ s \in Session /\ s.copy = ui.sessions[p].copy
         /\ s.opened = ui.sessions[p].opened
  BY <1>2 DEF Session
<1>5. v \in Transient
  BY <1>2, <1>4 DEF Transient
<1> HIDE DEF v
<1>6. \A q \in Pointers : v.sessions[q] # None =>
          /\ ui.sessions[q] # None
          /\ v.sessions[q].copy = ui.sessions[q].copy
          /\ v.sessions[q].opened = ui.sessions[q].opened
  BY <1>1, <1>2, <1>3, <1>4
<1>7. Current(v, Live) /\ Tooled(v, Live)
  BY <1>3, <1>6 DEF Current, Tooled, IInv
<1> QED
  BY <1>1, <1>3, <1>5, <1>6, <1>7, CommandSound, LiveSame DEF IInv

\* The previews of a duplicate and its release start a copy placement.
LEMMA CopyInHand ==
    ASSUME IInv
    PROVE  LET u == CancelDrag(BeginCopy(ui))
           IN /\ u \in Transient /\ Quiet(u) /\ Tooled(u, Live)
              /\ u.swallow = ui.swallow
<1> DEFINE v == BeginCopy(ui)
<1>1. v \in Transient /\ Current(v, Live) /\ Tooled(v, Live) /\ v.swallow = ui.swallow
  BY BeginCopyKeeps DEF IInv, TypeOK
<1> HIDE DEF v
<1> DEFINE u == CancelDrag(v)
<1>2. /\ u \in Transient /\ Quiet(u) /\ u.kind = v.kind /\ u.wire = v.wire
      /\ u.move = v.move /\ u.swallow = v.swallow
  BY <1>1, CancelDragQuiet
<1> HIDE DEF u
<1>3. Tooled(u, Live)
  BY <1>1, <1>2 DEF Tooled
<1> QED
  BY <1>1, <1>2, <1>3 DEF u, v

\* A session that is over leaves the tool as it was.
LEMMA SessionOver ==
    ASSUME IInv, NEW p \in Pointers, ui.sessions[p] # None
    PROVE  LET u == EndSession(ui, p)
           IN /\ u \in Transient /\ Quiet(u) /\ Tooled(u, Live)
              /\ u.swallow = ui.swallow
<1> DEFINE u == CancelDrag(ui)
<1>1. EndSession(ui, p) = u
  BY EndSessionQuiet DEF IInv, TypeOK
<1>2. /\ u \in Transient /\ Quiet(u) /\ u.kind = ui.kind /\ u.wire = ui.wire
      /\ u.move = ui.move /\ u.swallow = ui.swallow
  BY CancelDragQuiet DEF IInv, TypeOK
<1> HIDE DEF u
<1>3. Tooled(u, Live)
  BY <1>2 DEF Tooled, IInv
<1> QED
  BY <1>1, <1>2, <1>3

LEMMA FrameStep ==
    ASSUME IInv, NEW p \in Pointers, Frame(p)
    PROVE  IInv'
<1>1. /\ Same /\ Command /\ ui.sessions[p] # None
      /\ ui' \in {EndSession(ui, p), CancelDrag(BeginCopy(ui))}
  BY DEF Frame, Dragged, Listening
<1>2. ui' \in Transient /\ Quiet(ui') /\ Tooled(ui', Live) /\ ui'.swallow = ui.swallow
  BY <1>1, SessionOver, CopyInHand
<1> QED
  BY <1>1, <1>2, LiveSame, QuietCommandSound DEF IInv

\* A release that commits nothing.
LEMMA ReleaseSound ==
    ASSUME IInv, NEW p \in Pointers, Released(p, FALSE), Same, NoLanding,
           ui' \in Transient, Quiet(ui') \/ (ui' = ui /\ ui.sessions[p] = None),
           Tooled(ui', Live), ui'.swallow = ui.swallow
    PROVE  IInv'
<1>1. TypeOK /\ Linked(ui, press) /\ Current(ui, Live)
  BY DEF IInv
<1>2. /\ ui'.sessions[p] = None
      /\ \A q \in Pointers : ui'.sessions[q] # None => ui'.sessions[q] = ui.sessions[q]
  BY DEF Quiet
<1>3. Linked(ui', press') /\ press' \in [Pointers -> Press]
  BY <1>1, <1>2, ReleasedLinked
<1>4. Current(ui', Live)
  BY <1>1 DEF Current, Quiet
<1>5. landing' = None /\ GesturesMissNoCommit'
  BY DEF NoLanding, GesturesMissNoCommit
<1> QED
  BY <1>1, <1>3, <1>4, <1>5, LiveSame, Assemble

LEMMA ReleaseStep ==
    ASSUME IInv, NEW p \in Pointers, Release(p)
    PROVE  IInv'
<1>1. /\ Released(p, FALSE) /\ Same /\ NoLanding
      /\ ui' = IF ui.sessions[p] # None THEN EndSession(ui, p) ELSE ui
  BY DEF Release, Listening
<1>2. CASE ui.sessions[p] # None
  BY <1>1, <1>2, SessionOver, ReleaseSound
<1>3. CASE ui.sessions[p] = None
  <2>1. ui' = ui /\ ui \in Transient /\ Tooled(ui, Live)
    BY <1>1, <1>3 DEF IInv, TypeOK
  <2> QED
    BY <1>1, <1>3, <2>1, ReleaseSound
<1> QED
  BY <1>2, <1>3

LEMMA DropCopyRefusedStep ==
    ASSUME IInv, NEW p \in Pointers, DropCopyRefused(p)
    PROVE  IInv'
<1>1. Released(p, FALSE) /\ Same /\ NoLanding /\ ui' = CancelDrag(BeginCopy(ui))
  BY DEF DropCopyRefused
<1> QED
  BY <1>1, CopyInHand, ReleaseSound

\* A release that commits.
LEMMA DropSound ==
    ASSUME IInv, NEW p \in Pointers, Released(p, TRUE), Commit,
           ui.sessions[p] # None,
           NEW by \in {"drag", "copy", "placing"},
           NEW plan \in {ui.sessions[p].seen, Live},
           Lands(by, plan, ui.sessions[p].opened),
           ui' \in Transient, Quiet(ui'), Tooled(ui', Live), ui'.swallow = ui.swallow,
           press[p].begun # "copy" => ui'.kind = "idle"
    PROVE  IInv'
<1>1. TypeOK /\ Linked(ui, press) /\ Current(ui, Live)
  BY DEF IInv
<1>2. /\ ui'.sessions[p] = None
      /\ \A q \in Pointers : ui'.sessions[q] # None => ui'.sessions[q] = ui.sessions[q]
  BY DEF Quiet
<1>3. Linked(ui', press') /\ press' \in [Pointers -> Press]
  BY <1>1, <1>2, ReleasedLinked
<1>4. Current(ui', Live')
  BY DEF Current, Quiet
<1>5. Tooled(ui', Live')
  BY <1>1, LiveCommit, TooledStays
<1>6. ui.sessions[p] \in Session /\ ui.sessions[p].opened = Live /\ Live \in Token
  BY <1>1, LiveCommit DEF TypeOK, Transient, Current
<1>7. landing' = [by |-> by, plan |-> plan,
                  opened |-> ui.sessions[p].opened, onto |-> Live]
  BY DEF Lands
<1>8. landing' \in Landing
  BY <1>6, <1>7 DEF Landing, Session
<1>9. GesturesMissNoCommit'
  <2>1. landing'.opened = landing'.onto
    BY <1>6, <1>7
  <2> QED
    BY <2>1 DEF GesturesMissNoCommit
<1> QED
  BY <1>1, <1>3, <1>4, <1>5, <1>8, <1>9, LiveCommit, Assemble

LEMMA DropObjectStep ==
    ASSUME IInv, NEW p \in Pointers, DropObject(p) \/ DropOutline(p)
    PROVE  IInv'
<1>1. /\ ui.sessions[p] # None /\ Released(p, TRUE) /\ Commit
      /\ ui' = Transacted(EndSession(ui, p))
      /\ \/ Lands("drag", ui.sessions[p].seen, ui.sessions[p].opened)
         \/ Lands("placing", Live, ui.sessions[p].opened)
  BY DEF DropObject, DropOutline, Dragged, Listening
<1> DEFINE u == EndSession(ui, p)
<1>2. u \in Transient /\ Quiet(u) /\ Tooled(u, Live) /\ u.swallow = ui.swallow
  BY <1>1, SessionOver
<1> HIDE DEF u
<1>3. Current(u, Live)
  BY <1>2 DEF Current, Quiet
<1>4. /\ Transacted(u) \in Transient /\ Quiet(Transacted(u))
      /\ Transacted(u).kind = "idle" /\ Transacted(u).wire = None
      /\ Transacted(u).move \in {u.move, None}
      /\ Transacted(u).swallow = u.swallow
  BY <1>2, <1>3, TransactedQuiet
<1>5. Tooled(Transacted(u), Live)
  BY <1>2, <1>4 DEF Tooled
<1> QED
  BY <1>1, <1>2, <1>4, <1>5, DropSound DEF u

LEMMA DropCopyStep ==
    ASSUME IInv, NEW p \in Pointers, DropCopy(p)
    PROVE  IInv'
<1>1. /\ ui.sessions[p] # None /\ ui.sessions[p].copy = TRUE
      /\ Released(p, TRUE) /\ Commit
      /\ ui' = CancelDrag(BeginCopy(ui))
      /\ Lands("copy", ui.sessions[p].seen, ui.sessions[p].opened)
  BY DEF DropCopy, Dragged, Listening, OnCommit
<1>2. press[p].begun = "copy"
  BY <1>1 DEF IInv, Linked, BegunBy
<1> QED
  BY <1>1, <1>2, CopyInHand, DropSound

LEMMA PointerCancelStep ==
    ASSUME IInv, NEW p \in Pointers, PointerCancel(p)
    PROVE  IInv'
<1>1. /\ Ready /\ Same /\ landing' = None /\ press' = [press EXCEPT ![p] = Up]
      /\ ui' = IF ui.sessions[p] # None THEN EndSession(ui, p) ELSE ui
  BY DEF PointerCancel, Listening, NoLanding
<1>2. /\ ui' \in Transient /\ Tooled(ui', Live) /\ ui'.swallow = ui.swallow
      /\ ui'.sessions[p] = None
      /\ Current(ui', Live)
      /\ \A q \in Pointers : ui'.sessions[q] # None => ui'.sessions[q] = ui.sessions[q]
  <2>1. CASE ui.sessions[p] # None
    BY <1>1, <2>1, SessionOver DEF Current, Quiet
  <2>2. CASE ui.sessions[p] = None
    BY <1>1, <2>2 DEF IInv, TypeOK
  <2> QED
    BY <2>1, <2>2
<1>3. press \in [Pointers -> Press] /\ Linked(ui, press)
  BY DEF IInv, TypeOK
<1>4. Up \in Press /\ Up.begun = "nothing" /\ Up.landed = FALSE
  BY DEF Up, Press
<1>5. press' \in [Pointers -> Press]
  BY <1>1, <1>3, <1>4
<1>6. Linked(ui', press')
  <2>1. \A q \in Pointers \ {p} : press'[q] = press[q]
    BY <1>1, <1>3
  <2>2. press'[p] = Up
    BY <1>1, <1>3
  <2>3. \A q \in Pointers : ~press[q].landed
    BY <1>1, <1>3 DEF Linked, Ready
  <2>4. Linked(ui', press)
    BY <1>2, <1>3, <2>3 DEF Linked
  <2> QED
    BY <1>2, <1>4, <2>1, <2>2, <2>3, <2>4 DEF Linked
<1>7. GesturesMissNoCommit'
  BY <1>1 DEF GesturesMissNoCommit
<1> QED
  BY <1>1, <1>2, <1>5, <1>6, <1>7, LiveSame, Assemble DEF IInv

\* A click, or Enter: what it has to show beside the presses.
LEMMA ClickSound ==
    ASSUME IInv,
           (\E p \in Pointers : Ended(p)) \/ (Ready /\ press' = press /\ ui'.swallow = ui.swallow),
           project' \in Nat, doc' \in Docs, rev' \in [Docs -> Nat],
           ui' \in Transient, ui.kind = "idle" => ui'.kind = "idle",
           Quiet(ui') \/ ui'.sessions = ui.sessions,
           Current(ui', Live'), Tooled(ui', Live'),
           landing' \in Landing \cup {None}, GesturesMissNoCommit'
    PROVE  IInv'
<1>1. TypeOK /\ Linked(ui, press)
  BY DEF IInv
<1>2. \A q \in Pointers : ui'.sessions[q] # None => ui'.sessions[q] = ui.sessions[q]
  BY DEF Quiet
<1>3. Linked(ui', press') /\ press' \in [Pointers -> Press]
  <2>1. CASE \E p \in Pointers : Ended(p)
    BY <1>1, <1>2, <2>1, EndedLinked
  <2>2. CASE Ready /\ press' = press /\ ui'.swallow = ui.swallow
    <3>1. Linked(ui', press)
      BY <1>1, <1>2, <2>2, ReadyLinked
    <3> QED
      BY <1>1, <2>2, <3>1 DEF TypeOK
  <2> QED
    BY <2>1, <2>2
<1> QED
  BY <1>3, Assemble

\* A click that commits nothing.
LEMMA IdleClickSound ==
    ASSUME IInv, Same, NoLanding, NEW p \in Pointers, Ended(p),
           ui' \in Transient, ui.kind = "idle" => ui'.kind = "idle",
           \/ Quiet(ui')
           \/ ui'.sessions = ui.sessions /\ ui'.ref = ui.ref,
           Tooled(ui', Live)
    PROVE  IInv'
<1>1. Current(ui', Live)
  BY DEF IInv, Current, Quiet
<1>2. landing' = None /\ GesturesMissNoCommit'
  BY DEF NoLanding, GesturesMissNoCommit
<1> QED
  BY <1>1, <1>2, LiveSame, ClickSound DEF IInv

\* A click or Enter that commits what its tool was begun over.
LEMMA LandingSound ==
    ASSUME IInv, Commit,
           (\E p \in Pointers : Ended(p)) \/ (Ready /\ press' = press /\ ui'.swallow = ui.swallow),
           NEW by \in {"copy", "move", "wire", "placing"},
           NEW plan \in Token, NEW opened \in Token, Lands(by, plan, opened),
           opened.project = project, opened.rev = rev[doc],
           by # "wire" => opened.doc = doc,
           ui' \in Transient, ui.kind = "idle" => ui'.kind = "idle",
           Quiet(ui'), Tooled(ui', Live')
    PROVE  IInv'
<1>1. TypeOK
  BY DEF IInv
<1>2. /\ landing' = [by |-> by, plan |-> plan, opened |-> opened, onto |-> Live]
      /\ Live \in Token
      /\ Live.project = project /\ Live.doc = doc /\ Live.rev = rev[doc]
  BY <1>1, LiveCommit DEF Lands, Live
<1>3. landing' \in Landing
  BY <1>2 DEF Landing
<1>4. GesturesMissNoCommit'
  <2>1. landing'.opened = opened /\ landing'.onto = Live /\ landing'.by = by
    BY <1>2
  <2> QED
    BY <1>2, <2>1 DEF GesturesMissNoCommit
<1>5. Current(ui', Live')
  BY DEF Current, Quiet
<1> QED
  BY <1>1, <1>3, <1>4, <1>5, LiveCommit, ClickSound

LEMMA NoClickStep ==
    ASSUME IInv, NEW p \in Pointers, NoClick(p)
    PROVE  IInv'
<1>1. Ended(p) /\ Same /\ NoLanding /\ ui' = ui
  BY DEF NoClick
<1> QED
  BY <1>1, IdleClickSound DEF IInv, TypeOK

LEMMA ClickSwallowedStep ==
    ASSUME IInv, NEW p \in Pointers, ClickSwallowed(p)
    PROVE  IInv'
<1> DEFINE v == [ui EXCEPT !.swallow = FALSE]
<1>1. /\ Ended(p) /\ Same /\ NoLanding /\ ui' = v
      /\ ui.kind \in {"moving-selection", "copy-placement"}
  BY DEF ClickSwallowed
<1>2. /\ v \in Transient /\ v.sessions = ui.sessions /\ v.ref = ui.ref
      /\ v.kind = ui.kind /\ v.wire = ui.wire /\ v.move = ui.move
  BY DEF IInv, TypeOK, Transient
<1> HIDE DEF v
<1>3. Tooled(v, Live)
  BY <1>2 DEF IInv, Tooled
<1> QED
  BY <1>1, <1>2, <1>3, IdleClickSound

LEMMA AnchorWireStep ==
    ASSUME IInv, NEW p \in Pointers, AnchorWire(p)
    PROVE  IInv'
<1> DEFINE v == [ui EXCEPT !.wire = Live]
<1>1. /\ Ended(p) /\ Same /\ NoLanding /\ ui' = v
      /\ ui.kind = "wire"
  BY DEF AnchorWire
<1>2. Live \in Token
  BY <1>1, LiveSame DEF IInv
<1>3. /\ v \in Transient /\ v.sessions = ui.sessions /\ v.ref = ui.ref
      /\ v.kind = ui.kind /\ v.wire = Live /\ v.move = ui.move
  BY <1>2 DEF IInv, TypeOK, Transient
<1> HIDE DEF v
<1>4. Tooled(v, Live)
  BY <1>1, <1>3 DEF IInv, Tooled
<1> QED
  BY <1>1, <1>3, <1>4, IdleClickSound

\* A leg that is committed, by a click or by Enter.
LEMMA CommitWireSound ==
    ASSUME IInv, CommitWire,
           (\E p \in Pointers : Ended(p)) \/ (Ready /\ press' = press)
    PROVE  IInv'
<1>1. /\ ui.kind = "wire" /\ ui.wire # None /\ ui.wire.rev = rev[doc]
      /\ Commit /\ Lands("wire", Live, ui.wire)
  BY DEF CommitWire
<1>2. PICK next \in {None, Live'} : ui' = [CancelDrag(ui) EXCEPT !.wire = next]
  BY DEF CommitWire, OnCommit
<1> DEFINE u == CancelDrag(ui)
           v == [u EXCEPT !.wire = next]
<1>3. /\ u \in Transient /\ Quiet(u) /\ u.kind = ui.kind /\ u.move = ui.move
      /\ u.swallow = ui.swallow
  BY CancelDragQuiet DEF IInv, TypeOK
<1>4. Live \in Token /\ Live' \in Token /\ Live'.project = Live.project
  BY <1>1, LiveCommit DEF IInv
<1> HIDE DEF u
<1>5. /\ v \in Transient /\ v.ref = u.ref /\ v.sessions = u.sessions
      /\ v.kind = ui.kind /\ v.wire = next /\ v.move = ui.move
      /\ v.swallow = ui.swallow
  BY <1>3, <1>4 DEF Transient
<1>6. ui' = v
  BY <1>2 DEF u
<1> HIDE DEF v
<1>7. Quiet(v) /\ Tooled(v, Live')
  BY <1>1, <1>3, <1>4, <1>5 DEF Quiet, Tooled, IInv
<1>8. ui.wire \in Token /\ ui.wire.project = project
  BY <1>1 DEF IInv, TypeOK, Transient, Tooled, Live
<1> QED
  BY <1>1, <1>4, <1>5, <1>6, <1>7, <1>8, LandingSound

\* The stale wire, Move or tool gives way to the idle state.
LEMMA ReducedTooled ==
    ASSUME IInv, NEW u \in Transient, u.move \in {ui.move, None},
           u.wire = None, u.kind # "moving-selection"
    PROVE  Tooled(u, Live)
  BY DEF IInv, Tooled

\* A wire over another revision is dropped.
LEMMA DroppedWire ==
    ASSUME IInv
    PROVE  LET u == Reduce(ClearTransient(ui), "idle")
           IN /\ u \in Transient /\ Quiet(u) /\ Tooled(u, Live)
              /\ u.kind = "idle" /\ u.swallow = ui.swallow
<1> DEFINE v == ClearTransient(ui)
           u == Reduce(v, "idle")
<1>1. /\ v \in Transient /\ Quiet(v) /\ v.move = ui.move /\ v.swallow = ui.swallow
  BY CancelDragQuiet, ClearIsCancel DEF IInv, TypeOK
<1> HIDE DEF v
<1>2. /\ u \in Transient /\ Quiet(u) /\ u.kind = "idle" /\ u.wire = None
      /\ u.move = v.move /\ u.swallow = v.swallow
  BY <1>1, ReduceKeeps DEF Kinds
<1> HIDE DEF u
<1>3. Tooled(u, Live)
  BY <1>1, <1>2, ReducedTooled
<1> QED
  BY <1>1, <1>2, <1>3 DEF u, v

LEMMA ClickWireStep ==
    ASSUME IInv, NEW p \in Pointers, ClickWire(p)
    PROVE  IInv'
<1>1. Ended(p) /\ (CommitWire \/ DropStaleWire)
  BY DEF ClickWire
<1>2. CASE CommitWire
  BY <1>1, <1>2, CommitWireSound
<1>3. CASE DropStaleWire
  <2>1. Same /\ NoLanding /\ ui' = Reduce(ClearTransient(ui), "idle")
    BY <1>3 DEF DropStaleWire
  <2> QED
    BY <1>1, <2>1, DroppedWire, IdleClickSound
<1> QED
  BY <1>1, <1>2, <1>3

LEMMA FinishWireStep ==
    ASSUME IInv, FinishWire
    PROVE  IInv'
<1>1. Ready /\ press' = press /\ (CommitWire \/ DropStaleWire)
  BY DEF FinishWire
<1>2. CASE CommitWire
  BY <1>1, <1>2, CommitWireSound
<1>3. CASE DropStaleWire
  <2>1. Same /\ NoLanding /\ ui' = Reduce(ClearTransient(ui), "idle")
    BY <1>3 DEF DropStaleWire
  <2>2. Command
    BY <1>1, <2>1 DEF Command
  <2> QED
    BY <2>1, <2>2, DroppedWire, LiveSame, QuietCommandSound DEF IInv
<1> QED
  BY <1>1, <1>2, <1>3

\* A Move that ends without a commit.
LEMMA DroppedMove ==
    ASSUME IInv
    PROVE  LET u == [Reduce(ui, "idle") EXCEPT !.move = None]
           IN /\ u \in Transient /\ Tooled(u, Live)
              /\ u.kind = "idle" /\ u.swallow = ui.swallow
              /\ u.sessions = ui.sessions /\ u.ref = ui.ref
<1> DEFINE v == Reduce(ui, "idle")
           u == [v EXCEPT !.move = None]
<1>1. /\ v \in Transient /\ v.ref = ui.ref /\ v.sessions = ui.sessions
      /\ v.kind = "idle" /\ v.wire = None /\ v.swallow = ui.swallow
  BY ReduceKeeps DEF Kinds, IInv, TypeOK
<1> HIDE DEF v
<1>2. /\ u \in Transient /\ u.ref = v.ref /\ u.sessions = v.sessions
      /\ u.kind = v.kind /\ u.wire = v.wire /\ u.move = None
      /\ u.swallow = v.swallow
  BY <1>1 DEF Transient
<1> HIDE DEF u
<1>3. Tooled(u, Live)
  BY <1>1, <1>2, ReducedTooled
<1> QED
  BY <1>1, <1>2, <1>3 DEF u, v

LEMMA StaleMoveStep ==
    ASSUME IInv, NEW p \in Pointers, ClickStaleMove(p) \/ RefuseMove(p)
    PROVE  IInv'
<1>1. /\ Ended(p) /\ Same /\ NoLanding
      /\ ui' = [Reduce(ui, "idle") EXCEPT !.move = None]
  BY DEF ClickStaleMove, RefuseMove, DropStaleMove
<1> QED
  BY <1>1, DroppedMove, IdleClickSound

LEMMA HoverStep ==
    ASSUME IInv, Hover
    PROVE  IInv'
<1>1. Command /\ Same /\ ui' = [Reduce(ui, "idle") EXCEPT !.move = None]
  BY DEF Hover, DropStaleMove
<1>2. /\ ui' \in Transient /\ Tooled(ui', Live) /\ ui'.swallow = ui.swallow
      /\ ui'.sessions = ui.sessions /\ ui'.ref = ui.ref
  BY <1>1, DroppedMove
<1>3. Current(ui', Live)
  BY <1>2 DEF IInv, Current
<1> QED
  BY <1>1, <1>2, <1>3, LiveSame, CommandSound DEF IInv

\* A commit that is noticed keeps the tool, a commit that cancels ends it.
LEMMA CommittedKeeps ==
    ASSUME IInv
    PROVE  /\ OnCommit(ui) \in Transient /\ Quiet(OnCommit(ui)) /\ Tooled(OnCommit(ui), Live)
           /\ OnCommit(ui).kind = ui.kind /\ OnCommit(ui).swallow = ui.swallow
<1> DEFINE u == CancelDrag(ui)
<1>1. /\ u \in Transient /\ Quiet(u) /\ u.kind = ui.kind /\ u.wire = ui.wire
      /\ u.move = ui.move /\ u.swallow = ui.swallow
  BY CancelDragQuiet DEF IInv, TypeOK
<1> HIDE DEF u
<1>2. Tooled(u, Live)
  BY <1>1 DEF IInv, Tooled
<1> QED
  BY <1>1, <1>2 DEF u, OnCommit

LEMMA TransactedKeeps ==
    ASSUME IInv
    PROVE  /\ Transacted(ui) \in Transient /\ Quiet(Transacted(ui))
           /\ Tooled(Transacted(ui), Live)
           /\ Transacted(ui).kind = "idle" /\ Transacted(ui).swallow = ui.swallow
<1>1. /\ Transacted(ui) \in Transient /\ Quiet(Transacted(ui))
      /\ Transacted(ui).kind = "idle" /\ Transacted(ui).wire = None
      /\ Transacted(ui).move \in {ui.move, None}
      /\ Transacted(ui).swallow = ui.swallow
  BY TransactedQuiet DEF IInv, TypeOK
<1> QED
  BY <1>1 DEF IInv, Tooled

LEMMA LandMoveStep ==
    ASSUME IInv, NEW p \in Pointers, LandMove(p)
    PROVE  IInv'
<1>1. /\ Ended(p) /\ ui.move # None /\ ui.move.doc = doc /\ ui.move.rev = rev[doc]
      /\ Commit /\ ui' = CancelAll(OnCommit(ui)) /\ Lands("move", ui.move, ui.move)
  BY DEF LandMove, Moving
<1> DEFINE u == OnCommit(ui)
<1>2. u \in Transient /\ Quiet(u) /\ Current(u, Live)
  BY CommittedKeeps DEF Current, Quiet
<1> HIDE DEF u
<1>3. /\ ui' \in Transient /\ Quiet(ui') /\ ui'.kind = "idle"
      /\ ui'.wire = None /\ ui'.move = None
  BY <1>1, <1>2, CancelAllQuiet DEF u
<1>4. Tooled(ui', Live')
  BY <1>3 DEF Tooled
<1>5. ui.move \in Token /\ ui.move.project = project
  BY <1>1 DEF IInv, TypeOK, Transient, Tooled, Live
<1> QED
  BY <1>1, <1>3, <1>4, <1>5, LandingSound

LEMMA LandCopyStep ==
    ASSUME IInv, NEW p \in Pointers, LandCopy(p)
    PROVE  IInv'
<1>1. Ended(p) /\ Commit /\ ui' = OnCommit(ui) /\ Lands("copy", Live, Live)
  BY DEF LandCopy
<1>2. /\ Live \in Token /\ Live'.project = Live.project
      /\ Live.project = project /\ Live.doc = doc /\ Live.rev = rev[doc]
  BY <1>1, LiveCommit DEF IInv, Live
<1>3. Tooled(ui', Live')
  BY <1>1, <1>2, CommittedKeeps, TooledStays
<1> QED
  BY <1>1, <1>2, <1>3, CommittedKeeps, LandingSound

LEMMA LandPlacingStep ==
    ASSUME IInv, NEW p \in Pointers, LandPlacing(p)
    PROVE  IInv'
<1>1. /\ Ended(p) /\ ui.kind = "placing" /\ Commit
      /\ ui' \in {OnCommit(ui), Transacted(ui)} /\ Lands("placing", Live, Live)
  BY DEF LandPlacing
<1>2. /\ Live \in Token /\ Live'.project = Live.project
      /\ Live.project = project /\ Live.doc = doc /\ Live.rev = rev[doc]
  BY <1>1, LiveCommit DEF IInv, Live
<1>3. ui' \in Transient /\ Quiet(ui') /\ Tooled(ui', Live)
  BY <1>1, CommittedKeeps, TransactedKeeps
<1>4. Tooled(ui', Live')
  BY <1>2, <1>3, TooledStays
<1> QED
  BY <1>1, <1>2, <1>3, <1>4, LandingSound

\* Keys and buttons that change no Document.
LEMMA SameCommandSound ==
    ASSUME IInv, Same, Command,
           ui' \in Transient, ui'.swallow = ui.swallow,
           \/ Quiet(ui')
           \/ ui'.sessions = ui.sessions /\ ui'.ref = ui.ref,
           Tooled(ui', Live)
    PROVE  IInv'
<1>1. Current(ui', Live)
  BY DEF IInv, Current, Quiet
<1>2. \A p \in Pointers : ui'.sessions[p] # None =>
          ui.sessions[p] # None /\ ui'.sessions[p].copy = ui.sessions[p].copy
  BY DEF Quiet
<1> QED
  BY <1>1, <1>2, LiveSame, CommandSound DEF IInv

LEMMA EndWireStep == ASSUME IInv, EndWire PROVE IInv'
<1>1. /\ Same /\ Command /\ ui.kind = "wire"
      /\ ui' \in {[ui EXCEPT !.wire = None], Reduce(ui, "idle")}
  BY DEF EndWire
<1>2. ui \in Transient
  BY DEF IInv, TypeOK
<1>3. /\ ui' \in Transient /\ ui'.swallow = ui.swallow /\ ui'.move = ui.move
      /\ ui'.sessions = ui.sessions /\ ui'.ref = ui.ref
      /\ ui'.wire = None /\ ui'.kind # "moving-selection"
  <2>1. CASE ui' = Reduce(ui, "idle")
    BY <1>2, <2>1, ReduceKeeps DEF Kinds
  <2>2. CASE ui' = [ui EXCEPT !.wire = None]
    BY <1>1, <1>2, <2>2 DEF Transient
  <2> QED
    BY <1>1, <2>1, <2>2
<1> QED
  BY <1>1, <1>3, ReducedTooled, SameCommandSound

LEMMA CancelAllKeeps ==
    ASSUME IInv
    PROVE  /\ CancelAll(ui) \in Transient /\ Quiet(CancelAll(ui))
           /\ CancelAll(ui).swallow = ui.swallow
           /\ \A live : Tooled(CancelAll(ui), live)
<1>1. /\ CancelAll(ui) \in Transient /\ Quiet(CancelAll(ui))
      /\ CancelAll(ui).kind = "idle" /\ CancelAll(ui).wire = None
      /\ CancelAll(ui).move = None /\ CancelAll(ui).swallow = ui.swallow
  BY CancelAllQuiet DEF IInv, TypeOK
<1> QED
  BY <1>1 DEF Tooled

LEMMA EscapeStep == ASSUME IInv, Escape PROVE IInv'
<1>1. /\ Same /\ Command
      /\ ui' \in {CancelDrag(ui), CancelAll(ui), [ui EXCEPT !.armed = None]}
  BY DEF Escape
<1>2. CASE ui' = CancelDrag(ui)
  BY <1>1, <1>2, CommittedKeeps, SameCommandSound DEF OnCommit
<1>3. CASE ui' = CancelAll(ui)
  BY <1>1, <1>3, CancelAllKeeps, SameCommandSound
<1>4. CASE ui' = [ui EXCEPT !.armed = None]
  <2>1. /\ ui' \in Transient /\ ui'.swallow = ui.swallow
        /\ ui'.sessions = ui.sessions /\ ui'.ref = ui.ref
        /\ ui'.kind = ui.kind /\ ui'.wire = ui.wire /\ ui'.move = ui.move
    BY <1>4 DEF IInv, TypeOK, Transient
  <2>2. Tooled(ui', Live)
    BY <2>1 DEF IInv, Tooled
  <2> QED
    BY <1>1, <2>1, <2>2, SameCommandSound
<1> QED
  BY <1>1, <1>2, <1>3, <1>4

\* A verb that waits for a press on a part.
LEMMA Armed ==
    ASSUME IInv, Same, Command, NEW verb \in {"copy", "move"},
           ui' = [ui EXCEPT !.armed = verb]
    PROVE  IInv'
<1>1. /\ ui' \in Transient /\ ui'.swallow = ui.swallow
      /\ ui'.sessions = ui.sessions /\ ui'.ref = ui.ref
      /\ ui'.kind = ui.kind /\ ui'.wire = ui.wire /\ ui'.move = ui.move
  BY DEF IInv, TypeOK, Transient
<1>2. Tooled(ui', Live)
  BY <1>1 DEF IInv, Tooled
<1> QED
  BY <1>1, <1>2, SameCommandSound

LEMMA StartMoveStep == ASSUME IInv, StartMove PROVE IInv'
<1>1. /\ Same /\ Command
      /\ ui' \in {BeginMove(ui, Live), [ui EXCEPT !.armed = "move"]}
  BY DEF StartMove
<1>2. CASE ui' = BeginMove(ui, Live)
  <2>1. Live \in Token
    BY <1>1, LiveSame DEF IInv
  <2>2. /\ ui' \in Transient /\ Current(ui', Live) /\ Tooled(ui', Live)
        /\ ui'.swallow = ui.swallow /\ ui'.sessions = ui.sessions
    BY <1>2, <2>1, BeginMoveKeeps DEF IInv, TypeOK
  <2> QED
    BY <1>1, <2>2, LiveSame, CommandSound DEF IInv
<1>3. CASE ui' = [ui EXCEPT !.armed = "move"]
  BY <1>1, <1>3, Armed
<1> QED
  BY <1>1, <1>2, <1>3

LEMMA StartCopyStep == ASSUME IInv, StartCopy PROVE IInv'
<1>1. /\ Same /\ Command
      /\ ui' \in {BeginCopy(ui), [ui EXCEPT !.armed = "copy"]}
  BY DEF StartCopy
<1>2. CASE ui' = BeginCopy(ui)
  <2>1. /\ ui' \in Transient /\ Current(ui', Live) /\ Tooled(ui', Live)
        /\ ui'.swallow = ui.swallow /\ (ui'.sessions = ui.sessions \/ Quiet(ui'))
    BY <1>2, BeginCopyKeeps DEF IInv, TypeOK
  <2>2. \A p \in Pointers : ui'.sessions[p] # None =>
            ui.sessions[p] # None /\ ui'.sessions[p].copy = ui.sessions[p].copy
    BY <2>1 DEF Quiet
  <2> QED
    BY <1>1, <2>1, <2>2, LiveSame, CommandSound DEF IInv
<1>3. CASE ui' = [ui EXCEPT !.armed = "copy"]
  BY <1>1, <1>3, Armed
<1> QED
  BY <1>1, <1>2, <1>3

\* A tool or a placement that cancels the drag it starts over.
LEMMA ToolSound ==
    ASSUME IInv, Same, Command, NEW kind \in Kinds \ {"moving-selection"},
           NEW u \in Transient, Current(u, Live), u.move \in {ui.move, None},
           u.swallow = ui.swallow, ui' = Reduce(ClearTransient(u), kind)
    PROVE  IInv'
<1> DEFINE v == CancelDrag(u)
<1>1. /\ v \in Transient /\ Quiet(v) /\ v.move = u.move /\ v.swallow = u.swallow
  BY CancelDragQuiet
<1>2. ui' = Reduce(v, kind)
  BY ClearIsCancel
<1> HIDE DEF v
<1>3. /\ ui' \in Transient /\ Quiet(ui') /\ ui'.kind = kind /\ ui'.wire = None
      /\ ui'.move = v.move /\ ui'.swallow = v.swallow
  BY <1>1, <1>2, ReduceKeeps
<1>4. Tooled(ui', Live)
  BY <1>1, <1>3, ReducedTooled
<1> QED
  BY <1>1, <1>3, <1>4, SameCommandSound

LEMMA ActivateToolStep ==
    ASSUME IInv, NEW kind \in {"idle", "wire", "placing"}, ActivateTool(kind)
    PROVE  IInv'
<1> DEFINE u == IF ui.kind = "moving-selection" THEN [ui EXCEPT !.move = None] ELSE ui
<1>1. Same /\ Command /\ ui' = Reduce(ClearTransient(u), kind)
  BY DEF ActivateTool
<1>2. /\ u \in Transient /\ u.move \in {ui.move, None} /\ u.swallow = ui.swallow
      /\ u.sessions = ui.sessions /\ u.ref = ui.ref
  BY DEF IInv, TypeOK, Transient
<1> HIDE DEF u
<1>3. Current(u, Live)
  BY <1>2 DEF IInv, Current
<1>4. kind \in Kinds \ {"moving-selection"}
  BY DEF Kinds
<1> QED
  BY <1>1, <1>2, <1>3, <1>4, ToolSound

LEMMA AddTextStep == ASSUME IInv, AddText PROVE IInv'
<1>1. Same /\ Command /\ ui' = Reduce(ClearTransient(ui), "placing")
  BY DEF AddText
<1>2. "placing" \in Kinds \ {"moving-selection"}
  BY DEF Kinds
<1> QED
  BY <1>1, <1>2, ToolSound DEF IInv, TypeOK

LEMMA StartInsertStep == ASSUME IInv, StartInsert PROVE IInv'
<1> DEFINE u == IF ui.kind = "idle" THEN ui ELSE CancelAll(ui)
<1>1. /\ Same /\ Command
      /\ ui' \in {CancelAll(u), Reduce(ClearTransient(u), "placing")}
  BY DEF StartInsert
<1>2. /\ CancelAll(ui) \in Transient /\ Quiet(CancelAll(ui))
      /\ CancelAll(ui).move = None /\ CancelAll(ui).swallow = ui.swallow
  BY CancelAllQuiet DEF IInv, TypeOK
<1>3. Current(CancelAll(ui), Live)
  BY <1>2 DEF Current, Quiet
<1>4. /\ u \in Transient /\ Current(u, Live) /\ u.move \in {ui.move, None}
      /\ u.swallow = ui.swallow
  BY <1>2, <1>3 DEF IInv, TypeOK
<1> HIDE DEF u
<1>5. CASE ui' = CancelAll(u)
  <2>1. /\ ui' \in Transient /\ Quiet(ui') /\ ui'.kind = "idle" /\ ui'.wire = None
        /\ ui'.move = None /\ ui'.swallow = u.swallow
    BY <1>4, <1>5, CancelAllQuiet
  <2>2. Tooled(ui', Live)
    BY <2>1 DEF Tooled
  <2> QED
    BY <1>1, <1>4, <2>1, <2>2, SameCommandSound
<1>6. CASE ui' = Reduce(ClearTransient(u), "placing")
  <2>1. "placing" \in Kinds \ {"moving-selection"}
    BY DEF Kinds
  <2> QED
    BY <1>1, <1>4, <1>6, <2>1, ToolSound
<1> QED
  BY <1>1, <1>5, <1>6

LEMMA HideStep == ASSUME IInv, Hide PROVE IInv'
<1>1. Same /\ Command /\ ui' = CancelDrag(ui)
  BY ClearIsCancel DEF Hide, IInv, TypeOK
<1> QED
  BY <1>1, CommittedKeeps, SameCommandSound DEF OnCommit

LEMMA EditStep == ASSUME IInv, Edit PROVE IInv'
<1>1. Commit /\ Command /\ ui' = Transacted(ui)
  BY DEF Edit
<1>2. Tooled(ui', Live')
  BY <1>1, TransactedKeeps, TooledStays, LiveCommit DEF IInv
<1> QED
  BY <1>1, <1>2, TransactedKeeps, LiveCommit, QuietCommandSound DEF IInv

LEMMA CommitStructureStep ==
    ASSUME IInv, NEW d \in Docs, CommitStructure(d)
    PROVE  IInv'
<1>1. /\ Commit \/ (doc' = d /\ UNCHANGED <<project, rev>>)
      /\ Command /\ ui' = OnCommit(ui)
  BY DEF CommitStructure
<1>2. /\ project' \in Nat /\ doc' \in Docs /\ rev' \in [Docs -> Nat]
      /\ Live'.project = Live.project
  <2>1. CASE Commit
    BY <2>1, LiveCommit DEF IInv
  <2>2. CASE doc' = d /\ UNCHANGED <<project, rev>>
    BY <2>2 DEF IInv, TypeOK, Live
  <2> QED
    BY <1>1, <2>1, <2>2
<1>3. Tooled(ui', Live')
  BY <1>1, <1>2, CommittedKeeps, TooledStays
<1> QED
  BY <1>1, <1>2, <1>3, CommittedKeeps, QuietCommandSound

LEMMA ReplaceStep ==
    ASSUME IInv, NEW d \in Docs, SwitchDocument(d) \/ InstallProject(d)
    PROVE  IInv'
<1>1. /\ Command /\ ui' = CancelAll(ui) /\ doc' = d /\ rev' = rev
      /\ project' \in {project, project + 1}
  BY DEF SwitchDocument, InstallProject
<1>2. project' \in Nat /\ doc' \in Docs /\ rev' \in [Docs -> Nat]
  BY <1>1 DEF IInv, TypeOK
<1>3. Tooled(ui', Live')
  BY <1>1, CancelAllKeeps
<1> QED
  BY <1>1, <1>2, <1>3, CancelAllKeeps, QuietCommandSound

LEMMA StepInvariant == IInv /\ [Next]_vars => IInv'
<1> SUFFICES ASSUME IInv, [Next]_vars PROVE IInv'
  OBVIOUS
<1>1. CASE UNCHANGED vars
  BY <1>1 DEF vars, IInv, TypeOK, GesturesMissNoCommit, Live, Listening
<1>2. ASSUME NEW p \in Pointers, PointerStep(p) PROVE IInv'
  BY <1>2, PressPassesStep, PressHitStep, PickUpStep, DragStep, FrameStep,
     ReleaseStep, DropObjectStep, DropCopyStep, DropCopyRefusedStep,
     PointerCancelStep DEF PointerStep
<1>3. ASSUME NEW p \in Pointers, ClickStep(p) PROVE IInv'
  BY <1>3, NoClickStep, ClickSwallowedStep, AnchorWireStep, ClickWireStep,
     StaleMoveStep, LandMoveStep, LandCopyStep, LandPlacingStep DEF ClickStep
<1>4. CASE CommandStep
  BY <1>4, FinishWireStep, EndWireStep, HoverStep, EscapeStep, StartMoveStep,
     StartCopyStep, ActivateToolStep, StartInsertStep, AddTextStep, HideStep,
     EditStep, CommitStructureStep, ReplaceStep DEF CommandStep
<1> QED
  BY <1>1, <1>2, <1>3, <1>4 DEF Next

LEMMA Invariant == Spec => []IInv
  BY InitInvariant, StepInvariant, PTL DEF Spec

-------------------------------------------------------------------------------
(* The theorems. *)

\* Type correctness, and a wire in the wire tool only.
THEOREM TypeCorrect == Spec => []TypeOK
  BY Invariant, PTL DEF IInv

\* A session that listens is the one that a commit, Escape and a replaced
\* project cancel through the ref.
THEOREM SessionsAreCurrent == Spec => []ListeningIsCurrent
<1>1. IInv => ListeningIsCurrent
  BY DEF IInv, Current, ListeningIsCurrent, Listening
<1> QED
  BY <1>1, Invariant, PTL

\* No gesture lands on another project, Cell or revision than it was begun on.
THEOREM NoCommitMissed == Spec => []GesturesMissNoCommit
  BY Invariant, PTL DEF IInv

\* The click after a drag that committed changes nothing.
THEOREM CommitsOnce == Spec => PressesCommitOnce
<1>1. ASSUME IInv, Next, NEW p \in Pointers,
             press[p].landed, press[p].begun # "copy"
      PROVE  landing' = None /\ ui' = ui
  <2>1. press[p].at = "released" /\ ui.kind = "idle"
    BY <1>1 DEF IInv, Linked
  <2>2. ~Ready
    BY <2>1 DEF Ready
  <2>3. PICK q \in Pointers : ClickStep(q)
    <3>1. \A q \in Pointers : ~PointerStep(q)
      BY <2>2 DEF PointerStep, PressPasses, PressHit, PressHandle, PressOutline, PickUp, Down, Drag, Frame,
         Release, DropObject, DropOutline, DropCopy, DropCopyRefused, Released, PointerCancel,
         Command
    <3>2. ~CommandStep
      BY <2>2 DEF CommandStep, FinishWire, EndWire, Hover, Escape, StartMove,
         StartCopy, ActivateTool, StartInsert, AddText, Hide, Edit,
         CommitStructure, SwitchDocument, InstallProject, Command
    <3> QED
      BY <1>1, <3>1, <3>2 DEF Next
  <2>4. NoClick(q)
    BY <2>1, <2>3 DEF ClickStep, ClickSwallowed, AnchorWire, ClickWire, CommitWire,
       DropStaleWire, ClickStaleMove, DropStaleMove, LandMove, RefuseMove, Moving,
       LandCopy, LandPlacing
  <2> QED
    BY <2>4 DEF NoClick, NoLanding
<1>2. IInv /\ [Next]_vars =>
        [\A p \in Pointers : press[p].landed /\ press[p].begun # "copy"
            => landing' = None /\ ui' = ui]_vars
  BY <1>1
<1> QED
  BY <1>2, Invariant, PTL DEF Spec, PressesCommitOnce

\* The click of the press that picked a part up does not put it down.
THEOREM PickupsAreKept == Spec => PickupsStayInHand
<1>1. ASSUME IInv, Next, NEW p \in Pointers, press[p].at = "released",
             press[p].begun = "pickup", landing' # None
      PROVE  landing'.by \notin {"move", "copy"}
  <2>1. ui.swallow /\ ~Ready
    BY <1>1 DEF IInv, Linked, Ready
  <2>2. PICK q \in Pointers : ClickStep(q)
    <3>1. \A q \in Pointers : ~PointerStep(q)
      BY <2>1 DEF PointerStep, PressPasses, PressHit, PressHandle, PressOutline, PickUp, Down, Drag, Frame,
         Release, DropObject, DropOutline, DropCopy, DropCopyRefused, Released, PointerCancel,
         Command
    <3>2. ~CommandStep
      BY <2>1 DEF CommandStep, FinishWire, EndWire, Hover, Escape, StartMove,
         StartCopy, ActivateTool, StartInsert, AddText, Hide, Edit,
         CommitStructure, SwitchDocument, InstallProject, Command
    <3> QED
      BY <1>1, <3>1, <3>2 DEF Next
  <2>3. CommitWire \/ LandPlacing(q)
    BY <1>1, <2>1, <2>2 DEF ClickStep, NoClick, ClickSwallowed, AnchorWire, ClickWire,
       DropStaleWire, ClickStaleMove, LandMove, RefuseMove, LandCopy, NoLanding
  <2> QED
    BY <2>3 DEF CommitWire, LandPlacing, Lands
<1>2. IInv /\ [Next]_vars =>
        [\A p \in Pointers :
            /\ press[p].at = "released"
            /\ press[p].begun = "pickup"
            /\ landing' # None
            => landing'.by \notin {"move", "copy"}]_vars
  BY <1>1
<1> QED
  BY <1>2, Invariant, PTL DEF Spec, PickupsStayInHand

-------------------------------------------------------------------------------
(* Where a Move comes from, and who leaves it behind. *)

\* A Move session found outside its interaction was there before, and the
\* interaction it belonged to, if it was active, gave way to a placement.  One
\* found inside was there before or is of the Cell on the canvas.
Left(u, v) ==
    /\ v.move # None /\ v.kind # "moving-selection" =>
          /\ v.move = u.move
          /\ u.kind # "moving-selection" \/ v.kind = "placing"
    /\ v.kind = "moving-selection" =>
          \/ u.kind = "moving-selection" /\ v.move = u.move
          \/ v.move = Live

LEMMA CancelDragLeft ==
    ASSUME IInv
    PROVE  /\ Left(ui, ui) /\ Left(ui, CancelDrag(ui)) /\ Left(ui, OnCommit(ui))
           /\ CancelDrag(ui).kind = ui.kind /\ CancelDrag(ui).move = ui.move
           /\ CancelDrag(ui) \in Transient /\ Current(CancelDrag(ui), Live)
           /\ \A p \in Pointers : ui.sessions[p] # None =>
                  EndSession(ui, p) = CancelDrag(ui)
<1>1. /\ CancelDrag(ui).kind = ui.kind /\ CancelDrag(ui).move = ui.move
      /\ CancelDrag(ui) \in Transient /\ Quiet(CancelDrag(ui))
  BY CancelDragQuiet DEF IInv, TypeOK
<1>2. \A p \in Pointers : ui.sessions[p] # None => EndSession(ui, p) = CancelDrag(ui)
  BY EndSessionQuiet DEF IInv, TypeOK
<1> QED
  BY <1>1, <1>2 DEF Left, OnCommit, Current, Quiet

LEMMA CancelAllLeft ==
    ASSUME IInv
    PROVE  /\ CancelAll(ui).move = None /\ CancelAll(CancelDrag(ui)).move = None
           /\ CancelAll(ui).kind = "idle" /\ CancelAll(CancelDrag(ui)).kind = "idle"
<1>1. CancelAll(ui).move = None /\ CancelAll(ui).kind = "idle"
  BY CancelAllQuiet DEF IInv, TypeOK
<1>2. CancelAll(CancelDrag(ui)).move = None /\ CancelAll(CancelDrag(ui)).kind = "idle"
  BY CancelDragLeft, CancelAllQuiet
<1> QED
  BY <1>1, <1>2

\* A commit through transact() ends the Move with its tool.
LEMMA TransactedLeft ==
    ASSUME IInv
    PROVE  /\ Left(ui, Transacted(ui)) /\ Left(ui, Transacted(CancelDrag(ui)))
           /\ ui.kind = "moving-selection" => Transacted(ui).move = None
<1> DEFINE u == CancelDrag(ui)
<1>1. /\ u.kind = ui.kind /\ u.move = ui.move /\ u \in Transient /\ Current(u, Live)
  BY CancelDragLeft
<1>2. CancelAll(u).move = None /\ CancelAll(u).kind = "idle"
  BY CancelAllLeft
<1>3. CancelDrag(u).kind = u.kind /\ CancelDrag(u).move = u.move
  BY <1>1, CancelDragQuiet
<1>4. CancelAll(CancelDrag(u)).move = None /\ CancelAll(CancelDrag(u)).kind = "idle"
  <2>1. CancelDrag(u) \in Transient /\ Current(CancelDrag(u), Live)
    BY <1>1, CancelDragQuiet DEF Current, Quiet
  <2> QED
    BY <2>1, CancelAllQuiet
<1> HIDE DEF u
<1>5. Transacted(ui) = IF ui.kind = "idle" THEN u ELSE CancelAll(u)
  BY DEF Transacted, OnCommit, u
<1>6. Transacted(u) = IF u.kind = "idle" THEN CancelDrag(u) ELSE CancelAll(CancelDrag(u))
  BY DEF Transacted, OnCommit
<1>7. /\ Left(ui, Transacted(ui)) /\ Left(ui, Transacted(u))
      /\ ui.kind = "moving-selection" => Transacted(ui).move = None
  BY <1>1, <1>2, <1>3, <1>4, <1>5, <1>6 DEF Left
<1> QED
  BY <1>7 DEF u

LEMMA CopyLeft ==
    ASSUME IInv
    PROVE  Left(ui, BeginCopy(ui)) /\ Left(ui, CancelDrag(BeginCopy(ui)))
<1> DEFINE v == BeginCopy(ui)
<1>1. v \in Transient /\ Current(v, Live)
  BY BeginCopyKeeps DEF IInv, TypeOK
<1>2. Left(ui, v)
  <2>1. CASE ui.kind = "idle"
    <3>1. v = Reduce(CancelDrag(ui), "copy-placement")
      BY <2>1, ClearIsCancel DEF BeginCopy, IInv, TypeOK
    <3>2. v.move = ui.move /\ v.kind = "copy-placement"
      BY <3>1, CancelDragLeft, ReduceKeeps DEF Kinds
    <3> QED
      BY <2>1, <3>2 DEF Left
  <2>2. CASE ui.kind # "idle"
    BY <2>2, CancelDragLeft DEF BeginCopy
  <2> QED
    BY <2>1, <2>2
<1> HIDE DEF v
<1>3. CancelDrag(v).kind = v.kind /\ CancelDrag(v).move = v.move
  BY <1>1, CancelDragQuiet
<1>4. Left(ui, CancelDrag(v))
  BY <1>2, <1>3 DEF Left
<1> QED
  BY <1>2, <1>4 DEF v

\* A press meets the Move only when a commit has ended it.
LEMMA PressLeft ==
    ASSUME IInv, NEW p \in Pointers, NEW blurred \in BOOLEAN,
           \/ PressPasses(p, blurred)
           \/ \E copy \in BOOLEAN : PressHit(p, copy, blurred)
           \/ PressHandle(p, blurred) \/ PressOutline(p, blurred)
           \/ PickUp(p, blurred)
    PROVE  Left(ui, ui')
<1> DEFINE f == Focused(blurred)
<1>1. f = IF blurred THEN Transacted(ui) ELSE ui
  BY DEF Focused
<1>2. Left(ui, f)
  BY <1>1, TransactedLeft, CancelDragLeft
<1>3. f \in Transient /\ Current(f, Live')
  <2>1. TakeFocus(blurred)
    BY DEF PressPasses, PressHit, PressHandle, PressOutline, PickUp
  <2> QED
    BY <2>1, FocusKeeps
<1>4. Claimed(blurred) => f.kind = "idle"
  BY DEF Claimed
<1> HIDE DEF f
<1>5. CASE PressPasses(p, blurred)
  BY <1>2, <1>5 DEF PressPasses, f
<1>6. ASSUME NEW copy \in BOOLEAN,
             PressHit(p, copy, blurred) \/ PressHandle(p, blurred) \/ PressOutline(p, blurred)
      PROVE  Left(ui, ui')
  <2> DEFINE w == CancelDrag(f)
             s(c) == [copy |-> c, dragged |-> FALSE, seen |-> Live, opened |-> Live']
  <2>1. w \in Transient /\ w.kind = f.kind /\ w.move = f.move
    BY <1>3, CancelDragQuiet
  <2>2. PICK c \in BOOLEAN : ui' = [w EXCEPT !.sessions[p] = s(c), !.ref = p]
    BY <1>6 DEF PressHit, PressHandle, PressOutline, Begin, f
  <2> HIDE DEF w, s
  <2>3. ui'.kind = f.kind /\ ui'.move = f.move
    BY <2>1, <2>2 DEF Transient
  <2> QED
    BY <1>2, <2>3 DEF Left
<1>7. CASE PickUp(p, blurred)
  <2> DEFINE u == [f EXCEPT !.armed = None, !.swallow = TRUE]
  <2>1. ui' \in {u, BeginCopy(u), BeginMove(u, Live)} /\ f.kind = "idle"
    BY <1>4, <1>7 DEF PickUp, f
  <2>2. /\ u \in Transient /\ u.kind = f.kind /\ u.move = f.move
        /\ u.sessions = f.sessions /\ u.ref = f.ref
    BY <1>3 DEF Transient
  <2> HIDE DEF u
  <2>3. Current(u, Live')
    BY <1>3, <2>2 DEF Current
  <2>4. CASE ui' = u
    BY <1>2, <2>2, <2>4 DEF Left
  <2>5. CASE ui' = BeginCopy(u)
    <3>1. ui' = Reduce(CancelDrag(u), "copy-placement")
      BY <2>1, <2>2, <2>3, <2>5, ClearIsCancel DEF BeginCopy
    <3>2. ui'.move = f.move /\ ui'.kind = "copy-placement"
      BY <2>2, <2>3, <3>1, CancelDragQuiet, ReduceKeeps DEF Kinds
    <3> QED
      BY <1>2, <2>1, <3>2 DEF Left
  <2>6. CASE ui' = BeginMove(u, Live)
    <3>1. CASE u.move = None
      <4> DEFINE v == Reduce(u, "moving-selection")
      <4>1. v \in Transient /\ v.kind = "moving-selection"
        BY <2>2, ReduceKeeps DEF Kinds
      <4>2. ui' = [v EXCEPT !.move = Live]
        BY <2>6, <3>1 DEF BeginMove
      <4> HIDE DEF v
      <4>3. ui'.kind = "moving-selection" /\ ui'.move = Live
        BY <4>1, <4>2 DEF Transient
      <4> QED
        BY <4>3 DEF Left
    <3>2. CASE u.move # None
      BY <1>2, <2>2, <2>6, <3>2 DEF BeginMove, Left
    <3> QED
      BY <3>1, <3>2
  <2> QED
    BY <2>1, <2>4, <2>5, <2>6
<1> QED
  BY <1>5, <1>6, <1>7

LEMMA DragLeft ==
    ASSUME IInv, NEW p \in Pointers,
           \/ Drag(p) \/ Frame(p) \/ Release(p) \/ DropObject(p) \/ DropOutline(p)
           \/ DropCopy(p) \/ DropCopyRefused(p) \/ PointerCancel(p)
    PROVE  Left(ui, ui')
<1>1. CASE Drag(p)
  <2>1. ui'.kind = ui.kind /\ ui'.move = ui.move
    BY <1>1 DEF Drag, IInv, TypeOK, Transient
  <2> QED
    BY <2>1 DEF Left
<1>2. CASE Frame(p)
  BY <1>2, CancelDragLeft, CopyLeft DEF Frame, Dragged, Listening
<1>3. CASE Release(p) \/ PointerCancel(p)
  BY <1>3, CancelDragLeft DEF Release, PointerCancel, Listening
<1>4. CASE DropObject(p) \/ DropOutline(p)
  BY <1>4, CancelDragLeft, TransactedLeft DEF DropObject, DropOutline, Dragged, Listening
<1>5. CASE DropCopy(p) \/ DropCopyRefused(p)
  BY <1>5, CopyLeft DEF DropCopy, DropCopyRefused, OnCommit
<1> QED
  BY <1>1, <1>2, <1>3, <1>4, <1>5

\* A stale wire is dropped in its own tool.
LEMMA WireLeft ==
    ASSUME IInv, CommitWire \/ DropStaleWire
    PROVE  Left(ui, ui')
<1>1. CASE CommitWire
  <2>1. PICK next \in {None, Live'} : ui' = [CancelDrag(ui) EXCEPT !.wire = next]
    BY <1>1 DEF CommitWire, OnCommit
  <2> DEFINE u == CancelDrag(ui)
  <2>2. u \in Transient /\ u.kind = ui.kind /\ u.move = ui.move
    BY CancelDragLeft
  <2>3. ui' = [u EXCEPT !.wire = next]
    BY <2>1
  <2> HIDE DEF u
  <2>4. ui'.kind = ui.kind /\ ui'.move = ui.move
    BY <2>2, <2>3 DEF Transient
  <2> QED
    BY <2>4 DEF Left
<1>2. CASE DropStaleWire
  <2> DEFINE u == CancelDrag(ui)
  <2>1. u \in Transient /\ u.move = ui.move
    BY CancelDragLeft
  <2>2. ui' = Reduce(u, "idle") /\ ui.kind = "wire"
    BY <1>2, ClearIsCancel DEF DropStaleWire, IInv, TypeOK
  <2> HIDE DEF u
  <2>3. ui'.move = ui.move /\ ui'.kind = "idle"
    BY <2>1, <2>2, ReduceKeeps DEF Kinds
  <2> QED
    BY <2>2, <2>3 DEF Left
<1> QED
  BY <1>1, <1>2

LEMMA ClickLeft ==
    ASSUME IInv, NEW p \in Pointers, ClickStep(p)
    PROVE  Left(ui, ui')
<1>1. CASE NoClick(p)
  BY <1>1, CancelDragLeft DEF NoClick
<1>2. CASE ClickSwallowed(p) \/ AnchorWire(p)
  <2>1. ui'.kind = ui.kind /\ ui'.move = ui.move
    BY <1>2 DEF ClickSwallowed, AnchorWire, IInv, TypeOK, Transient
  <2> QED
    BY <2>1 DEF Left
<1>3. CASE ClickWire(p)
  BY <1>3, WireLeft DEF ClickWire
<1>4. CASE ClickStaleMove(p) \/ RefuseMove(p)
  <2> DEFINE v == Reduce(ui, "idle")
  <2>1. v \in Transient /\ v.kind = "idle"
    BY ReduceKeeps DEF IInv, TypeOK, Kinds
  <2>2. ui' = [v EXCEPT !.move = None]
    BY <1>4 DEF ClickStaleMove, RefuseMove, DropStaleMove
  <2> HIDE DEF v
  <2>3. ui'.move = None /\ ui'.kind = "idle"
    BY <2>1, <2>2 DEF Transient
  <2> QED
    BY <2>3 DEF Left
<1>5. CASE LandMove(p)
  BY <1>5, CancelAllLeft DEF LandMove, OnCommit, Left
<1>6. CASE LandCopy(p) \/ LandPlacing(p)
  BY <1>6, CancelDragLeft, TransactedLeft DEF LandCopy, LandPlacing
<1> QED
  BY <1>1, <1>2, <1>3, <1>4, <1>5, <1>6 DEF ClickStep

\* A tool ends the Move it is started over; only a placement does not.
LEMMA ToolLeft ==
    ASSUME IInv, NEW kind \in Kinds \ {"moving-selection"},
           NEW u \in Transient, Current(u, Live), u.move \in {ui.move, None},
           kind # "placing" /\ ui.kind = "moving-selection" => u.move = None,
           ui' = Reduce(ClearTransient(u), kind)
    PROVE  Left(ui, ui')
<1> DEFINE v == CancelDrag(u)
<1>1. v \in Transient /\ v.move = u.move
  BY CancelDragQuiet
<1>2. ui' = Reduce(v, kind)
  BY ClearIsCancel
<1> HIDE DEF v
<1>3. ui'.kind = kind /\ ui'.move = u.move
  BY <1>1, <1>2, ReduceKeeps
<1> QED
  BY <1>3 DEF Left

LEMMA ToolCommandLeft ==
    ASSUME IInv,
           \/ \E kind \in {"idle", "wire", "placing"} : ActivateTool(kind)
           \/ StartInsert \/ AddText
    PROVE  Left(ui, ui')
<1>1. ASSUME NEW kind \in {"idle", "wire", "placing"}, ActivateTool(kind)
      PROVE  Left(ui, ui')
  <2> DEFINE u == IF ui.kind = "moving-selection" THEN [ui EXCEPT !.move = None] ELSE ui
  <2>1. ui' = Reduce(ClearTransient(u), kind)
    BY <1>1 DEF ActivateTool
  <2>2. /\ u \in Transient /\ u.move \in {ui.move, None}
        /\ u.sessions = ui.sessions /\ u.ref = ui.ref
        /\ ui.kind = "moving-selection" => u.move = None
    BY DEF IInv, TypeOK, Transient
  <2> HIDE DEF u
  <2>3. Current(u, Live) /\ kind \in Kinds \ {"moving-selection"}
    BY <2>2 DEF IInv, Current, Kinds
  <2> QED
    BY <2>1, <2>2, <2>3, ToolLeft
<1>2. CASE StartInsert
  <2> DEFINE u == IF ui.kind = "idle" THEN ui ELSE CancelAll(ui)
  <2>1. ui' \in {CancelAll(u), Reduce(ClearTransient(u), "placing")}
    BY <1>2 DEF StartInsert
  <2>2. CancelAll(ui) \in Transient /\ Quiet(CancelAll(ui)) /\ CancelAll(ui).move = None
    BY CancelAllQuiet DEF IInv, TypeOK
  <2>3. u \in Transient /\ Current(u, Live) /\ u.move \in {ui.move, None}
    BY <2>2 DEF IInv, TypeOK, Current, Quiet
  <2> HIDE DEF u
  <2>4. CancelAll(u).move = None /\ CancelAll(u).kind = "idle"
    BY <2>3, CancelAllQuiet
  <2>5. "placing" \in Kinds \ {"moving-selection"}
    BY DEF Kinds
  <2>6. CASE ui' = CancelAll(u)
    BY <2>4, <2>6 DEF Left
  <2>7. CASE ui' = Reduce(ClearTransient(u), "placing")
    BY <2>3, <2>5, <2>7, ToolLeft
  <2> QED
    BY <2>1, <2>6, <2>7
<1>3. CASE AddText
  <2>1. "placing" \in Kinds \ {"moving-selection"}
    BY DEF Kinds
  <2> QED
    BY <1>3, <2>1, ToolLeft DEF AddText, IInv, TypeOK
<1> QED
  BY <1>1, <1>2, <1>3

LEMMA VerbLeft ==
    ASSUME IInv, StartMove \/ StartCopy \/ Escape \/ EndWire \/ Hover
    PROVE  Left(ui, ui')
<1>1. ui \in Transient
  BY DEF IInv, TypeOK
<1>2. \A verb \in {None, "copy", "move"} : Left(ui, [ui EXCEPT !.armed = verb])
  BY <1>1 DEF Transient, Left
<1>3. CASE StartMove
  <2>1. CASE ui' = BeginMove(ui, Live) /\ ui.move = None
    <3> DEFINE v == Reduce(ui, "moving-selection")
    <3>1. v \in Transient /\ v.kind = "moving-selection"
      BY <1>1, ReduceKeeps DEF Kinds
    <3>2. ui' = [v EXCEPT !.move = Live]
      BY <2>1 DEF BeginMove
    <3> HIDE DEF v
    <3>3. ui'.kind = "moving-selection" /\ ui'.move = Live
      BY <3>1, <3>2 DEF Transient
    <3> QED
      BY <3>3 DEF Left
  <2>2. CASE ui' = BeginMove(ui, Live) /\ ui.move # None
    BY <2>2, CancelDragLeft DEF BeginMove
  <2> QED
    BY <1>2, <1>3, <2>1, <2>2 DEF StartMove
<1>4. CASE StartCopy
  BY <1>2, <1>4, CopyLeft DEF StartCopy
<1>5. CASE Escape
  BY <1>2, <1>5, CancelDragLeft, CancelAllLeft DEF Escape, Left
<1>6. CASE EndWire
  <2>1. ui.kind = "wire" /\ ui'.kind \in {"wire", "idle"} /\ ui'.move = ui.move
    BY <1>1, <1>6, ReduceKeeps DEF EndWire, Transient, Kinds
  <2> QED
    BY <2>1 DEF Left
<1>7. CASE Hover
  <2> DEFINE v == Reduce(ui, "idle")
  <2>1. v \in Transient /\ v.kind = "idle" /\ ui' = [v EXCEPT !.move = None]
    BY <1>1, <1>7, ReduceKeeps DEF Hover, DropStaleMove, Kinds
  <2> HIDE DEF v
  <2>2. ui'.move = None /\ ui'.kind = "idle"
    BY <2>1 DEF Transient
  <2> QED
    BY <2>2 DEF Left
<1> QED
  BY <1>3, <1>4, <1>5, <1>6, <1>7

LEMMA OtherLeft ==
    ASSUME IInv,
           \/ FinishWire \/ Hide \/ Edit
           \/ \E d \in Docs : CommitStructure(d) \/ SwitchDocument(d) \/ InstallProject(d)
    PROVE  Left(ui, ui')
<1>1. CASE FinishWire
  BY <1>1, WireLeft DEF FinishWire
<1>2. CASE Hide
  <2>1. ui' = CancelDrag(ui)
    BY <1>2, ClearIsCancel DEF Hide, IInv, TypeOK
  <2> QED
    BY <2>1, CancelDragLeft
<1>3. CASE Edit
  BY <1>3, TransactedLeft DEF Edit
<1>4. ASSUME NEW d \in Docs, CommitStructure(d) \/ SwitchDocument(d) \/ InstallProject(d)
      PROVE  Left(ui, ui')
  BY <1>4, CancelDragLeft, CancelAllLeft
  DEF CommitStructure, SwitchDocument, InstallProject, Left
<1> QED
  BY <1>1, <1>2, <1>3, <1>4

\* Only the Text button leaves a Move session behind its interaction.
THEOREM MovesAreEnded == Spec => OnlyTextLeavesAMove
<1>1. IInv /\ Next => Left(ui, ui')
  BY PressLeft, DragLeft, ClickLeft, ToolCommandLeft, VerbLeft, OtherLeft
  DEF Next, PointerStep, CommandStep
<1>2. IInv /\ [Next]_vars =>
        [ui'.move # None /\ ui'.kind # "moving-selection"
         => \/ ui.kind = "moving-selection" /\ ui'.kind = "placing"
            \/ ui.move # None /\ ui.kind # "moving-selection"]_vars
  BY <1>1 DEF Left
<1> QED
  BY <1>2, Invariant, PTL DEF Spec, OnlyTextLeavesAMove

\* Whatever changes the Cell on the canvas ends the Move, or is a structural
\* commit.
LEMMA CellChanges ==
    ASSUME IInv, Next
    PROVE  \/ doc' = doc
           \/ ui'.kind = "idle"
           \/ \E d \in Docs \ {doc} : CommitStructure(d) /\ doc' = d
<1>1. ASSUME NEW p \in Pointers, PointerStep(p) PROVE doc' = doc
  BY <1>1 DEF PointerStep, PressPasses, PressHit, PressHandle, PressOutline, PickUp,
              TakeFocus, Drag, Frame, Release, DropObject, DropOutline, DropCopy, DropCopyRefused, PointerCancel, Same, Commit
<1>2. ASSUME NEW p \in Pointers, ClickStep(p) PROVE doc' = doc
  BY <1>2 DEF ClickStep, NoClick, ClickSwallowed, AnchorWire, ClickWire, CommitWire,
              DropStaleWire, ClickStaleMove, LandMove, RefuseMove, LandCopy, LandPlacing,
              Same, Commit
<1>3. ASSUME NEW d \in Docs, SwitchDocument(d) \/ InstallProject(d)
      PROVE  ui'.kind = "idle"
  BY <1>3, CancelAllLeft DEF SwitchDocument, InstallProject
<1>4. ASSUME NEW d \in Docs, CommitStructure(d)
      PROVE  doc' = doc \/ (doc' = d /\ d # doc)
  BY <1>4 DEF CommitStructure, Commit
<1>5. CASE \/ FinishWire \/ EndWire \/ Hover \/ Escape \/ StartMove \/ StartCopy
           \/ \E kind \in {"idle", "wire", "placing"} : ActivateTool(kind)
           \/ StartInsert \/ AddText \/ Hide \/ Edit
  BY <1>5 DEF FinishWire, CommitWire, DropStaleWire, EndWire, Hover, Escape, StartMove,
              StartCopy, ActivateTool, StartInsert, AddText, Hide, Edit, Same, Commit
<1> QED
  BY <1>1, <1>2, <1>3, <1>4, <1>5 DEF Next, CommandStep

\* An active Move is one of the Cell on the canvas, which its click commits or
\* drops, until a structural commit opens another Cell under it.
THEOREM MovesEnd == Spec => MovesCanBePutDown
<1>1. ASSUME IInv, Next, ui'.kind = "moving-selection"
      PROVE  \/ MoveIsHere'
             \/ \E d \in Docs \ {doc} : CommitStructure(d) /\ doc' = d
             \/ ui.kind = "moving-selection" /\ ui'.move = ui.move /\ ~MoveIsHere
  <2>1. Left(ui, ui')
    BY <1>1, PressLeft, DragLeft, ClickLeft, ToolCommandLeft, VerbLeft, OtherLeft
    DEF Next, PointerStep, CommandStep
  <2>2. ui'.move # None /\ ui'.move.project = project'
    BY <1>1, StepInvariant DEF IInv, Tooled, Live
  <2>3. CASE ui'.move = Live /\ doc' = doc
    BY <2>2, <2>3 DEF MoveIsHere, Live
  <2>4. CASE ui.kind = "moving-selection" /\ ui'.move = ui.move /\ doc' = doc
    BY <2>2, <2>4 DEF MoveIsHere, IInv, Tooled, Live
  <2> QED
    BY <1>1, <2>1, <2>3, <2>4, CellChanges DEF Left
<1>2. IInv /\ [Next]_vars =>
        [ui'.kind = "moving-selection" =>
            \/ MoveIsHere'
            \/ \E d \in Docs \ {doc} : CommitStructure(d) /\ doc' = d
            \/ ui.kind = "moving-selection" /\ ui'.move = ui.move /\ ~MoveIsHere]_vars
  BY <1>1
<1> QED
  BY <1>2, Invariant, PTL DEF Spec, MovesCanBePutDown
================================================================================
