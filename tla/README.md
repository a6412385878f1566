# Schematic Draft: a TLA+ verification project

Schematic Draft is an offline schematic editor (React, in an Electron shell).
A drawing is a *Project*: a set of *Documents* (Cells), each with a revision,
and a structure revision of the whole. What a user can lose in it is work, and
what keeps the work is a handful of components that call each other across
awaits, timers, an IndexedDB store, a disk and a page that can go away at any
moment. What a drawing *means* is its nets, and one component decides it: the
edit engine, which turns lists of edits into new Documents by rules that act on
each other. And what a person is in the middle of drawing is held by four pieces of
transient state that every handler of the canvas touches. Those are what this
project models. Geometry, compilers and
renderers are functions of immutable data and are left to their own tests.

| File | What it is |
|---|---|
| `VersionedProject.tla` | abstract specification: a change token that only moves forward |
| `DocumentHistory.tla` | undo and redo of one Document |
| `DocumentController.tla` | the live Project, a history per Document, Project-wide undo |
| `DocumentController_proofs.tla` | its proofs |
| `RecoveryStore.tla` | one write of the recovery store: rotation, retention |
| `RecoveryCoordinator.tla` | staging, debounce, write chain, identities, crash and restart |
| `RecoveryCoordinator_proofs.tla` | proofs of both: first what one write does to a store, then the coordinator |
| `ProjectFileLifecycle.tla` | dirty mark, save, replacement guard |
| `ProjectFileLifecycle_proofs.tla` | its proofs |
| `CloseGuard.tla` | the shell's question before a window closes, over the lifecycle |
| `CloseGuard_proofs.tla` | its proofs, over those of the lifecycle |
| `PendingOpen.tla` | a file handed to the shell, on its way into the window |
| `PendingOpen_proofs.tla` | its proofs |
| `LogicalNets.tla` | Base Nets, claims, logical nets and their conflicts |
| `NetEdits.tla` | the steps that merge, cut, bind and retire nets |
| `EditTransaction.tla` | one transaction: edits, contacts, normalisation, verdict |
| `NetEdits_proofs.tla` | lemmas about the operators of `LogicalNets` and `NetEdits` |
| `EditTransaction_proofs.tla` | the proofs about `EditTransaction`, from those lemmas |
| `CanvasGestures.tla` | presses, drags, clicks, tools, and the commits underneath |
| `CanvasGestures_proofs.tla` | its proofs |
| `MC*.tla`, `*.cfg` | instances for TLC |
| `PROJECT.json` | the inventory, the runs, the source line of every definition |

    tlc -config DocumentController.cfg MCDocumentController
    tlc -config RecoveryCoordinator.cfg MCRecoveryCoordinator
    tlc -config ProjectFileLifecycle.cfg MCProjectFileLifecycle
    tlc -config CloseGuard.cfg MCCloseGuard
    tlc -config PendingOpen.cfg MCPendingOpen
    tlc -config EditTransaction.cfg MCEditTransaction
    tlc -config CanvasGestures.cfg MCCanvasGestures
    tlapm DocumentController_proofs.tla
    tlapm RecoveryCoordinator_proofs.tla
    tlapm ProjectFileLifecycle_proofs.tla
    tlapm CloseGuard_proofs.tla
    tlapm PendingOpen_proofs.tla
    tlapm NetEdits_proofs.tla
    tlapm EditTransaction_proofs.tla
    tlapm CanvasGestures_proofs.tla

## 1. Inventory

`ed/` is `apps/editor/src/`, `doc/` is `apps/editor/src/document/`.

| Component | State it keeps | Operations | Interacts with | Correct when | Here |
|---|---|---|---|---|---|
| Document controller (`doc/document-controller.ts`) | live Project, active Document, symbol resolver, Map of histories, Project undo and redo stacks, session counter | open, edit, undo, redo, structural commit, replace | edit engine (calls), App (commit callback) | histories and Project agree, no step is lost, tokens advance | modelled, proved |
| Document history (`packages/edit-engine/src/history.ts`) | Document, two bounded stacks | transact | edit engine | prior state on top of a stack, revisions advance | modelled, proved |
| Project transactions, Project Code (`project-transaction.ts`, `project-code.ts`) | none | plan a whole new Project | controller | one structure revision per commit | partly |
| Recovery coordinator, scheduler (`doc/recovery-*.ts`) | pending candidate and timer, promise chain, working-copy id, record counter, published state | stage, flush, cancel, fork, delete, restore | store (await), sessionStorage, lifecycle | newest snapshot wins, chain never stops, discarded work stays gone | modelled, proved |
| Recovery store (`doc/browser-recovery-*.ts`) | IndexedDB records by working copy and generation | write with rotation and retention, delete | coordinator | bounded, last good record kept | partly, proved |
| File lifecycle (`doc/use-project-file-lifecycle.ts`) | persistence mark, binding, baseline, save in flight, guard dialog | save, open, new, revert, restore, guard | controller, recovery, file bridge (await) | mark tells the truth, guard always settles | partly, safety proved |
| Desktop close guard (`apps/desktop/src/close-guard.ts`, `main.ts`) | `approved`, one decision per press | ask, save, destroy | lifecycle (script in the page) | closing loses nothing it was not told to drop | modelled, safety proved |
| Pending open (`main.ts`, `App.tsx`) | one path in the shell, one in the editor | note, announce, collect, reopen | two processes | a file handed over is opened once, or superseded | modelled, safety proved |
| File bridge (`project-files.ts`, `app-protocol.ts`) | none | dialogs, read, write | disk | saved means written | outcomes only |
| File association, install paths, shortcuts | registry values | claim, release | reg.exe | claim is whole or absent | not modelled: fixed command sequences |
| Edit engine (`packages/edit-engine/src/transaction*.ts`) | a draft and what the transaction remembers | executeTransaction: edits, contacts, body policy, pruning | model, derived | nets are what the wires join, names follow wires, policy holds, nothing half applied | electrical edits, most proved |
| Planners (routing, contact, hierarchy) | none | geometry, plans of edits | edit engine | through the edit engine | not modelled |
| Interaction state, canvas gestures (`ed/interaction`, `ed/canvas`) | interaction kind, drag session, Move session, wire, armed verb, swallowed click | reducer events, pointer sessions, verbs, Escape | controller (transact, commit callback) | a gesture never commits a plan for a Document that moved, commits once, and can be ended | partly, proved |
| Selection, wiring, clipboard, hierarchy, drafting (`ed/features`) | drafts | plan edits | controller | through the controller | sessions only, in `CanvasGestures` |
| Derived connectivity (`packages/derived`) | caches by identity | logical nets, visible endpoints, contract check | edit engine, netlist | equal to a definition | as operators of `LogicalNets` |
| Netlist, SPICE, rendering, exporters | none | pure functions | all | equal to a definition | not modelled |

What is hard here is not computation but order: two copies of one Document that
each method has to keep equal; a timer, a save, a hidden page and a dialog that
all flush the same chain; identities and revisions that are compared in place of
content; answers that arrive after the Project they were about is gone; two
processes that ask each other questions; one press that is three events with
three handlers; and, inside one call, edits whose effects meet only at the end of
their transaction. `PROJECT.json` lists each hazard at the
line where it bites, with the property that would catch it, or why none does yet.

## 2. What is modelled

### Document controller (`DocumentHistory`, `DocumentController`)

The controller is synchronous, so one action is one call. A Document is its
revision and a content; a content publishes a symbol (`SymbolOf`), which is what
the resolver of the Project collects. Whether the engine accepts an edit is the
environment's choice: `DispatchEdit` is an accepted one, `RejectDispatch` every
way of committing nothing, `InternalError` the two `catch` blocks. `EditKinds`
are the kinds that matter to the controller: a definition edit (the listed
kinds), a drawing edit that leaves the published symbol alone, and a local power
rail, which the code treats as drawing although it adds a terminal.

| Variable | Code |
|---|---|
| `project`, `activeDocumentId`, `resolver` | `projectValue`, `activeDocumentIdValue`, `resolverValue` |
| `histories` | the `histories` Map; `historyValue` is its active entry in every method |
| `projectUndoStack`, `projectRedoStack`, `projectSessionCounter` | the same |

Structural commits come from `executeProjectTransaction` (one edit at a time) and
from Project Code, a whole Project written by the user. `AddDocument` starts at
revision 0, as every caller does.

### Recovery (`RecoveryStore`, `RecoveryCoordinator`)

`RecoveryStore` is one readwrite transaction as a function of the stored records:
rotation, retention plan, planned deletes by record id, then the puts. The code's
loop over the droppable records is said of each record: it goes when the cap is
still exceeded without all those before it in the order (previous records of other
sessions, then the active one's, then latest ones; the oldest session first). A
record id is the identity and a counter that starts again with each page, so two
pages of one identity can give out the same id; the planned deletes go by id, and a
plan that names a previous record can take the latest of the same inactive session
with it. That takes five calls, one more than the run's bound; the lemmas and the
theorems hold with it.
`RecoveryCoordinator` is one page: a pending candidate, the links of the promise
chain, the transactions IndexedDB has queued. A link reads the identity when it
runs, and its serialization failure, its size refusal and its aborted write all
end it. Deletes are transactions but not links, as in the code. The page can be
refreshed, crash, or come back in a new window between any two steps; what
survives is the store and, in the same window, the working-copy id.

Every page starts by moving the text of the retired localStorage slot (`legacy`)
into the store: `Migration` is the transaction its mount effect opens before any
other of the page, `Migrate` its commit with the removal that follows in the same
continuation, `AbortMigration` a slot left in place, `CrashInMigration` a page that
goes between the two, whose successor stores the same text under one more identity.
A text that cannot be parsed and one over the limit are alike here: the slot keeps
it. The restore after a refresh waits for the migration, as `recovery.ready` does.
Identities are random in the code; `NewCopy` is one that is not in use.

A text is a number that grows and a size. `owner` and `stagedAt` in a record are
ghosts. `LinkToStart` states that a link's start is a microtask of the call that
made it first: no other call comes between. The three failure states of the code
are one, `"failed"`.

`flushNow` awaits the links there are when it is called, and none that is queued
later. `saving` is the save in flight and the links it still awaits, `awaited` those
of the guard or of a refresh, `page` how far the one of these that holds the page has
come: `"guarding"` while `guardDirtyReplacement` awaits its flush with the canvas open,
`"asking"` with its modal dialog, `"keeping"` and `"discarding"` while an answer is
carried out. So an edit made while the guard waits can be a link of the chain when
"Continue without saving" deletes the session, and a save can settle, stage and flush
while the delete runs, under the identity that is not forked yet. Both write the
discarded copy again; the model does as the code does, and the ghost `discarded` holds
the snapshots that are thrown away for good (`ThrownAway`: all of the working copy so
far but the links the guard did not await). What happens when two guards, or a guard
and a refresh, overlap is left to `ProjectFileLifecycle`, as is the mark: which work is
worth asking about is the environment's choice here. Restoring a session goes through
no guard here, and what it stages is a new snapshot under a new identity.

### File lifecycle (`ProjectFileLifecycle`)

Every `await` ends an action. `save` is what `performProjectSave` closed over
(session, candidate, binding, whether it was a first save); `WriteSaved` is the
bridge's answer up to the second flush, `ConfirmSave` what follows that flush.
`replaceGuard` is the replacement the dialog asks about and `continuing` the
answer being carried out. A replacement carries the Project it read when it was
asked for, as the closures of the code do; `Materialized` is the transaction that
writes bulk defaults out on the way in. The shell can hand over a file at any
time, a dialog or not (`ShellRequest`).

The change token is a number here. That it moves forward and never repeats within
a session is what `DocumentController` is proved to implement
(`VersionedProject`). Recovery flushes are points in time, feature-owned text
buffers are empty, a failed write leaves the file as it was.

### Close guard (`CloseGuard`)

`CloseGuard` extends `ProjectFileLifecycle`: the page's actions run as they are,
kept out only by a message box of the window, while every press of the close
button runs a `decideClose` of its own in the main process. `decisions` is how far
each has come; one action per await. `Approve` is `approved = true` up to
`destroy()`, with the window's size still to be written, so the page can still
act. A press that is answered Save begins a save, or joins the one in flight
(`joined`) as `saveProject` does, whatever that one is writing and of whichever
Project. `SaveAttempt` is what all presses that wait for the one save in flight hear
when it settles. The renderer may crash at any moment (`PageGone`): a state that
cannot be read closes the window, a save that was asked for fails. `asked` (what the
window held when Save was answered) and `joined` are ghosts.

### Pending open (`PendingOpen`)

The slot of the main process, its announcements, the page's collects, their
answers in any order, the React state they set, the effects that read a file, and
the guard behind them. `asks` is what the closure that started a read will do
when the read is done: `guardDirtyReplacement` reads the persistence state of its
own render. `ProjectFileLifecycle` takes a read as a single moment; this module is
where it takes time.

### Edit transactions (`LogicalNets`, `NetEdits`, `EditTransaction`)

A terminal belongs to a Base Net; so do Junctions and Routes. A Base Net has no
name: labels, power markers and the imported declaration make *claims* on it, and
Base Nets that claim one name in one scope are one logical net. A cut, a merge
or a contact therefore has to decide, for each claim, each imported source, each
label and the Cell's bulk default, which of the nets it goes with. `LogicalNets`
is that data and what `packages/derived` reads from it, `NetEdits` the steps as
operators from a draft to a draft, `EditTransaction` the state machine.

| Variable | Code |
|---|---|
| `doc`, `draft` | the `document` argument and the clone in `executeTransaction` |
| `tx` | its locals: `deferredNetPruneIds`, `protectedEvidenceIds` (`protected`, by owner here), the contact licences (`licensed`, `typed`, `landed`), `suppressedPhysicalEndpointKeys` (`suppressed`), `explicitlyAuthoredRouteIds` (`authored`), `connectivityChanged` |
| `phase` | the stage of the call: edits, contacts, or none running |

One action is one edit, one contact that is joined, or the end; an edit whose own
guard refuses refuses the whole transaction, which then changes nothing and is
not a behaviour. `Apply` is the normalisation (`Normalized`: supply default
revoked, bodies rebound, deferred nets retired), the two checks and the commit;
`RejectTransaction` is what they or a contact between two supplies refuse. The
call is synchronous, so nothing interleaves with it and no fairness is stated:
what is checked is what any list of edits leads to.

How the data is cut down:

- each terminal stands for an instance with one pin; a body is the B pin of an
  NMOS (PMOS is the same code with the other supply) and `bound` says that its
  `MosBulkBinding` is one by policy, on the net of its `on`;
- a point is one of a few; a Route joins two endpoints and passes over at most one
  more point, as far as contacts can tell;
- one imported net is the origin of every `spice-source` evidence;
- a cut numbers its new nets in any order, and joins its contacts in any order,
  where the code goes by the order of its keys: what holds for all holds for that;
- `reconcile_mos_bulk` asks for all bodies, as its planner does;
- the label of an `upsert_annotation` is given the net of its anchor;
- a label or marker may claim any name of the run, local or global, a label of any
  supply or of none, as `connectivity.ts` and `transaction-net-power.ts` accept; a
  marker that is renamed keeps its supply, and nobody edits a declaration;
- `set_route_path` gives a Route new ends and a new way, but not another net: the
  rebuilt Route keeps its `netId`, so ends on another net are refused;
- `route_orthogonal`, which no planner issues, is left out.

Four things the code does are visible in the model and worth knowing.
`clear_mos_bulk_default` does not put the net it empties up for pruning, so a net
of the body policy can outlive its last pin (`NoGhostNets` leaves those out, which
is what the history `tx.cleared` is for). A
cut that leaves one group does not count as a change of connectivity, and nothing
electrical does change, with one exception: a Ground marker on a global node 0 of
which no claim says a supply is given its claim by the cut
(`transaction-route-topology.ts:444-447`), and nothing is reported (569). The text of a VDD marker is a label that owns no claim, so
a cut leaves its `netId` on the part that kept the id; the marker's claim moves.

### Canvas gestures (`CanvasGestures`)

| Variable | Code |
|---|---|
| `ui.ref`, `ui.sessions` | `canvasDragSessionRef`, and the drag sessions whose listeners are attached |
| `ui.kind`, `ui.wire` | the interaction state and its wire's source with `sourceRevision` |
| `ui.move` | `commandMoveSessionRef` (its `documentId` and `baseRevision`) |
| `ui.armed`, `ui.swallow` | `armedVerb`, `suppressCommitClickRef` |
| `project`, `doc`, `rev` | which opening, the Cell on the canvas, the revisions of the Cells |
| `press` | the events of a pointer so far: down, released, its click still to come |
| `landing` | a ghost: what the last step committed, planned on what, begun on what |

The reducers of the transient state (`CancelDrag`, `Reduce`, `CancelAll`,
`OnCommit`, `Transacted`, `Begin`, `BeginCopy`, `BeginMove`) are operators named
for the functions, and an action is one event and every call its handler makes. A
plan is the Document it was made from, a `Token`: Project, Cell and revision. An
`Edit` stands for whatever commits through `transact()` while a gesture lasts:
Undo, Redo, a panel, the end of an await; `CommitStructure` for structural commits,
which cancel the drag and no tool. `InstallProject` leaves the revisions as they
were, the worst case for those who compare them.

Assumed of the browser and of React: the click of a press follows its release
before other input is handled (`Ready`), and a render precedes the next event, so
a handler's closure sees the Document of the moment, except inside one event
(`TakeFocus`, the blur a press causes). Placing a part, a VDD rail and drawing a
line are one kind, `"placing"`. Two presses begin a drag in that kind too: on the
handle of a drafting object (`PressHandle`) and, with the outline arrow, on the canvas
(`PressOutline`, landed by `DropOutline`).

Five things the code does are visible in the model and worth knowing. A Shift-drag
released before its first frame is committed by the release (`DropCopy`: `finish`
calls `onPreview`, which cancels the session, and then `onFinish` all the same) and
its copy stays in hand for the click; `PressesCommitOnce` excepts it. The Text
button during a Move ends the interaction and keeps the Move session, so M is
refused until a tool or another Cell ends it; `OnlyTextLeavesAMove` is the
statement that nothing else does. A wire compares the revision alone, and a
structural commit that opens the Cell it made ends no wire, so a wire begun in one
Cell can land in another at the same revision; `GesturesMissNoCommit` excepts the
Cell of a wire. The same commit opens its Cell under an active Move and leaves the
session behind (New Cell: `onCellCreated`, `App.tsx:813`, only resets the document
stack): presses are stopped, and a click finds a session of another Cell and does
nothing (`use-selection-interaction.ts:576`), until Escape, a tool, a commit or a
switch of Cells; `MovesCanBePutDown` names this way in as the only one. And a
picked-up part whose click never comes leaves
`suppressCommitClickRef` set, which swallows the next click of a Move or a copy.

## 3. What each run checks

| Run | States | Shows |
|---|---|---|
| `DocumentController.cfg` | 205 023 | seven properties of the controller |
| `RecoveryCoordinator.cfg` | 868 609 | seven properties of one page and its store |
| `ProjectFileLifecycle.cfg` | 439 780 | four properties of mark, save and guard |
| `CloseGuard.cfg` | 409 997 | three properties of overlapping close decisions |
| `PendingOpen.cfg` | 13 268 | four properties of handed files |
| `EditTransaction.cfg` | 223 585 | eight properties of edit transactions |
| `CanvasGestures.cfg` | 626 604 | seven properties of presses, tools and commits |
| `BlurredEdit.cfg` | violated | a drag puts back the field that its own press committed |
| `CancelledSave.cfg` | violated | a cancelled first Save clears the dirty mark |
| `CloseAfterSave.cfg` | violated | Save, answered to the close prompt, joins a save of an older text |
| `UnsavedWork.cfg` | violated | a drawing begun while a file is read is replaced unasked |
| `CustomDefault.cfg` | violated | a body default chosen on purpose is moved back to the ground net |

Properties, and what could break them:

- **`HistoriesInSync`** Project and histories are two copies of the same Documents,
  kept equal by hand; a method that resets one and not the other breaks it.
- **`RedoNeverOverwritesNewerWork`** a Project redo rewrites every Document; it may
  be on offer only while none has a step of its own.
- **`StackedStatesAreOlder`**, **`TokensOnlyAdvance`** undo restores old content
  under a new number; one that forgets to renumber makes two contents share a
  token. The second is a refinement: the controller implements `VersionedProject`.
- **`PriorWorkStaysReachable`** what a step replaces is on top of a stack.
- **`ResolverFollowsDefinitions`** the resolver is left behind by nothing but the rail.
- **`RetentionHolds`**, **`LastGoodSurvives`** both caps, and the last good record,
  under any order of writes, deletes and restarts.
- **`NewerSnapshotWins`**, **`StoredMeansCurrent`** overlapping flushes keep their
  order, and "stored" is said of the text the user sees.
- **`DiscardedWorkStaysGone`** no snapshot that "Continue without saving" has thrown
  away is newly written while the page lives, through the delete, the replacement and
  every later write; a timer or a link that survives the answer would break it. Said of
  the snapshots the guard flushed and awaited and of what was pending, not of the two
  kinds the code does write again (section 6).
- **`StagedWorkSettles`** (liveness) again and again nothing is pending, no link waits
  and the state shown is not "pending": no failure stops the chain.
- **`CleanMatchesBaseline`**, **`DirtyMarkSurvives`** late answers, newer edits and
  failed writes never clear the mark of work that is not in its file; a cancelled
  first Save does, which the second names as the only exception and
  `CancelledSave.cfg` is about.
- **`GuardSettles`** (liveness) the dialog is never left busy.
- **`DroppedWorkWasGivenUp`** unsaved work is closed over only after Don't Save, or
  when the awaited Save is in a file (and bound, if its Project is still there); a Save
  that the answer itself began is of the Project and the text of that answer, although
  edits and replacements go on while it writes. A Save that joined one in flight is
  the named exception, and `SaveLosesNothing` shows what it costs.
- **`PressesAreDecided`**, **`UnanswerableCloses`** (liveness) every press comes to an
  end, and a page that cannot answer does not keep its window.
- **`TakenOnce`** a file is in one place: shell, answer, state, read, dialog, window.
- **`HandedFilesAreOpened`** (liveness) no empty answer and no late announcement loses it.
- **`StartupReopenYields`** the last file's reopen is stood down in time.
- **`CutSeparates`** a cut leaves two endpoints on one net exactly when Routes and
  contacts still join them: the groups of the code against a definition by paths.
- **`CutKeepsSupplies`** a marker that stood for a supply, by a claim of its own or
  by sharing another's, stands for it after a cut, under the same name; no part of the
  net takes up another name or supply; a part of node 0 left without a Ground marker or
  a label stops being ground. It is said of nets
  with one name and one scope whose claims are `InPlace` (a label or marker that
  claims a name on the net stands on it and a marker claims what its symbol stands
  for; between the edits of one transaction neither need be so, and then a claim goes
  with its owner to another net), and of markers that `Speak` (a Ground marker
  without a claim on a net that is not called `0` states nothing to keep).
- **`LabelsStayOnTheirWire`** claims and labels are moved by four different
  helpers; a name they leave behind would rename a wire nobody touched.
- **`SourceStatusIsHonest`** every step has to report that it changed what is
  connected; one that forgets leaves a Document marked as its imported source. A
  global node 0 is ground whether or not a claim says so (`SupplyOn`), which is what
  makes the silent claim above no change; and it is said of Documents that keep node 0
  as the importer and the planners make it (`NodeZeroIsGround`: declarations of it are
  global and not of VDD, Ground markers say ground of it). Labels may say anything of it.
- **`NoGhostNets`** pruning is put off to the end of a transaction, and a net that
  something forgot to put up for it stays in every netlist.
- **`NoConflictIsIntroduced`** the contract is checked only when connectivity is
  said to have changed. With the same `NodeZeroIsGround`.
- **`BoundBodiesFollowTheDefault`** the default moves, merges, is cut, retired or
  revoked in one place, and the bodies that follow it are found in another.
- **`ProvenanceFollowsTerminals`** evidence of the imported source is copied to every
  part of a cut; a step that drops it would lose the way back to the netlist.

- **`ListeningIsCurrent`** commits, Escape and replaced Projects reach a drag only
  through one ref, which a second pointer's drag takes over.
- **`GesturesMissNoCommit`** drag, wire and Move each notice a commit in a way of
  their own; this is what the three ways are for.
- **`MovesCanBePutDown`** a Move is a ref and a reducer state; with the state alone, or
  with a session of another Cell, every press is stopped and no click answers. No step
  but a structural commit that opens another Cell leads there.
- **`PressesCommitOnce`**, **`PickupsStayInHand`** the click of a press meets whatever
  tool is active by then, and must neither commit what the release did nor put
  down what the press picked up.
- **`OnlyTextLeavesAMove`** the same two pieces the other way round: a session left
  behind refuses every later Move.

Five runs are expected to fail. Each checks one sentence of a doc or a comment
and shows the code does otherwise; `PROJECT.json` quotes both.

**Bounds.** Controller: two Documents (one can be added and removed, the other is
the top), two contents that publish different symbols, history limit 1 so that
every push evicts, three revisions of the top and one of the child, three
structure revisions, two sessions. Undo, redo, eviction, removal and re-creation
all occur, and a longer stack repeats the same push and pop. Recovery: three
working copies against a cap of two sessions, texts of a size at the record
limit and one over it, a total cap of three records, four calls of the
environment (`MaxClock`), a legacy slot that is empty or holds a text at the limit
or over it. Both caps bite and every failure occurs. Lifecycle: one file on disk and
one free path, three contents (blank, one with a default to write out, complete),
two edits per session, two sessions a request can start from. Close guard: two presses, one path to save
to, two contents, one edit per session (two in `CloseAfterSave.cfg`, whose story
needs them); crash, cancel, failure, joined saves and handed files all occur.
Pending open: three files, so that one can be superseded, one in flight and one on
screen. Edit transactions: every list of two edits on five Documents (an
imported ground star whose marker shares the declaration, a labelled wire that
passes over a parked pin, two nets of which one is the ground of a body, a VDD
marker with its text, a loop whose label alone says that it is a global node 0, of no
supply), with four points, three pins, one body, one marker of each supply, one
label and ids for six nets. Cuts in two and in three, contacts of both kinds, the
hand-over of a default and both verdicts occur. Two edits are not enough for every
story: a label that is moved, cut off and merged again takes three, and a net that
clearing left empty and a later edit drops takes seven. Random behaviours of six
and of fourteen edits (some 2 500 000 states of either) break none of the properties,
and the theorems below do not depend on the number. `CustomDefault.cfg` needs one
edit. Gestures: two Cells, two pointers (interchangeable, which the run's symmetry
uses), two revisions of each Cell and two Projects: a commit before, during and
after a gesture, a drag under a drag, every tool met by every release; a third
pointer could only repeat the second, as the ref holds one session. `CHECK_DEADLOCK
FALSE` is said where the bound on calls lets the model stop.

**Fairness.** Recovery: a timer that is armed fires once its user pauses (weakly
fair `Flush`; calls are bounded, so they do pause), a settled promise runs the
next link, which builds its record or fails (weakly fair together), and IndexedDB
commits or aborts the first transaction it was given; that it commits is not assumed. Lifecycle: a write or its dialog
settles, the flush after it does, a delete does, microtasks run. Close guard: scripts settle and message boxes are answered (they
are modal). Pending open: the page loads, events, requests and answers arrive,
effects run; reads and people owe nothing. No fairness is
put on anything a user or the shell may choose to do, except that an open dialog
for a path is answered.

## 4. What is proved

`DocumentController_proofs` proves, for every finite or infinite set of Documents
and contents, every history limit and every bound, with no assumption but the
named ones of the two modules (the limit is a positive number, the markers are
not values, installed Projects are Projects):

| Theorem | Property |
|---|---|
| `TypeCorrect` | `TypeOK` |
| `HistoriesStayInSync` | `HistoriesInSync` |
| `RedoIsSafe` | `RedoNeverOverwritesNewerWork` |
| `StackedStatesStayOlder` | `StackedStatesAreOlder` |
| `ControllerImplementsVersionedProject` | `TokensOnlyAdvance` |
| `PriorWorkIsKept` | `PriorWorkStaysReachable` |
| `DefinitionsAreFollowed` | `ResolverFollowsDefinitions` |

The inductive invariant `IInv` is the conjunction of the four invariants. Types
alone are inductive only with the agreement of histories and Project (the top of
a stack becomes the live Document); the age of stacked states needs that
agreement too, because a restored revision is computed from the live one; and the
rule about redo needs the histories to be rebuilt by every structural step. TLC
checks the same four. Lemmas about `PushBounded` and about popping a stack carry
the sequence reasoning; the other steps are one per action. The action properties
follow from `IInv` step by step.

`RecoveryCoordinator_proofs` proves, for every number of calls, copies and texts,
every set of sizes and all caps that `StoreAssumption` allows: a total that holds one
record of the largest size for every session and one more. The code's caps (two
sessions, 4 MB a record, 12 MB in all; `browser-recovery-contract.ts`) do exactly
that. Without it a plan could drop the very record a page is writing.

| Theorem | Property |
|---|---|
| `Invariant` | the inductive invariant |
| `TypeCorrect` | `TypeOK` |
| `RetentionIsKept` | `RetentionHolds` |
| `StoredIsLive` | `StoredMeansCurrent` |
| `NewerWins` | `NewerSnapshotWins` |
| `LastGoodIsKept` | `LastGoodSurvives` |
| `DiscardedStaysGone` | `DiscardedWorkStaysGone` |

The first half of the module is about one write, from any store whose records are
where they say they are (`WellFormed`): `PlanSparesActive` (the plan names no record
of the session written to), `WriteIs` (so the write is the rotation of that session
and deletes in the others), `WriteKeepsContract` (what is left is within both caps,
whatever was stored) and `WriteEffect` (a replaced text becomes the previous
generation). The order of the sessions is shown total, and the byte count monotone,
by the cardinalities of numbered bytes. The second half ties the queue of transactions
to the chain and the store: `WritesMirror` says that the open write is the head of
the chain, `MigrationIsolated` that a migration is first and under an identity nobody
else has, `InOrder` that times of staging ascend from what is stored over the
migration and the chain to what is pending, `LastIsLive` that the last thing staged is
the live Project, `NothingGone` that no snapshot on its way has been thrown away: what the dialog
may throw away was staged before the links the guard did not await, the dialog opens
with nothing awaited, and what comes later has a later stamp.
`NewerSnapshotWins` is `InOrder` read at a commit; `StoredMeansCurrent` is inductive
only with `LastIsLive`, which in turn needs `WritesMirror`.

`ProjectFileLifecycle_proofs` proves, for any contents, files, restorable records and
bounds, from `LifecycleAssumption` (constants have their types, and writing defaults
out twice is writing them out once):

| Theorem | Property |
|---|---|
| `TypeCorrect` | `TypeOK` |
| `CleanIsBaseline` | `CleanMatchesBaseline` |
| `MarkSurvives` | `DirtyMarkSurvives` |

What makes `CleanMatchesBaseline` inductive is what is known of a save in flight
(`SaveBehind`): it belongs to no later session; while it is of the live one the mark
is dirty, its candidate is an earlier state of the Project or the Project itself
(`Behind`), the binding is the one it started from until it has written, and file and
baseline are the candidate since. `Consistent` says the same of a replacement that
waits in the dialog: it brings a baseline only with its file. `Bounded` and `GuardOK`
are what the type invariant needs of the dialog and its answer.

`CloseGuard_proofs` adds, for any number of presses, `WorkIsGivenUp`
(`DroppedWorkWasGivenUp`) from that same invariant and two more facts. The candidate of
a save that has written stays in a file until its flush is confirmed, also if its
session is gone by then (`Written`). And while a press waits for a save that its own
answer began, the save in flight is that one, of what the window held at that answer
(`AskedSave`), which needs that no attempt ends without all who wait for it hearing of
it (`AttemptEndsWaiting`). What the shell does while a decision waits keeps
the editor's invariant because it calls the editor's actions. It does not always call
them where the editor would: it starts a save while a dialog is open and hands over a
file behind a message box, which are no steps of the lifecycle's own `Next`. So the
editor's promises are proved again for `CloseSpec`: `CleanUnderPresses`
(`CleanMatchesBaseline`) and `MarkSurvivesPresses` (`DirtyMarkSurvives`).

`PendingOpen_proofs` proves, for any number of files handed over, with no
assumption but `PendingOpenAssumption` (the bound is a natural number, the last
file and the two markers are no numbers and differ):

| Theorem | Property |
|---|---|
| `TypeCorrect` | `TypeOK` |
| `FilesAreTakenOnce` | `TakenOnce` |
| `ReopenYields` | `StartupReopenYields` |

`TakenOnce` counts places and is not inductive: a step could move a file that was
never handed over, or the last file a second time. Its strengthening orders the
places. `Exclusive` says that a file in one place is in none of the later ones,
`Numbered` that a file not handed over yet is nowhere, and `StoodDown` that a
file beyond the bridge, the last file included, has set
`startupReopenAttempted`. `Counted` bounds the requests in flight by the
announcements, which the last conjunct of `TypeOK` needs when the page mounts.
`ReopenYields` is `StoodDown` read at the guard of `StartupReopen`.

`EditTransaction_proofs` proves, for every Document, any number of pins, bodies,
markers, labels, Junctions, Routes and edits, from `LogicalNetsAssumption` (there are
finitely many endpoints and names; terminals, Junctions, Routes and the marker `None`
are distinct, bodies are no other terminals, the imported declaration is no marker)
and `EditTransactionAssumption` (a transaction starts from a Document the schema
accepts, on which the policy holds):

| Theorem | Property |
|---|---|
| `Invariance` | the inductive invariant of what follows first |
| `PolicyIsKept` | `BoundBodiesFollowTheDefault` |
| `ProvenanceIsKept` | `ProvenanceFollowsTerminals` |
| `DocumentsStayWhole` | Document and draft are typed, and nets that are referred to exist |
| `CutsSeparate` | `CutSeparates` |
| `SuppliesOutliveCuts` | `CutKeepsSupplies` |
| `NamesFollowTheWire` | `LabelsStayOnTheirWire` |
| `NoGhostStays` | `NoGhostNets` |
| `SourceStatusIsKept` | `SourceStatusIsHonest` |
| `ConflictsAreNotIntroduced` | `NoConflictIsIntroduced` |

`IInv` is `Traced /\ PolicyHolds(doc)`. Policy need not hold of the draft: it is
restored by `reconcileBindings`, and the proof is that nothing after it (pruning)
disturbs it. Provenance does have to be carried through every edit: `Traced` says
that the draft follows the Document (`Follows`: a terminal that was on an imported
net and was not disconnected is on an imported net of the draft), that both are
`Sound` enough for the next step, and that the transaction remembers what it
suppressed.

Five of the others rest on `Settles`: Document and draft are `Whole`, Junctions at the
ends of Routes are on their nets (`JunctionsJoin`, without which a cut could tear a
Route from its end), and every net of the Document that still had something on it has
so in the draft, or the transaction remembers it (`StillPeopled(doc, draft,
tx.deferred \cup tx.cleared)`). The last part is the memory that pruning at the end
relies on, and each edit that takes something off a net has to be shown to feed it.
The draft need not be well formed: a label and its claim may stand on different nets
between an `upsert_schematic_annotation` and the edit that follows it, and the
invariant says nothing of that.

`SuppliesOutliveCuts` needs more than the invariant: what a net is called depends on
every net its name joins it to, and a cut moves claims. `Scatters` is what a cut does
to them: each claim on the net is on one of its parts afterwards, a marker's on the
part of the marker, and every other claim is where it was (`TornScatters`,
`CutScatters`). Then the set of the parts and of the nets that were one with the net
is closed under names, so that the logical net of a part has no name and no supply
that the net had not (`Inherited`, `InheritsOnly`); the part of a marker has at least the marker's own
claim, which it had or was given before the net was divided (`InheritsSupply`). For
the last conjunct the declaration of node 0 is shown to be gone, so that a part
without marker and label is a logical net on which nothing is said
(`ScatteredSupply`).

The last two rest on `Honest`: as long as no edit has reported a change, Document and
draft are `Alike`: terminals are on the same nets, the same nets are joined by equal
names, and each has the same names, scope and supply. Equality of
the drafts would be false. A cut that tears nothing first has the markers of the net
state the claim they shared and takes the imported declaration of a grounded net away
(`WithMarkersNamed`), and reports nothing; the body policy may retire an empty net. So
each silent edit has to be shown to restate or to retire only what is said already
(`Restating`, `Trimming`), and the reporting ones have to be shown to report.
For a marker that restates a name, that rests on what node 0 is. A Ground marker on
a node 0 that a global Net Label names, of no supply, states ground on a cut, and the
cut reports no change: the theorems hold because a global node 0 is the ground of every
netlist anyway (`SupplyOn`). What they do not cover are Documents whose declaration of
node 0 is local or of VDD, or whose Ground marker claims a global `0` of another
supply. The importer gives every declaration of node 0 its ground (`importer.ts:477-500`)
and every placed marker comes with the claim of its contract
(`power-net-planner.ts:43-110`), but the schema asks for neither: `NodeZeroIsGround` is
the condition of these two properties, and it is shown to last through the silent
edits. Nothing is asked of labels.

`NetEdits_proofs` holds the lemmas for single operators. `Component` is a recursive
function that grows a set; `Components` and the lemmas before it show, by the choice
of a least number, that on finite sets its value is the least set that contains the
start and is closed under the relation. From that: the groups of a cut
partition the endpoints, and two of them are in one group exactly when no set
separates them (`Divisions`), which is what `CutSeparates` says with `Apart`. For each
operator there is a lemma that it keeps a Document `Whole`, and one that it keeps nets
peopled and names on their wires (`Good`, `Carries`). `EditTransaction_proofs` then has
two lemmas per edit, one for either of the first two invariants (`...Keeps` and
`...Firm` or `...Lasts`); `EditSpeaks` and `EditAlike` go through the edits for the
third.

Stating these theorems for any number of edits changed three properties. Two edits had
not shown that a label which is moved by an annotation edit, cut off and merged back
comes to stand where its claim does not, and that `clear_mos_bulk_default` can take
the last terminal of a net to which earlier edits had moved the body:
`LabelsStayOnTheirWire` now speaks of each step and of labels not stated anew, and
`NoGhostNets` leaves out the nets of which the transaction cleared a body. Neither had
they shown the nets that `InPlace` keeps out of `CutKeepsSupplies`.

`CanvasGestures_proofs` proves, for any Cells, any number of pointers and any
bounds, from `CanvasAssumption` (the first Cell is one, the marker `None` is
neither a pointer nor a token):

| Theorem | Property |
|---|---|
| `TypeCorrect` | `TypeOK` |
| `SessionsAreCurrent` | `ListeningIsCurrent` |
| `NoCommitMissed` | `GesturesMissNoCommit` |
| `MovesEnd` | `MovesCanBePutDown` (an action property: every step is shown to keep the Move here, or to be the named commit) |
| `CommitsOnce` | `PressesCommitOnce` |
| `PickupsAreKept` | `PickupsStayInHand` |
| `MovesAreEnded` | `OnlyTextLeavesAMove` |

`NoCommitMissed` cannot be shown of a landing alone: one has to know, at every
moment, that what a gesture was begun over is still there. `Current` says it of the
drag (the one session that listens is in the ref and was opened over `Live`),
`Tooled` of Move and wire (they are of this Project, and exist only with their
tool), and `Linked` ties each press to the session it began: a listening session
has its pointer down, a pickup has its click to swallow, and a press that landed
finds the pointer tool. That last part is what `CommitsOnce` needs, for which the
click is a step of another handler. The lemmas say what each operator on the
transient state keeps, under the names of the code; a commit that cancels through
the ref leaves no session (`Quiet`), which is why `Current` survives a change of
revision. TLC checks `IInv` on the same instance.

Only model-checked:

- all liveness (`StagedWorkSettles`, `GuardSettles`, `PressesAreDecided`,
  `UnanswerableCloses`, `HandedFilesAreOpened`): the prover does not reach fairness
  and `ENABLED`;
- the five properties that are violated.

## 5. What is not modelled, and why

Two editors over one recovery store (the desktop's single-instance lock excludes
them); unreadable records;
feature-owned text buffers (`beforeSnapshot`); a renderer that hangs without
dying; a page reloaded between collecting a file and opening it; exceptions thrown by a
replacement; a write that fails half way; edits the engine rejects for reasons of
data; structural edits that rewrite several Documents at once (`import_cell`,
interface edits with their callers). Of the edit engine: layout groups,
constraints and locks, formal terminals and no-connects, power rails, moving,
rotating, mirroring and aligning, instances that come or go, `move_junction`, the
direct contacts a transform keeps, the redrawing of conductors and the preflight
of geometry. Of the canvas: panning, zooming and the marquee, drawing an arrow by
its end points, armed Rotate and Delete, placing a net label, laying out a Cell's
symbol, a handler that throws. Of the shell: the file association (`reg.exe`), edits made while the
window's size is being written and a file handed over before the window exists,
which the models perform and no property claims anything of. Each is a hazard in `PROJECT.json` where the
code is exposed to it.

## 6. Plan

In this order; what is done is marked.

1. **done** `DocumentHistory`, `DocumentController`, refinement of `VersionedProject`, proofs.
2. **done** `RecoveryStore`, `RecoveryCoordinator`.
3. **done** `ProjectFileLifecycle`.
4. **done** `CloseGuard`.
5. **done** `PendingOpen`.
6. **done** `LogicalNets`, `NetEdits`, `EditTransaction`, proofs.
7. **done** `CanvasGestures`, proofs of all its properties.
8. **done** the legacy migration of the recovery store. Open: `use-project-check`.
9. Structural transactions over several Documents.
10. **done** proofs about the resolver, recovery, the file lifecycle, the close guard,
   and cuts, supplies, names, ghosts, sources and conflicts of edit transactions.

Five disagreements are described and have no run of their own. A local power rail
(`add_power_rail`) changes what its Cell publishes without being one of the kinds
that rebuild the resolver, against the comment at `document-controller.ts:297`:
`ResolverFollowsDefinitions` names it as the only exception. A candidate flushed
behind a slow write and overtaken by a replacement is stored under the identity of
the Project that took its place, against the doc comment at
`recovery-coordinator.ts:124`: `RecordOf` reads the identity when the link runs.
A drawing that "Continue without saving" dropped can be stored again, by a link queued
while the guard awaited its flush (`use-project-file-lifecycle.ts:380`) or by a save
that settles during the delete (269-273), against `recovery-scheduler.ts:9-13`, where
callers must cancel so that "a stale pending write for the old project cannot revive":
`ThrownAway` leaves the first out, and both are behaviours of `Discard` and `WriteFile`.
New Cell during a Move leaves a canvas that takes neither presses nor clicks, as told
under the canvas gestures. And `docs/specs/persistence-and-recovery.md:90-91` says "Undo
back to the written content becomes clean": the mark is a comparison of change tokens
that never return, so a Project that is undone to the content of its file stays dirty.
No promise about lost work is broken by that, it is a question too many.
