-------------------------- MODULE RecoveryCoordinator --------------------------
(***************************************************************************)
(* apps/editor/src/document/recovery-coordinator.ts and its debouncing     *)
(* recovery-scheduler.ts, with the save, replacement, discard, restore and *)
(* refresh paths of use-project-file-lifecycle.ts that drive them.         *)
(*                                                                         *)
(* A commit is staged; a timer or a flush turns what is pending into a     *)
(* link of the write chain; a link builds a record and hands it to an      *)
(* IndexedDB transaction.  Deleting a session is a transaction too, but    *)
(* not a link of the chain.  flushNow awaits the links there are when it is*)
(* called, and no later one.  The page can go away between any two steps.  *)
(* Every page first moves what an older release left in localStorage into  *)
(* the store: migrateLegacyProjectRecovery of browser-recovery-store.ts.   *)
(***************************************************************************)
EXTENDS RecoveryStore

CONSTANT MaxClock  \* bound of a run on the calls the environment makes

ASSUME ClockAssumption == MaxClock \in Nat \ {0}

VARIABLES clock,          \* calls so far: numbers the texts, stamps the records
          live,           \* the text of the Project in the editor
          workingCopyId,  \* survives a reload, in sessionStorage
          recordCounter,  \* does not
          pending,        \* the scheduler's candidate, its timer armed
          writeChain,     \* links not settled yet; the first one runs
          transactions,   \* readwrite transactions IndexedDB has queued
          stored,         \* what the database holds
          legacy,         \* the text in the retired localStorage slot
          state,          \* RecoveryState; its three failures are one here
          page,           \* what the page is busy with
          awaited,        \* links the guard's or the refresh's flushNow awaits
          saving,         \* the save in flight
          discarded       \* history: what Discard has thrown away on this page

vars == <<clock, live, workingCopyId, recordCounter, pending, writeChain,
          transactions, stored, legacy, state, page, awaited, saving, discarded>>

storeVars == <<transactions, stored, legacy>>

pageVars == <<page, awaited, saving, discarded>>

\* The text of the Project a page starts with; it is not staged.
BootText == [version |-> 0, size |-> CHOOSE n \in Sizes : \A m \in Sizes : n <= m]

\* What the slot can hold: no text of the pages modelled here.
LegacyTexts == [version : {MaxClock + 1}, size : Sizes]

Candidate == [text : Text, unsaved : BOOLEAN, owner : Copies, stagedAt : Nat]

ASSUME NothingPendingAssumption == Absent \notin Candidate

Transaction == [kind : {"write", "migrate"}, record : Record]
                  \cup [kind : {"delete"}, copy : Copies]

\* "guarding" while guardDirtyReplacement awaits its flush, "asking" with its
\* dialog open, "keeping" while the dialog saves, "discarding" while it deletes;
\* "refreshing" from refreshApp to the reload, "restoring" after it.
Page == {"running", "guarding", "asking", "keeping", "discarding",
         "refreshing", "restoring"}

\* The dialog is modal: the canvas and its commands are out of reach.
Modal == page \in {"asking", "keeping", "discarding"}

\* The text saveProject writes, Absent once another Project is in the editor;
\* the links its flushNow still awaits; whether the file is written.
Save == [text : Text \cup {Absent}, awaited : Nat, written : BOOLEAN]

ASSUME NoSaveAssumption == Absent \notin Save

CopyOf(t) == IF t.kind = "delete" THEN t.copy ELSE t.record.workingCopyId

\* The identities in use; createId and randomId never repeat one of them.
TakenCopies ==
    {workingCopyId} \cup SessionsIn(stored)
       \cup {CopyOf(transactions[i]) : i \in DOMAIN transactions}

NewCopy == 1 + CHOOSE c \in TakenCopies : \A d \in TakenCopies : d <= c

\* The record the legacy text is stored in, under an identity of its own.
LegacyRecord(text, copy, now) ==
    [recordId      |-> <<copy, 0>>,
     workingCopyId |-> copy,
     text          |-> text,
     unsaved       |-> FALSE,
     updatedAt     |-> now,
     owner         |-> copy,
     stagedAt      |-> now]

\* The effect of a page's mount: its transaction comes before any other of
\* the page.  A text over the limit stays where it is, as one that cannot
\* be parsed does.
Migration(text, copy, now) ==
    IF text = Absent \/ copy \notin Copies THEN <<>>
    ELSE IF text.size > MaxRecordBytes THEN <<>>
    ELSE <<[kind |-> "migrate", record |-> LegacyRecord(text, copy, now)]>>

Migrating == \E i \in DOMAIN transactions : transactions[i].kind = "migrate"

WriteInFlight == \E i \in DOMAIN transactions : transactions[i].kind = "write"

\* Mutant: a link does not wait for the write before it.
LinkToStartAtOnce == writeChain # <<>>

\* A link starts in a microtask of the call that made it the first one:
\* nothing but the link itself runs before it has reached its await.
LinkToStart == writeChain # <<>> /\ ~WriteInFlight

\* Every call of the environment takes the next number.
Tick == ~LinkToStart /\ clock < MaxClock /\ clock' = clock + 1

Staged(text, unsaved, copy) ==
    [text |-> text, unsaved |-> unsaved, owner |-> copy, stagedAt |-> clock + 1]

Init ==
    /\ clock = 0
    /\ live = BootText
    /\ workingCopyId = 1
    /\ recordCounter = 0
    /\ pending = Absent
    /\ writeChain = <<>>
    /\ legacy \in {Absent} \cup LegacyTexts
    /\ transactions = Migration(legacy, 2, 0)
    /\ stored = [c \in Copies |-> EmptySession]
    /\ state = "idle"
    /\ page = "running"
    /\ awaited = 0
    /\ saving = Absent
    /\ discarded = {}

-------------------------------------------------------------------------------
\* App.tsx stages every committed Project; schedule() replaces what was
\* pending.
CommitProject(size) ==
    /\ ~Modal
    /\ Tick
    /\ live' = [version |-> clock + 1, size |-> size]
    /\ pending' = Staged(live', TRUE, workingCopyId)
    /\ UNCHANGED <<workingCopyId, recordCounter, writeChain, storeVars, state, pageVars>>

\* stage and flushNow in one call: the live Project becomes the last link.
StageAndFlush(unsaved) ==
    /\ Tick
    /\ writeChain' = Append(writeChain, Staged(live, unsaved, workingCopyId))
    /\ pending' = Absent
    /\ state' = "pending"
    /\ UNCHANGED <<live, workingCopyId, recordCounter, storeVars>>

\* Mutant: the newest candidate is written first.
FlushToFront ==
    /\ ~LinkToStart
    /\ pending # Absent
    /\ writeChain' = IF WriteInFlight
                     THEN <<Head(writeChain), pending>> \o Tail(writeChain)
                     ELSE <<pending>> \o writeChain
    /\ pending' = Absent
    /\ state' = "pending"
    /\ UNCHANGED <<clock, live, workingCopyId, recordCounter, storeVars, pageVars>>

\* The timer fires, or flush() finds something pending: enqueueWrite.
Flush ==
    /\ ~LinkToStart
    /\ pending # Absent
    /\ writeChain' = Append(writeChain, pending)
    /\ pending' = Absent
    /\ state' = "pending"
    /\ UNCHANGED <<clock, live, workingCopyId, recordCounter, storeVars, pageVars>>

-------------------------------------------------------------------------------
\* buildRecord: the identity and the time are read when the link runs, not
\* when the text was staged.
RecordOf(candidate) ==
    [recordId      |-> <<workingCopyId, recordCounter + 1>>,
     workingCopyId |-> workingCopyId,
     text          |-> candidate.text,
     unsaved       |-> candidate.unsaved,
     updatedAt     |-> clock,
     owner         |-> candidate.owner,
     stagedAt      |-> candidate.stagedAt]

OneLess(n) == IF n = 0 THEN 0 ELSE n - 1

\* The first link is done: whoever awaits it has one less to await.
SettleLink ==
    /\ writeChain' = Tail(writeChain)
    /\ awaited' = OneLess(awaited)
    /\ saving' = IF saving = Absent THEN Absent
                 ELSE [saving EXCEPT !.awaited = OneLess(@)]

\* The first link runs up to its await.
BuildRecord ==
    /\ LinkToStart
    /\ Head(writeChain).text.size <= MaxRecordBytes
    /\ recordCounter' = recordCounter + 1
    /\ transactions' = Append(transactions,
                              [kind |-> "write", record |-> RecordOf(Head(writeChain))])
    /\ UNCHANGED <<clock, live, workingCopyId, pending, writeChain, stored, legacy,
                   state, pageVars>>

\* Mutant: the link never settles, and every later link waits behind it.
FailBeforeWriteUncaught ==
    /\ LinkToStart
    /\ UNCHANGED vars

\* The record cannot be serialized, or is over the limit: the link ends.
\* A serialization failure can happen to any text.
FailBeforeWrite ==
    /\ LinkToStart
    /\ recordCounter' = recordCounter + 1
    /\ SettleLink
    /\ state' = "failed"
    /\ UNCHANGED <<clock, live, workingCopyId, pending, storeVars, page, discarded>>

\* The write transaction completes, and with it its link.
CommitWrite ==
    /\ transactions # <<>>
    /\ Head(transactions).kind = "write"
    /\ transactions' = Tail(transactions)
    /\ SettleLink
    /\ state' = "stored"
    /\ stored' = WriteRecord(stored, Head(transactions).record)
    /\ UNCHANGED <<clock, live, workingCopyId, recordCounter, pending, legacy, page,
                   discarded>>

\* It aborts: quota exceeded, storage gone.  Nothing of it is kept.
AbortWrite ==
    /\ transactions # <<>>
    /\ Head(transactions).kind = "write"
    /\ transactions' = Tail(transactions)
    /\ SettleLink
    /\ state' = "failed"
    /\ UNCHANGED <<clock, live, workingCopyId, recordCounter, pending, stored, legacy,
                   page, discarded>>

-------------------------------------------------------------------------------
\* deleteRecoverySessionFromDialog, for any session listed there.
DeleteSession(c) ==
    /\ page = "running"
    /\ c \in SessionsIn(stored)
    /\ Tick
    /\ transactions' = Append(transactions, [kind |-> "delete", copy |-> c])
    /\ UNCHANGED <<live, workingCopyId, recordCounter, pending, writeChain, stored, legacy,
                   state, pageVars>>

\* The delete completes or aborts; its caller goes on either way.
SettleDelete ==
    /\ ~LinkToStart
    /\ transactions # <<>>
    /\ Head(transactions).kind = "delete"
    /\ stored' \in {stored, WithoutSession(stored, Head(transactions).copy)}
    /\ transactions' = Tail(transactions)
    /\ UNCHANGED <<clock, live, workingCopyId, recordCounter, pending, writeChain,
                   legacy, state, pageVars>>

-------------------------------------------------------------------------------
\* performProjectSave up to its first await.
BeginSave ==
    /\ saving = Absent
    /\ StageAndFlush(TRUE)
    /\ saving' = [text |-> live, awaited |-> Len(writeChain'), written |-> FALSE]

\* A save from the canvas; while one is in flight saveProject only joins it.
SaveProject ==
    /\ ~Modal
    /\ BeginSave
    /\ UNCHANGED <<page, awaited, discarded>>

\* The file is written and its Project is still in the editor: it is staged
\* as it is now.  The dialog may be open by then, or deleting.
WriteFile ==
    /\ saving # Absent
    /\ saving.awaited = 0 /\ ~saving.written /\ saving.text # Absent
    /\ StageAndFlush(live # saving.text)
    /\ saving' = [saving EXCEPT !.awaited = Len(writeChain'), !.written = TRUE]
    /\ UNCHANGED <<page, awaited, discarded>>

\* The save is over: written, cancelled, failed, or of a Project that is gone.
\* Back to the dialog that waits for it, unless it says "saved".
EndSave ==
    /\ ~LinkToStart
    /\ saving # Absent
    /\ saving.awaited = 0
    /\ page = "keeping" => ~saving.written
    /\ saving' = Absent
    /\ page' = IF page = "keeping" THEN "asking" ELSE page
    /\ UNCHANGED <<clock, live, workingCopyId, recordCounter, pending, writeChain,
                   storeVars, state, awaited, discarded>>

-------------------------------------------------------------------------------
\* Another Project in the editor: a save in flight stages nothing any more.
SaveOfGone == IF saving = Absent THEN Absent ELSE [saving EXCEPT !.text = Absent]

\* replaceActiveProject: cancel, fork the identity, install, stage.
Install(text, unsaved) ==
    /\ Tick
    /\ NewCopy \in Copies
    /\ workingCopyId' = NewCopy
    /\ live' = text
    /\ pending' = Staged(text, unsaved, workingCopyId')
    /\ page' = "running"
    /\ UNCHANGED <<recordCounter, writeChain, storeVars, state, awaited, discarded>>

\* A new or opened Project takes the place of work the guard finds safe (its
\* mark is clean, or there is nothing worth keeping): nothing is flushed first.
ReplaceProject(size) ==
    /\ page = "running"
    /\ Install([version |-> clock + 1, size |-> size], FALSE)
    /\ saving' = SaveOfGone

\* guardDirtyReplacement of work that is not safe: stage, flush, await.  The
\* canvas stays open meanwhile.
GuardReplacement ==
    /\ page = "running"
    /\ StageAndFlush(TRUE)
    /\ awaited' = Len(writeChain')
    /\ page' = "guarding"
    /\ UNCHANGED <<saving, discarded>>

AskToReplace ==
    /\ ~LinkToStart
    /\ page = "guarding"
    /\ awaited = 0
    /\ page' = "asking"
    /\ UNCHANGED <<clock, live, workingCopyId, recordCounter, pending, writeChain,
                   storeVars, state, awaited, saving, discarded>>

CancelReplacement ==
    /\ ~LinkToStart
    /\ page = "asking"
    /\ page' = "running"
    /\ UNCHANGED <<clock, live, workingCopyId, recordCounter, pending, writeChain,
                   storeVars, state, awaited, saving, discarded>>

\* saveAndContinueReplaceGuard starts a save or joins the one in flight.
SaveAndContinue ==
    /\ page = "asking"
    /\ page' = "keeping"
    /\ \/ BeginSave
       \/ /\ ~LinkToStart
          /\ saving # Absent
          /\ UNCHANGED <<clock, live, workingCopyId, recordCounter, pending, writeChain,
                         storeVars, state, saving>>
    /\ UNCHANGED <<awaited, discarded>>

\* It says "saved", whichever Project it wrote.
PerformAfterSave(size) ==
    /\ page = "keeping"
    /\ saving # Absent
    /\ saving.awaited = 0 /\ (saving.written \/ saving.text = Absent)
    /\ Install([version |-> clock + 1, size |-> size], FALSE)
    /\ saving' = Absent

\* What Discard throws away: every snapshot of the working copy so far but the
\* ones the guard did not await, which are links of the chain already.
ThrownAway ==
    {<<workingCopyId, n>> :
        n \in 0..clock' \ {writeChain[i].stagedAt : i \in awaited + 1..Len(writeChain)}}

\* Mutant: what is pending is not cancelled before the delete.
DiscardKeepingPending ==
    /\ page = "asking"
    /\ Tick
    /\ transactions' = Append(transactions, [kind |-> "delete", copy |-> workingCopyId])
    /\ page' = "discarding"
    /\ discarded' = discarded \cup ThrownAway
    /\ UNCHANGED <<live, workingCopyId, recordCounter, pending, writeChain, stored, legacy,
                   state, awaited, saving>>

\* confirmReplaceGuard, "Continue without saving": links queued while the
\* guard awaited its own, and a save in flight, go on.
Discard ==
    /\ page = "asking"
    /\ Tick
    /\ pending' = Absent
    /\ transactions' = Append(transactions, [kind |-> "delete", copy |-> workingCopyId])
    /\ page' = "discarding"
    /\ discarded' = discarded \cup ThrownAway
    /\ UNCHANGED <<live, workingCopyId, recordCounter, writeChain, stored, legacy,
                   state, awaited, saving>>

\* The delete settled: perform the replacement.
PerformAfterDiscard(size) ==
    /\ page = "discarding"
    /\ \A i \in DOMAIN transactions : transactions[i].kind # "delete"
    /\ Install([version |-> clock + 1, size |-> size], FALSE)
    /\ saving' = SaveOfGone

\* restoreRecoverySession over safe work: a stored text under an identity of
\* its own.
RestoreSession(c, g) ==
    /\ page = "running"
    /\ stored[c][g] # Absent
    /\ Install(stored[c][g].text, TRUE)
    /\ saving' = SaveOfGone

-------------------------------------------------------------------------------
\* refreshApp stages the live Project and awaits the flush.
RefreshApp(unsaved) ==
    /\ page = "running"
    /\ StageAndFlush(unsaved)
    /\ awaited' = Len(writeChain')
    /\ page' = "refreshing"
    /\ UNCHANGED <<saving, discarded>>

\* A page starts: whatever the old one had not got into the database is lost.
\* A new window has no sessionStorage and takes a new identity.
StartPage(next, copy, other) ==
    /\ workingCopyId' = copy
    /\ live' = BootText
    /\ recordCounter' = 0
    /\ pending' = Absent
    /\ writeChain' = <<>>
    /\ transactions' = Migration(legacy, other, clock')
    /\ state' = "idle"
    /\ page' = next
    /\ awaited' = 0
    /\ saving' = Absent
    /\ discarded' = {}
    /\ UNCHANGED legacy

Reload ==
    /\ ~LinkToStart
    /\ page = "refreshing"
    /\ awaited = 0
    /\ UNCHANGED <<clock, stored>>
    /\ StartPage("restoring", workingCopyId, NewCopy)

\* A crash, a reload by hand, or a window closed and opened again.
Restart(copy) ==
    /\ copy \in {workingCopyId, NewCopy} \cap Copies
    /\ Tick
    /\ StartPage("running", copy, IF copy = NewCopy THEN copy + 1 ELSE NewCopy)
    /\ UNCHANGED stored

-------------------------------------------------------------------------------
\* The legacy text is stored, and only then removed from its slot.
Migrate ==
    /\ ~LinkToStart
    /\ transactions # <<>>
    /\ Head(transactions).kind = "migrate"
    /\ transactions' = Tail(transactions)
    /\ stored' = WriteRecord(stored, Head(transactions).record)
    /\ legacy' = Absent
    /\ UNCHANGED <<clock, live, workingCopyId, recordCounter, pending, writeChain,
                   state, pageVars>>

\* The migration's transaction aborts: the slot keeps its text.
AbortMigration ==
    /\ ~LinkToStart
    /\ transactions # <<>>
    /\ Head(transactions).kind = "migrate"
    /\ transactions' = Tail(transactions)
    /\ UNCHANGED <<clock, live, workingCopyId, recordCounter, pending, writeChain,
                   stored, legacy, state, pageVars>>

\* The page goes after the commit and before the removal: the next page
\* stores the same text again, under one more identity.
CrashInMigration ==
    /\ transactions # <<>>
    /\ Head(transactions).kind = "migrate"
    /\ Tick
    /\ stored' = WriteRecord(stored, Head(transactions).record)
    /\ StartPage("running", workingCopyId, NewCopy)

\* The effect that follows a refresh waits for the migration and the
\* discovery behind it, keeps the identity and installs the
\* latest record.  Without one there is nothing to restore.
RestoreAfterRefresh ==
    /\ ~LinkToStart
    /\ page = "restoring"
    /\ ~Migrating
    /\ page' = "running"
    /\ IF stored[workingCopyId]["latest"] = Absent
       THEN UNCHANGED <<clock, live, pending, saving>>
       ELSE /\ Tick
            /\ live' = stored[workingCopyId]["latest"].text
            /\ pending' = Staged(live', stored[workingCopyId]["latest"].unsaved,
                                 workingCopyId)
            /\ saving' = SaveOfGone
    /\ UNCHANGED <<workingCopyId, recordCounter, writeChain, storeVars, state, awaited,
                   discarded>>

-------------------------------------------------------------------------------
\* Steps the coordinator takes by itself.
Write == Flush \/ BuildRecord \/ FailBeforeWrite \/ CommitWrite \/ AbortWrite

Next ==
    \/ Write
    \/ SettleDelete
    \/ Migrate \/ AbortMigration \/ CrashInMigration
    \/ SaveProject \/ WriteFile \/ EndSave
    \/ GuardReplacement \/ AskToReplace
    \/ CancelReplacement \/ SaveAndContinue \/ Discard
    \/ \E size \in Sizes :
          \/ CommitProject(size) \/ ReplaceProject(size)
          \/ PerformAfterSave(size) \/ PerformAfterDiscard(size)
    \/ \E c \in Copies :
          DeleteSession(c) \/ Restart(c) \/ \E g \in Generations : RestoreSession(c, g)
    \/ \E unsaved \in BOOLEAN : RefreshApp(unsaved)
    \/ Reload
    \/ RestoreAfterRefresh

\* The timer fires, a settled link starts the next one, and IndexedDB
\* completes or aborts the transaction it was given first.
Fairness ==
    /\ WF_vars(Flush)
    /\ WF_vars(BuildRecord \/ FailBeforeWrite)
    /\ WF_vars(AbortWrite \/ AbortMigration \/ SettleDelete \/ CommitWrite \/ Migrate)

Spec == Init /\ [][Next]_vars /\ Fairness
-------------------------------------------------------------------------------
\* Every variable keeps its shape, and at most one write transaction is open:
\* the chain never lets two of this page's writes race.
TypeOK ==
    /\ clock \in 0..MaxClock
    /\ live \in Text
    /\ workingCopyId \in Copies
    /\ recordCounter \in Nat
    /\ pending \in Candidate \cup {Absent}
    /\ writeChain \in Seq(Candidate)
    /\ transactions \in Seq(Transaction)
    /\ stored \in Store
    /\ legacy \in Text \cup {Absent}
    /\ state \in {"idle", "pending", "stored", "failed"}
    /\ page \in Page
    /\ awaited \in Nat
    /\ saving \in Save \cup {Absent}
    /\ discarded \subseteq Copies \X Nat
    /\ \A i, j \in DOMAIN transactions :
          (transactions[i].kind = "write" /\ transactions[j].kind = "write") => i = j

\* Retention: however writes, deletes and restarts fall, the store never
\* holds more sessions or more bytes than the contract allows.
RetentionHolds ==
    /\ Cardinality(SessionsIn(stored)) <= MaxSessions
    /\ TotalBytes(stored, OccupiedSlots(stored, Copies)) <= MaxTotalBytes

\* When the editor is told its work is stored and nothing newer is on its
\* way, the newest record of its working copy is the live Project, unless
\* the user deleted that session.
StoredMeansCurrent ==
    (/\ state = "stored"
     /\ pending = Absent
     /\ writeChain = <<>>
     /\ page # "discarding"
     /\ stored[workingCopyId]["latest"] # Absent)
    => stored[workingCopyId]["latest"].text = live

\* A later snapshot of a working copy is never overwritten by an earlier
\* one, though flushes and slow writes overlap.
NewerSnapshotWins ==
    [][\A c \in Copies :
          (stored[c]["latest"] # Absent /\ stored'[c]["latest"] # Absent)
          => stored'[c]["latest"].stagedAt >= stored[c]["latest"].stagedAt]_vars

\* A write that replaces a session's latest text keeps that text as its
\* previous generation, whatever the caps make it drop elsewhere: a bad
\* snapshot never costs the last good one.
LastGoodSurvives ==
    [][\A c \in Copies :
          (/\ stored[c]["latest"] # Absent
           /\ stored'[c]["latest"] # Absent
           /\ stored'[c]["latest"].text # stored[c]["latest"].text)
          => stored'[c]["previous"] = stored[c]["latest"]]_vars

\* While the page lives, no snapshot that "Continue without saving" has thrown
\* away is written to the store: neither one the guard flushed and awaited nor
\* one that was pending when the user confirmed.  What an aborted delete left
\* may stay and move to the previous generation.  The code keeps no more than
\* that out: a link queued while the guard awaited its own, and a save that
\* settles during the delete, do write the working copy again.
DiscardedWorkStaysGone ==
    [][\A c \in Copies, g \in Generations :
          (/\ stored'[c][g] # Absent
           /\ <<stored'[c][g].owner, stored'[c][g].stagedAt>> \in discarded)
          => \E h \in Generations : stored'[c][g] = stored[c][h]]_vars

\* Whatever is staged ends up stored, refused or superseded, and the chain
\* comes to rest: neither a failing record nor a failing store leaves a link,
\* or the state shown to the user, waiting for ever.
StagedWorkSettles ==
    []<>(pending = Absent /\ writeChain = <<>> /\ state # "pending")
================================================================================
