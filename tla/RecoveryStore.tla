----------------------------- MODULE RecoveryStore -----------------------------
(***************************************************************************)
(* What one write does to the browser's recovery store:                    *)
(* writeRecord of apps/editor/src/document/browser-recovery-store.ts with  *)
(* the rotation and the retention plan of browser-recovery-contract.ts.    *)
(* The store maps every working copy to a latest and a previous record.    *)
(*                                                                         *)
(* A Project's text is what two records are compared by and its size; the  *)
(* rest of the envelope (names, schema, hints, binding) is left out.       *)
(***************************************************************************)
EXTENDS Integers, Sequences, FiniteSets

CONSTANTS Absent,         \* an empty slot
          MaxCopies,      \* bound of a run on the working copies it names
          Sizes,          \* sizes a Project's text can have
          MaxSessions,    \* BROWSER_RECOVERY_MAX_SESSIONS
          MaxRecordBytes, \* BROWSER_RECOVERY_MAX_RECORD_BYTES
          MaxTotalBytes   \* BROWSER_RECOVERY_MAX_TOTAL_BYTES

Copies == 1..MaxCopies

Generations == {"latest", "previous"}

Text == [version : Nat, size : Sizes]

\* BrowserRecoveryRecordV2.  recordId is unique per page only: its counter
\* starts over when the page does.  The code does not keep the working copy
\* the text was staged under, nor when it was: owner and stagedAt are there
\* for the properties.
Record == [recordId : Copies \X Nat, workingCopyId : Copies, text : Text,
           unsaved : BOOLEAN, updatedAt : Nat, owner : Copies, stagedAt : Nat]

\* The code's limits are 2 sessions, 4 MB a record and 12 MB in all: one
\* record for every session and one more always fit, which is what "dropping
\* previous generations brings the total to at most the 12 MB cap" rests on.
ASSUME StoreAssumption ==
    /\ MaxCopies \in Nat \ {0}
    /\ Absent \notin Record
    /\ Sizes \subseteq Nat \ {0} /\ Sizes # {}
    /\ MaxSessions \in Nat \ {0}
    /\ MaxRecordBytes \in Nat
    /\ MaxTotalBytes \in Nat
    /\ (MaxSessions + 1) * MaxRecordBytes <= MaxTotalBytes

Slot == Record \cup {Absent}

Store == [Copies -> [Generations -> Slot]]

EmptySession == [g \in Generations |-> Absent]

\* buildSessions, as the plan sees it: the copies that hold a record.
SessionsIn(s) == {c \in Copies : \E g \in Generations : s[c][g] # Absent}

\* sessionRecency
Recency(session) ==
    LET stamps == {session[g].updatedAt :
                     g \in {h \in Generations : session[h] # Absent}}
    IN  CHOOSE n \in stamps : \A m \in stamps : m <= n

\* Mutant: texts of one length are taken for the same text.
SameLength(session, record) ==
    /\ session["latest"] # Absent
    /\ session["latest"].text.size = record.text.size

\* The candidate's text is the one stored last.
SameText(session, record) ==
    /\ session["latest"] # Absent
    /\ session["latest"].text = record.text

\* rotateBrowserRecoverySession: an unchanged text uses no new generation.
Rotated(session, record) ==
    IF ~SameText(session, record)
    THEN [g \in Generations |-> IF g = "latest" THEN record ELSE session["latest"]]
    ELSE IF session["latest"].unsaved # record.unsaved
    THEN [session EXCEPT !["latest"] = record]
    ELSE session

\* The order of the plan.  Sessions of one instant are told apart by their
\* identity.
Newer(s, a, b) ==
    \/ Recency(s[a]) > Recency(s[b])
    \/ Recency(s[a]) = Recency(s[b]) /\ a < b

Inactive(s, active) == SessionsIn(s) \ {active}

\* Mutant: the active session is not counted against the cap.
InactiveQuotaFull(s, active) == MaxSessions

InactiveQuota(s, active) ==
    IF active \in SessionsIn(s) THEN MaxSessions - 1 ELSE MaxSessions

\* inactive.slice(inactiveQuota): the sessions dropped whole, those with so
\* many newer ones before them.
DroppedSessions(s, active) ==
    {c \in Inactive(s, active) :
        Cardinality({d \in Inactive(s, active) : Newer(s, d, c)})
           >= InactiveQuota(s, active)}

OccupiedSlots(s, copies) ==
    {slot \in copies \X Generations : s[slot[1]][slot[2]] # Absent}

KeptSlots(s, active) ==
    OccupiedSlots(s, SessionsIn(s) \ DroppedSessions(s, active))

\* A record's bytes are numbered, so that those of several can be counted.
Bytes(s, slot) == {slot} \X (1..s[slot[1]][slot[2]].text.size)

TotalBytes(s, slots) == Cardinality(UNION {Bytes(s, slot) : slot \in slots})

\* Mutant: the active session gives up its previous generation first.
DropClassActiveFirst(slot, active) ==
    IF slot[2] = "latest" THEN 3 ELSE IF slot[1] = active THEN 1 ELSE 2

\* recordDropOrder: inactive previous generations, the active previous, and
\* only then inactive latest ones.
DropClass(slot, active) ==
    IF slot[2] = "latest" THEN 3 ELSE IF slot[1] = active THEN 2 ELSE 1

\* Within a class the oldest session goes first.
DropsBefore(s, active, x, y) ==
    \/ DropClass(x, active) < DropClass(y, active)
    \/ DropClass(x, active) = DropClass(y, active) /\ Newer(s, y[1], x[1])

Droppable(s, active) == KeptSlots(s, active) \ {<<active, "latest">>}

DroppedBefore(s, active, x) ==
    {y \in Droppable(s, active) : DropsBefore(s, active, y, x)}

\* The loop over the drop order stops once the total is under the cap: a
\* record goes if the cap is exceeded without all those before it.
DroppedSlots(s, active) ==
    {x \in Droppable(s, active) :
        TotalBytes(s, KeptSlots(s, active) \ DroppedBefore(s, active, x))
           > MaxTotalBytes}

\* planBrowserRecoveryRetention: the ids of the records to delete.
PlannedIds(s, active) ==
    {s[slot[1]][slot[2]].recordId :
        slot \in OccupiedSlots(s, DroppedSessions(s, active))
                    \cup DroppedSlots(s, active)}

\* deleteStoredRecords: every stored record with a planned id goes.
WithoutIds(s, ids) ==
    [c \in Copies |-> [g \in Generations |->
        IF s[c][g] # Absent /\ s[c][g].recordId \in ids THEN Absent
        ELSE s[c][g]]]

\* The readwrite transaction of writeRecord: planned deletes, then the puts.
\* The record that rotates out is put back only if it was not planned to go.
WriteRecord(s, record) ==
    LET c        == record.workingCopyId
        rotation == Rotated(s[c], record)
        planned  == PlannedIds([s EXCEPT ![c] = rotation], c)
        cleared  == WithoutIds(s, planned)
        old      == s[c]["latest"]
        rekeyed  == /\ ~SameText(s[c], record)
                    /\ old # Absent
                    /\ old.recordId \notin planned
    IN  IF rotation = s[c] THEN cleared
        ELSE [cleared EXCEPT ![c]["latest"] = record,
                             ![c]["previous"] = IF rekeyed THEN old ELSE @]

\* deleteSession
WithoutSession(s, c) == [s EXCEPT ![c] = EmptySession]
================================================================================
