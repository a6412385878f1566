--------------------------- MODULE VersionedProject ---------------------------
(***************************************************************************)
(* What the rest of the editor relies on when it compares two change       *)
(* tokens: within one Project session every commit moves the token         *)
(* strictly forward, so a token that was seen once never comes back with   *)
(* other content.  DocumentController is shown to implement this.          *)
(***************************************************************************)
EXTENDS Integers

CONSTANTS DocIds,   \* identities of the Documents a Project can hold
          Contents, \* what a Document can hold, its revision left aside
          Absent    \* marks a Document the Project does not hold

VARIABLES session,  \* counts the Projects installed so far
          token,    \* structure revision and the revision of every Document
          content   \* the Project with its revisions left out

versionVars == <<session, token, content>>

Token == [structureRevision : Nat, revisions : [DocIds -> Nat \cup {Absent}]]

Content == [top : DocIds, documents : [DocIds -> Contents \cup {Absent}]]

\* No Document appears, disappears or goes back, and one moves forward.
RevisionsAdvance(new, old) ==
    /\ \A d \in DocIds : (new[d] = Absent) <=> (old[d] = Absent)
    /\ \A d \in DocIds : old[d] # Absent => new[d] >= old[d]
    /\ \E d \in DocIds : old[d] # Absent /\ new[d] > old[d]

\* A structural commit outranks whatever the Document revisions do.
Later(new, old) ==
    \/ new.structureRevision > old.structureRevision
    \/ /\ new.structureRevision = old.structureRevision
       /\ RevisionsAdvance(new.revisions, old.revisions)

Init ==
    /\ session = 1
    /\ token \in Token
    /\ content \in Content

\* An edit, an undo, a redo or a structural commit.
Commit ==
    /\ session' = session
    /\ token' \in Token
    /\ Later(token', token)
    /\ content' \in Content

\* Another Project takes the place of this one.
Install ==
    /\ session' = session + 1
    /\ token' \in Token
    /\ content' \in Content

Next == Commit \/ Install

Spec == Init /\ [][Next]_versionVars
===============================================================================
