------------------------------ MODULE PendingOpen ------------------------------
(***************************************************************************)
(* How a file handed to the shell (a double-click, a command line) reaches *)
(* the window: apps/desktop/src/main.ts keeps one path and announces it,   *)
(* the editor (App.tsx) collects it over the file bridge, reads the file   *)
(* and asks the replacement guard.  The file of the last run is reopened   *)
(* when nothing was handed over.                                           *)
(*                                                                         *)
(* Requests of the page are answered in any order.  A read takes with it   *)
(* what its render knew: guardDirtyReplacement asks the persistence state  *)
(* of the closure that started the read, not the current one.  Handed      *)
(* files are numbered in the order in which they were handed over.         *)
(***************************************************************************)
EXTENDS Integers, FiniteSets

CONSTANTS LastFile,   \* the file of the last run
          Undefined,  \* the shell has not answered yet
          None,       \* no file
          MaxHanded   \* bound of a run on the files handed over

Handed == 1..MaxHanded

ASSUME PendingOpenAssumption ==
    /\ MaxHanded \in Nat
    /\ {LastFile, Undefined, None} \cap Nat = {}
    /\ LastFile # Undefined /\ LastFile # None /\ Undefined # None

\* A file being read, and whether its closure will ask before replacing.
Read == [file : Handed \cup {LastFile}, asks : BOOLEAN]

VARIABLES
    requestedOpenPath,     \* in the shell: the path nobody has collected
    handed,                \* how many files were handed over
    announced,             \* open requests on their way to the page
    page,                  \* "none" before the window, "loading", "listening"
    collects,              \* pending collects that have not reached the shell
    idle,                  \* answers on their way back: nothing was there
    answers,               \* answers on their way back: these files
    requestedProjectPath,
    startupReopenAttempted,
    ready,                 \* recovery has looked and offers nothing
    reads,                 \* files being read
    replaceGuard,          \* the file the open dialog asks about
    shown,                 \* the file in the window
    unsafe                 \* the window holds unsaved work

shellVars == <<requestedOpenPath, handed, announced>>
bridgeVars == <<collects, idle, answers>>
windowVars == <<replaceGuard, shown, unsafe>>

vars == <<shellVars, page, bridgeVars, requestedProjectPath,
          startupReopenAttempted, ready, reads, windowVars>>

\* The command line may name a file.
Init ==
    /\ requestedOpenPath \in {None} \cup {k \in Handed : k = 1}
    /\ handed = IF requestedOpenPath = None THEN 0 ELSE 1
    /\ announced = 0
    /\ page = "none"
    /\ collects = 0
    /\ idle = 0
    /\ answers = {}
    /\ requestedProjectPath = Undefined
    /\ startupReopenAttempted = FALSE
    /\ ready = FALSE
    /\ reads = {}
    /\ replaceGuard = None
    /\ shown = None
    /\ unsafe = FALSE

-------------------------------------------------------------------------------
\* second-instance: a path nobody collected is superseded.  Before there is
\* a window the file is forgotten.
HandOver ==
    /\ handed < MaxHanded
    /\ handed' = handed + 1
    /\ IF page = "none" THEN UNCHANGED <<requestedOpenPath, announced>>
       ELSE /\ requestedOpenPath' = handed + 1
            /\ announced' = announced + 1
    /\ UNCHANGED <<page, bridgeVars, requestedProjectPath, startupReopenAttempted,
                   ready, reads, windowVars>>

CreateWindow ==
    /\ page = "none"
    /\ page' = "loading"
    /\ UNCHANGED <<shellVars, bridgeVars, requestedProjectPath, startupReopenAttempted,
                   ready, reads, windowVars>>

\* The event reaches the page; before the page listens it reaches no one.
Announce ==
    /\ announced > 0
    /\ announced' = announced - 1
    /\ collects' = IF page = "listening" THEN collects + 1 ELSE collects
    /\ UNCHANGED <<requestedOpenPath, handed, page, idle, answers,
                   requestedProjectPath, startupReopenAttempted, ready, reads, windowVars>>

\* Mutant: the effect runs again with every render.
MountEveryRender ==
    /\ page # "none"
    /\ page' = "listening"
    /\ collects' = collects + 1
    /\ UNCHANGED <<shellVars, idle, answers, requestedProjectPath,
                   startupReopenAttempted, ready, reads, windowVars>>

\* The effect of the first render: collect, and listen from now on.
Mount ==
    /\ page = "loading"
    /\ page' = "listening"
    /\ collects' = collects + 1
    /\ UNCHANGED <<shellVars, idle, answers, requestedProjectPath,
                   startupReopenAttempted, ready, reads, windowVars>>

\* Mutant: the shell keeps the path it gave away.
Peek ==
    /\ collects > 0
    /\ collects' = collects - 1
    /\ IF requestedOpenPath = None
       THEN idle' = idle + 1 /\ UNCHANGED answers
       ELSE answers' = answers \cup {requestedOpenPath} /\ UNCHANGED idle
    /\ UNCHANGED <<shellVars, page, requestedProjectPath, startupReopenAttempted,
                   ready, reads, windowVars>>

\* /api/file/pending at the shell.
Take ==
    /\ collects > 0
    /\ collects' = collects - 1
    /\ IF requestedOpenPath = None
       THEN idle' = idle + 1 /\ UNCHANGED answers
       ELSE answers' = answers \cup {requestedOpenPath} /\ UNCHANGED idle
    /\ requestedOpenPath' = None
    /\ UNCHANGED <<handed, announced, page, requestedProjectPath,
                   startupReopenAttempted, ready, reads, windowVars>>

\* Mutant: an empty answer takes back a path that waits to be opened.
IdleAnswerClears ==
    /\ idle > 0
    /\ idle' = idle - 1
    /\ requestedProjectPath' = None
    /\ UNCHANGED <<shellVars, page, collects, answers, startupReopenAttempted,
                   ready, reads, windowVars>>

\* "An empty answer only settles 'nothing was handed to us'."
IdleAnswer ==
    /\ idle > 0
    /\ idle' = idle - 1
    /\ requestedProjectPath' = IF requestedProjectPath \in Handed
                               THEN requestedProjectPath ELSE None
    /\ UNCHANGED <<shellVars, page, collects, answers, startupReopenAttempted,
                   ready, reads, windowVars>>

\* Mutant: the last file's reopen is not stood down.
FileAnswerOnly(k) ==
    /\ k \in answers
    /\ answers' = answers \ {k}
    /\ requestedProjectPath' = k
    /\ UNCHANGED <<shellVars, page, collects, idle, startupReopenAttempted, ready,
                   reads, windowVars>>

\* A file: the last file's reopen is stood down, and the path waits.
FileAnswer(k) ==
    /\ k \in answers
    /\ answers' = answers \ {k}
    /\ requestedProjectPath' = k
    /\ startupReopenAttempted' = TRUE
    /\ UNCHANGED <<shellVars, page, collects, idle, ready, reads, windowVars>>

\* reopenProjectPath starts to read, in the closure of this render.  (That a
\* file which is exactly the Project of this render needs no question changes
\* nothing but the question.)
ReopenProjectPath(file) ==
    reads' = reads \cup {[file |-> file, asks |-> unsafe]}

\* The effect of a render that shows a path: taken once.
OpenRequested ==
    /\ requestedProjectPath \in Handed
    /\ requestedProjectPath' = None
    /\ ReopenProjectPath(requestedProjectPath)
    /\ UNCHANGED <<shellVars, page, bridgeVars, startupReopenAttempted, ready,
                   windowVars>>

\* The last file is reopened when nothing stands in its way.
StartupReopen ==
    /\ ~startupReopenAttempted
    /\ requestedProjectPath # Undefined
    /\ ready
    /\ ~unsafe
    /\ startupReopenAttempted' = TRUE
    /\ ReopenProjectPath(LastFile)
    /\ UNCHANGED <<shellVars, page, bridgeVars, requestedProjectPath, ready,
                   windowVars>>

RecoveryReady ==
    /\ page = "listening"
    /\ ~ready
    /\ ready' = TRUE
    /\ UNCHANGED <<shellVars, page, bridgeVars, requestedProjectPath,
                   startupReopenAttempted, reads, windowVars>>

\* installOpenedFile and its guard.  A later question takes an earlier one's
\* place; a file that cannot be read is reported and leaves all as it is.
FinishRead(read) ==
    /\ read \in reads
    /\ reads' = reads \ {read}
    /\ \/ UNCHANGED windowVars
       \/ /\ ~read.asks
          /\ shown' = read.file
          /\ unsafe' = FALSE
          /\ UNCHANGED replaceGuard
       \/ /\ read.asks
          /\ replaceGuard' = read.file
          /\ UNCHANGED <<shown, unsafe>>
    /\ UNCHANGED <<shellVars, page, bridgeVars, requestedProjectPath,
                   startupReopenAttempted, ready>>

\* The person answers the guard: stay, or go on with or without saving.
AnswerGuard(goOn) ==
    /\ replaceGuard # None
    /\ replaceGuard' = None
    /\ shown' = IF goOn THEN replaceGuard ELSE shown
    /\ unsafe' = (unsafe /\ ~goOn)
    /\ UNCHANGED <<shellVars, page, bridgeVars, requestedProjectPath,
                   startupReopenAttempted, ready, reads>>

\* Drawing, and saving what was drawn.
Work(drawn) ==
    /\ page = "listening"
    /\ replaceGuard = None
    /\ unsafe' = drawn
    /\ UNCHANGED <<shellVars, page, bridgeVars, requestedProjectPath,
                   startupReopenAttempted, ready, reads, replaceGuard, shown>>

-------------------------------------------------------------------------------
Next ==
    \/ HandOver
    \/ CreateWindow
    \/ Announce
    \/ Mount
    \/ Take
    \/ IdleAnswer
    \/ \E k \in Handed : FileAnswer(k)
    \/ OpenRequested
    \/ StartupReopen
    \/ RecoveryReady
    \/ \E read \in reads : FinishRead(read)
    \/ \E goOn \in BOOLEAN : AnswerGuard(goOn)
    \/ \E drawn \in BOOLEAN : Work(drawn)

\* The page loads, events and requests arrive, effects run.
Fairness ==
    /\ WF_vars(CreateWindow)
    /\ WF_vars(Announce)
    /\ WF_vars(Mount)
    /\ WF_vars(Take)
    /\ \A k \in Handed : WF_vars(FileAnswer(k))
    /\ WF_vars(OpenRequested)

Spec == Init /\ [][Next]_vars /\ Fairness
-------------------------------------------------------------------------------
\* Every variable keeps its shape, and no more collects are on their way than
\* were announced and made at the start.
TypeOK ==
    /\ requestedOpenPath \in Handed \cup {None}
    /\ handed \in 0..MaxHanded
    /\ announced \in 0..MaxHanded
    /\ page \in {"none", "loading", "listening"}
    /\ collects \in Nat
    /\ idle \in Nat
    /\ answers \subseteq Handed
    /\ requestedProjectPath \in Handed \cup {None, Undefined}
    /\ startupReopenAttempted \in BOOLEAN
    /\ ready \in BOOLEAN
    /\ reads \subseteq Read
    /\ replaceGuard \in Handed \cup {None, LastFile}
    /\ shown \in Handed \cup {None, LastFile}
    /\ unsafe \in BOOLEAN
    /\ announced + collects + idle + Cardinality(answers) <= handed + 1

\* Where a file is: at the shell, on its way, waiting, being read, asked
\* about, or in the window.
Places(file) ==
    (IF requestedOpenPath = file THEN {"shell"} ELSE {})
    \cup (IF file \in answers THEN {"answer"} ELSE {})
    \cup (IF requestedProjectPath = file THEN {"requested"} ELSE {})
    \cup {r \in reads : r.file = file}
    \cup (IF replaceGuard = file THEN {"guard"} ELSE {})
    \cup (IF shown = file THEN {"window"} ELSE {})

\* "Taken once, so a later re-check does not reopen it": however announcements,
\* collects and effects interleave, a file is opened at most once, the last
\* file of the earlier run included.
TakenOnce ==
    \A file \in Handed \cup {LastFile} : Cardinality(Places(file)) <= 1

\* "Collecting the path takes it from the shell, so an answer is never
\* dropped": the path the shell keeps reaches the editor unless a later file
\* takes its place, and a path that waits in the editor is opened unless
\* another file takes its place, whatever empty answers arrive.
HandedFilesAreOpened ==
    \A k \in Handed :
        /\ (requestedOpenPath = k)
              ~> \/ requestedProjectPath = k
                 \/ requestedOpenPath \in {j \in Handed : j > k}
        /\ (requestedProjectPath = k)
              ~> \/ \E read \in reads : read.file = k
                 \/ requestedProjectPath \in Handed \ {k}

\* "Reopening the last file is a convenience, so it yields": once a handed
\* file has been collected, the last file's reopen does not start.
StartupReopenYields ==
    [][StartupReopen => \A k \in Handed :
           Places(k) \cap {"requested", "guard", "window"} = {}
           /\ \A read \in reads : read.file # k]_vars

\* The changelog: "replacing unsaved work asks first, exactly as Open Project
\* does".
UnsavedWorkIsAskedAbout ==
    [][(shown' # shown /\ unsafe) => replaceGuard # None]_vars
================================================================================
