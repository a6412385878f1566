--------------------------- MODULE PendingOpen_proofs ---------------------------
(***************************************************************************)
(* Proofs about PendingOpen, for any number of files handed over.  The     *)
(* inductive invariant says where a file can be: in one of six places, and *)
(* in none before it is handed over.                                       *)
(***************************************************************************)
EXTENDS PendingOpen, FiniteSetTheorems, TLAPS

BeingRead(file) == \E read \in reads : read.file = file

\* Beyond the bridge: waiting for its effect, read, asked about or installed.
Collected(file) ==
    \/ requestedProjectPath = file
    \/ BeingRead(file)
    \/ replaceGuard = file
    \/ shown = file

\* Each place of a file excludes the places after it.
Exclusive(file) ==
    /\ requestedOpenPath = file => file \notin answers /\ ~Collected(file)
    /\ file \in answers => ~Collected(file)
    /\ requestedProjectPath = file =>
          ~BeingRead(file) /\ replaceGuard # file /\ shown # file
    /\ BeingRead(file) => replaceGuard # file /\ shown # file
    /\ replaceGuard = file => shown # file

\* A file that was not handed over yet is nowhere.
Numbered ==
    /\ requestedOpenPath \in Handed => requestedOpenPath <= handed
    /\ \A k \in Handed : k \in answers \/ Collected(k) => k <= handed

\* A collected file, and the last file when it is reopened, stand the reopen
\* down.
StoodDown ==
    (\E file \in Handed \cup {LastFile} : Collected(file)) => startupReopenAttempted

\* One collect for the start of the page, one at most for each announcement.
Counted ==
    /\ announced <= handed
    /\ page # "listening" =>
          announced + collects + idle + Cardinality(answers) <= handed

IInv ==
    /\ TypeOK
    /\ Counted
    /\ Numbered
    /\ StoodDown
    /\ \A file \in Handed \cup {LastFile} : Exclusive(file)
    /\ \A r, s \in reads : r.file = s.file => r = s

-------------------------------------------------------------------------------
\* The answers on their way are finitely many, one more or one less for each
\* that is given or read.
LEMMA AnswersCount ==
    ASSUME NEW S \in SUBSET Handed
    PROVE  /\ IsFiniteSet(S)
           /\ Cardinality(S) \in Nat
           /\ \A k \in Handed : Cardinality(S \cup {k}) <= Cardinality(S) + 1
           /\ \A k \in S : Cardinality(S \ {k}) = Cardinality(S) - 1
<1>1. IsFiniteSet(Handed)
  BY FS_Interval, PendingOpenAssumption DEF Handed
<1>2. IsFiniteSet(S)
  BY <1>1, FS_Subset
<1>3. Cardinality(S) \in Nat
  BY <1>2, FS_CardinalityType
<1>4. ASSUME NEW k \in Handed
      PROVE  Cardinality(S \cup {k}) <= Cardinality(S) + 1
  BY <1>2, <1>3, FS_AddElement
<1>5. ASSUME NEW k \in S
      PROVE  Cardinality(S \ {k}) = Cardinality(S) - 1
  BY <1>2, <1>3, FS_RemoveElement
<1> QED
  BY <1>2, <1>3, <1>4, <1>5

\* A set within a singleton has at most one element.
LEMMA AtMostOne ==
    ASSUME NEW x, NEW S \in SUBSET {x}
    PROVE  Cardinality(S) <= 1
<1>1. S = {} \/ S = {x}
  OBVIOUS
<1>2. Cardinality({}) = 0
  BY FS_EmptySet
<1>3. Cardinality({x}) = 1
  BY FS_Singleton
<1> QED
  BY <1>1, <1>2, <1>3

\* What is not a number is not a file that was handed over.
LEMMA Distinct ==
    /\ LastFile \notin Handed /\ Undefined \notin Handed /\ None \notin Handed
    /\ LastFile # Undefined /\ LastFile # None /\ Undefined # None
    /\ Handed \subseteq Nat
  BY PendingOpenAssumption DEF Handed

-------------------------------------------------------------------------------
LEMMA InitInvariant == Init => IInv
<1> SUFFICES ASSUME Init PROVE IInv
  OBVIOUS
<1> USE DEF Init
<1>1. TypeOK
  <2>1. Cardinality(answers) = 0
    BY FS_EmptySet
  <2>2. MaxHanded \in Nat
    BY PendingOpenAssumption
  <2>3. requestedOpenPath \in Handed \cup {None}
    OBVIOUS
  <2>4. handed \in 0..MaxHanded /\ handed \in {0, 1}
    <3>1. CASE requestedOpenPath = None
      BY <2>2, <3>1
    <3>2. CASE requestedOpenPath \in Handed /\ requestedOpenPath = 1
      <4>1. handed = 1
        BY <3>2, Distinct
      <4> QED
        BY <4>1, <2>2, <3>2 DEF Handed
    <3> QED
      BY <3>1, <3>2
  <2>5. announced + collects + idle + Cardinality(answers) <= handed + 1
    BY <2>1, <2>4
  <2>6. /\ announced \in 0..MaxHanded
        /\ collects \in Nat
        /\ idle \in Nat
    BY <2>2
  <2>7. /\ page \in {"none", "loading", "listening"}
        /\ answers \subseteq Handed
        /\ requestedProjectPath \in Handed \cup {None, Undefined}
        /\ startupReopenAttempted \in BOOLEAN
        /\ ready \in BOOLEAN
        /\ reads \subseteq Read
        /\ replaceGuard \in Handed \cup {None, LastFile}
        /\ shown \in Handed \cup {None, LastFile}
        /\ unsafe \in BOOLEAN
    OBVIOUS
  <2> QED
    BY <2>3, <2>4, <2>5, <2>6, <2>7 DEF TypeOK
<1>2. Counted
  <2>1. Cardinality(answers) = 0
    BY FS_EmptySet
  <2> QED
    BY <2>1, PendingOpenAssumption DEF Counted, Handed
<1>3. Numbered /\ StoodDown
  BY Distinct DEF Numbered, StoodDown, Collected, BeingRead
<1>4. \A file \in Handed \cup {LastFile} : Exclusive(file)
  BY Distinct DEF Exclusive, Collected, BeingRead
<1> QED
  BY <1>1, <1>2, <1>3, <1>4 DEF IInv

\* Types and counts.
LEMMA StepKeepsTypes == IInv /\ [Next]_vars => TypeOK' /\ Counted'
<1> SUFFICES ASSUME IInv, [Next]_vars PROVE TypeOK' /\ Counted'
  OBVIOUS
<1> USE PendingOpenAssumption, Distinct
<1>a. TypeOK /\ Counted
  BY DEF IInv
<1>b. /\ Cardinality(answers) \in Nat
      /\ \A k \in Handed : Cardinality(answers \cup {k}) <= Cardinality(answers) + 1
      /\ \A k \in answers : Cardinality(answers \ {k}) = Cardinality(answers) - 1
  BY <1>a, AnswersCount DEF TypeOK
<1>c. /\ \A k \in Handed : answers \cup {k} \subseteq Handed
      /\ \A k \in Handed : answers \ {k} \subseteq Handed
  BY <1>a DEF TypeOK
<1>d. \A k \in Handed : Cardinality(answers \cup {k}) \in Nat
                        /\ Cardinality(answers \ {k}) \in Nat
  BY <1>c, AnswersCount
<1>e. \A file \in Handed \cup {LastFile} :
         reads \cup {[file |-> file, asks |-> unsafe]} \subseteq Read
  BY <1>a DEF TypeOK, Read
<1> USE DEF TypeOK, Counted, shellVars, bridgeVars, windowVars
<1>1. CASE HandOver
  BY <1>1, <1>a, <1>b DEF HandOver, Handed
<1>2. CASE CreateWindow
  BY <1>2, <1>a, <1>b DEF CreateWindow
<1>3. CASE Announce
  BY <1>3, <1>a, <1>b DEF Announce
<1>4. CASE Mount
  BY <1>4, <1>a, <1>b DEF Mount
<1>5. CASE Take
  <2>1. CASE requestedOpenPath = None
    <3>1. /\ answers' = answers /\ idle' = idle + 1 /\ collects' = collects - 1
          /\ page' = page /\ announced' = announced /\ handed' = handed
      BY <1>5, <2>1 DEF Take
    <3>2. collects' \in Nat /\ idle' \in Nat
      BY <1>5, <3>1, <1>a DEF Take
    <3>3. announced + collects' + idle' + Cardinality(answers')
             = announced + collects + idle + Cardinality(answers)
      BY <3>1, <1>a, <1>b
    <3>4. TypeOK'
      BY <1>5, <3>1, <3>2, <3>3, <1>a DEF Take
    <3>5. Counted'
      BY <3>1, <3>3, <1>a
    <3> QED
      BY <3>4, <3>5
  <2>2. CASE requestedOpenPath \in Handed
    <3>1. answers' = answers \cup {requestedOpenPath} /\ idle' = idle
      BY <1>5, <2>2 DEF Take
    <3>2. /\ answers' \subseteq Handed
          /\ Cardinality(answers') \in Nat
          /\ Cardinality(answers') <= Cardinality(answers) + 1
      BY <2>2, <3>1, <1>b, <1>c, <1>d
    <3>3. announced + collects' + idle' + Cardinality(answers')
             <= announced + collects + idle + Cardinality(answers)
      BY <1>5, <3>1, <3>2, <1>a, <1>b DEF Take
    <3>4. collects' \in Nat /\ page' = page /\ announced' = announced /\ handed' = handed
      BY <1>5, <1>a DEF Take
    <3>5. TypeOK'
      BY <1>5, <3>1, <3>2, <3>3, <3>4, <1>a, <1>b DEF Take
    <3>6. Counted'
      BY <3>2, <3>3, <3>4, <3>1, <1>a, <1>b
    <3> QED
      BY <3>5, <3>6
  <2> QED
    BY <2>1, <2>2, <1>a
<1>6. CASE IdleAnswer
  BY <1>6, <1>a, <1>b DEF IdleAnswer
<1>7. ASSUME NEW k \in Handed, FileAnswer(k) PROVE TypeOK' /\ Counted'
  BY <1>7, <1>a, <1>b, <1>c, <1>d DEF FileAnswer
<1>8. CASE OpenRequested
  BY <1>8, <1>a, <1>b, <1>e DEF OpenRequested, ReopenProjectPath
<1>9. CASE StartupReopen
  BY <1>9, <1>a, <1>b, <1>e DEF StartupReopen, ReopenProjectPath
<1>10. CASE RecoveryReady
  BY <1>10, <1>a, <1>b DEF RecoveryReady
<1>11. ASSUME NEW read \in reads, FinishRead(read) PROVE TypeOK' /\ Counted'
  <2>1. read \in Read
    BY <1>a
  <2> QED
    BY <2>1, <1>11, <1>a, <1>b DEF FinishRead, Read
<1>12. ASSUME NEW goOn \in BOOLEAN, AnswerGuard(goOn) PROVE TypeOK' /\ Counted'
  BY <1>12, <1>a, <1>b DEF AnswerGuard
<1>13. ASSUME NEW drawn \in BOOLEAN, Work(drawn) PROVE TypeOK' /\ Counted'
  BY <1>13, <1>a, <1>b DEF Work
<1>14. CASE UNCHANGED vars
  BY <1>14, <1>a DEF vars
<1> QED
  BY <1>1, <1>2, <1>3, <1>4, <1>5, <1>6, <1>7, <1>8, <1>9, <1>10, <1>11, <1>12,
     <1>13, <1>14 DEF Next

\* Where files are.  A step takes a file from one place to the next, and only
\* HandOver puts a new one down.
LEMMA StepKeepsPlaces ==
    IInv /\ [Next]_vars =>
        /\ Numbered'
        /\ StoodDown'
        /\ \A file \in Handed \cup {LastFile} : Exclusive(file)'
        /\ \A r, s \in reads' : r.file = s.file => r = s
<1> DEFINE Unique == \A r, s \in reads : r.file = s.file => r = s
           Separate == \A file \in Handed \cup {LastFile} : Exclusive(file)
           Placed == Numbered /\ StoodDown /\ Separate /\ Unique
<1> SUFFICES ASSUME IInv, [Next]_vars PROVE Placed'
  OBVIOUS
<1> USE PendingOpenAssumption, Distinct
<1>a. Placed /\ TypeOK
  BY DEF IInv
<1> USE DEF Numbered, StoodDown, Exclusive, Collected, BeingRead, TypeOK, shellVars,
            bridgeVars, windowVars
<1>1. CASE HandOver
  BY <1>1, <1>a DEF HandOver, Handed
<1>2. CASE CreateWindow \/ Announce \/ Mount \/ RecoveryReady
  <2>1. /\ requestedOpenPath' = requestedOpenPath /\ handed' = handed
        /\ answers' = answers /\ requestedProjectPath' = requestedProjectPath
        /\ startupReopenAttempted' = startupReopenAttempted /\ reads' = reads
        /\ replaceGuard' = replaceGuard /\ shown' = shown
    BY <1>2 DEF CreateWindow, Announce, Mount, RecoveryReady
  <2>2. \A file \in Handed \cup {LastFile} : Collected(file)' <=> Collected(file)
    BY <2>1
  <2>3. Numbered' /\ StoodDown'
    BY <2>1, <2>2, <1>a
  <2>4. Separate'
    BY <2>1, <2>2, <1>a
  <2> QED
    BY <2>1, <2>3, <2>4, <1>a
<1>3. CASE Take
  <2>1. /\ reads' = reads /\ requestedProjectPath' = requestedProjectPath
        /\ replaceGuard' = replaceGuard /\ shown' = shown /\ handed' = handed
        /\ startupReopenAttempted' = startupReopenAttempted
        /\ requestedOpenPath' = None
        /\ answers' = IF requestedOpenPath = None THEN answers
                      ELSE answers \cup {requestedOpenPath}
    BY <1>3 DEF Take
  <2>2. \A file \in Handed \cup {LastFile} : Collected(file)' <=> Collected(file)
    BY <2>1
  <2>3. \A file \in Handed : file \in answers' =>
             file \in answers \/ requestedOpenPath = file
    BY <2>1
  <2>4. LastFile \notin answers'
    BY <2>1, <1>a
  <2>5. Numbered'
    BY <2>1, <2>2, <2>3, <1>a
  <2>6. StoodDown'
    BY <2>1, <2>2, <1>a
  <2>7. Separate'
    BY <2>1, <2>2, <2>3, <2>4, <1>a
  <2> QED
    BY <2>1, <2>5, <2>6, <2>7, <1>a
<1>4. CASE IdleAnswer
  BY <1>4, <1>a DEF IdleAnswer
<1>5. ASSUME NEW k \in Handed, FileAnswer(k) PROVE Placed'
  BY <1>5, <1>a DEF FileAnswer
<1>6. CASE OpenRequested
  BY <1>6, <1>a DEF OpenRequested, ReopenProjectPath
<1>7. CASE StartupReopen
  <2>1. /\ reads' = reads \cup {[file |-> LastFile, asks |-> unsafe]}
        /\ requestedProjectPath' = requestedProjectPath /\ answers' = answers
        /\ replaceGuard' = replaceGuard /\ shown' = shown /\ handed' = handed
        /\ requestedOpenPath' = requestedOpenPath
        /\ startupReopenAttempted' = TRUE
    BY <1>7 DEF StartupReopen, ReopenProjectPath
  <2>2. \A file \in Handed \cup {LastFile} : ~Collected(file)
    BY <1>7, <1>a DEF StartupReopen
  <2>3. \A read \in reads' : read.file = LastFile => read = [file |-> LastFile, asks |-> unsafe]
    BY <2>1, <2>2
  <2>4. reads = {}
    BY <2>2, <1>a DEF Read
  <2>5. \A file \in Handed : ~Collected(file)'
    BY <2>1, <2>2, <2>4
  <2>6. Numbered' /\ StoodDown'
    BY <2>1, <2>2, <2>5, <1>a
  <2>7. Separate'
    BY <2>1, <2>2, <2>4, <2>5, <1>a
  <2>8. Unique'
    BY <2>1, <2>4
  <2> QED
    BY <2>6, <2>7, <2>8
<1>8. ASSUME NEW read \in reads, FinishRead(read) PROVE Placed'
  BY <1>8, <1>a DEF FinishRead, Read
<1>9. ASSUME NEW goOn \in BOOLEAN, AnswerGuard(goOn) PROVE Placed'
  BY <1>9, <1>a DEF AnswerGuard
<1>10. ASSUME NEW drawn \in BOOLEAN, Work(drawn) PROVE Placed'
  BY <1>10, <1>a DEF Work
<1>11. CASE UNCHANGED vars
  BY <1>11, <1>a DEF vars
<1> QED
  BY <1>1, <1>2, <1>3, <1>4, <1>5, <1>6, <1>7, <1>8, <1>9, <1>10, <1>11 DEF Next

LEMMA Invariant == Spec => []IInv
<1>1. IInv /\ [Next]_vars => IInv'
  BY StepKeepsTypes, StepKeepsPlaces DEF IInv
<1> QED
  BY <1>1, InitInvariant, PTL DEF Spec

-------------------------------------------------------------------------------
\* Every reachable state has the types of its variables, and there are never
\* more collects and answers on their way than the page had reason to make.
THEOREM TypeCorrect == Spec => []TypeOK
<1>1. IInv => TypeOK
  BY DEF IInv
<1> QED
  BY <1>1, Invariant, PTL

\* However announcements, collects, answers, effects and reads interleave, a
\* file that was handed over, and the last file, are in one place at most.
THEOREM FilesAreTakenOnce == Spec => []TakenOnce
<1>1. ASSUME IInv, NEW file \in Handed \cup {LastFile}
      PROVE  Cardinality(Places(file)) <= 1
  <2>1. Exclusive(file) /\ \A r, s \in reads : r.file = s.file => r = s
    BY <1>1 DEF IInv
  <2> USE DEF Exclusive, Collected, BeingRead, Places
  <2>2. CASE requestedOpenPath = file
    <3>1. Places(file) \subseteq {"shell"}
      BY <2>1, <2>2
    <3> QED
      BY <3>1, AtMostOne
  <2>3. CASE file \in answers
    <3>1. Places(file) \subseteq {"answer"}
      BY <2>1, <2>3
    <3> QED
      BY <3>1, AtMostOne
  <2>4. CASE requestedProjectPath = file
    <3>1. Places(file) \subseteq {"requested"}
      BY <2>1, <2>4
    <3> QED
      BY <3>1, AtMostOne
  <2>5. ASSUME NEW read \in reads, read.file = file
        PROVE  Cardinality(Places(file)) <= 1
    <3>1. Places(file) \subseteq {read}
      BY <2>1, <2>5
    <3> QED
      BY <3>1, AtMostOne
  <2>6. CASE replaceGuard = file
    <3>1. Places(file) \subseteq {"guard"}
      BY <2>1, <2>6
    <3> QED
      BY <3>1, AtMostOne
  <2>7. CASE /\ requestedOpenPath # file /\ file \notin answers
             /\ requestedProjectPath # file /\ ~BeingRead(file)
             /\ replaceGuard # file
    <3>1. Places(file) \subseteq {"window"}
      BY <2>7
    <3> QED
      BY <3>1, AtMostOne
  <2> QED
    BY <2>2, <2>3, <2>4, <2>5, <2>6, <2>7 DEF BeingRead
<1>2. IInv => TakenOnce
  BY <1>1 DEF TakenOnce
<1> QED
  BY <1>2, Invariant, PTL

\* Once a handed file has been collected, the last file's reopen does not
\* start.
THEOREM ReopenYields == Spec => StartupReopenYields
<1>1. ASSUME IInv, StartupReopen, NEW k \in Handed
      PROVE  /\ Places(k) \cap {"requested", "guard", "window"} = {}
             /\ \A read \in reads : read.file # k
  <2>1. ~Collected(k)
    BY <1>1 DEF IInv, StoodDown, StartupReopen
  <2>2. \A read \in reads : read.file # k
    BY <2>1 DEF Collected, BeingRead
  <2>3. Places(k) \subseteq {"shell", "answer"}
    BY <2>1, <2>2 DEF Collected, Places
  <2> QED
    BY <2>2, <2>3
<1>2. IInv /\ [Next]_vars =>
         [StartupReopen => \A k \in Handed :
             Places(k) \cap {"requested", "guard", "window"} = {}
             /\ \A read \in reads : read.file # k]_vars
  BY <1>1
<1> QED
  BY <1>2, Invariant, PTL DEF Spec, StartupReopenYields
================================================================================
