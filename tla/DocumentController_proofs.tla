----------------------- MODULE DocumentController_proofs -----------------------
(***************************************************************************)
(* Proofs about DocumentController for every value of its constants.  The  *)
(* inductive invariant is the conjunction of the four invariants that TLC  *)
(* checks: types, the agreement of Project and histories, the age of what  *)
(* is stacked, and when a Project-wide redo is on offer.                   *)
(***************************************************************************)
EXTENDS DocumentController, SequenceTheorems, TLAPS

-------------------------------------------------------------------------------
(* Stacks *)

\* What push leaves in a stack: it stays within the limit, the new entry is
\* on top and every other entry was there before.
LEMMA PushBoundedProperties ==
    ASSUME NEW S, NEW stack \in Stack(S), NEW entry \in S
    PROVE  /\ PushBounded(stack, entry) \in Stack(S)
           /\ PushBounded(stack, entry) # <<>>
           /\ Last(PushBounded(stack, entry)) = entry
           /\ \A i \in 1..Len(PushBounded(stack, entry)) :
                 \/ PushBounded(stack, entry)[i] = entry
                 \/ \E j \in 1..Len(stack) :
                       PushBounded(stack, entry)[i] = stack[j]
<1> DEFINE pushed == Append(stack, entry)
<1>1. /\ stack \in Seq(S)
      /\ Len(stack) \in Nat
      /\ Len(stack) <= HistoryLimit
  BY LenProperties DEF Stack
<1>2. /\ pushed \in Seq(S)
      /\ pushed # <<>>
      /\ Len(pushed) = Len(stack) + 1
      /\ \A i \in 1..Len(stack) : pushed[i] = stack[i]
      /\ pushed[Len(stack) + 1] = entry
  BY <1>1, AppendProperties
<1>3. /\ Tail(pushed) \in Seq(S)
      /\ Len(Tail(pushed)) = Len(stack)
      /\ \A i \in 1..Len(stack) : Tail(pushed)[i] = pushed[i + 1]
  BY <1>1, <1>2, HeadTailProperties
<1> HIDE DEF pushed
<1>4. CASE Len(pushed) > HistoryLimit
  <2>1. PushBounded(stack, entry) = Tail(pushed)
    BY <1>4 DEF PushBounded, pushed
  <2>2. Len(stack) \in Nat \ {0}
    BY <1>1, <1>2, <1>4, HistoryLimitAssumption
  <2>3. Tail(pushed)[Len(stack)] = entry
    BY <1>2, <1>3, <2>2
  <2>4. \A i \in 1..Len(stack) : i # Len(stack) => Tail(pushed)[i] = stack[i + 1]
    BY <1>2, <1>3, <2>2
  <2>5. Tail(pushed) # <<>>
    BY <1>3, <2>2, EmptySeq
  <2>6. Tail(pushed) \in Stack(S) /\ Last(Tail(pushed)) = entry
    BY <1>1, <1>3, <2>3 DEF Stack, Last
  <2>7. ASSUME NEW i \in 1..Len(stack), i # Len(stack)
        PROVE  \E j \in 1..Len(stack) : Tail(pushed)[i] = stack[j]
    <3>1. i + 1 \in 1..Len(stack)
      BY <2>2, <2>7
    <3> QED
      BY <2>4, <2>7, <3>1
  <2> QED
    BY <1>3, <2>1, <2>3, <2>5, <2>6, <2>7
<1>5. CASE ~(Len(pushed) > HistoryLimit)
  <2>1. PushBounded(stack, entry) = pushed
    BY <1>5 DEF PushBounded, pushed
  <2>2. Len(pushed) <= HistoryLimit
    BY <1>1, <1>2, <1>5, HistoryLimitAssumption
  <2> QED
    BY <1>1, <1>2, <2>1, <2>2 DEF Stack, Last
<1> QED
  BY <1>4, <1>5

\* What pop takes from a stack, and what it leaves.
LEMMA PopProperties ==
    ASSUME NEW S, NEW stack \in Stack(S), stack # <<>>
    PROVE  /\ Last(stack) \in S
           /\ \E i \in 1..Len(stack) : Last(stack) = stack[i]
           /\ Front(stack) \in Stack(S)
           /\ \A i \in 1..Len(Front(stack)) : i \in 1..Len(stack)
           /\ \A i \in 1..Len(Front(stack)) : Front(stack)[i] = stack[i]
<1>1. /\ stack \in Seq(S)
      /\ Len(stack) \in Nat \ {0}
      /\ Len(stack) <= HistoryLimit
      /\ \A i \in 1..Len(stack) : stack[i] \in S
  BY EmptySeq, ElementOfSeq DEF Stack
<1>2. /\ Front(stack) \in Seq(S)
      /\ Len(Front(stack)) = Len(stack) - 1
      /\ \A i \in 1..Len(stack) - 1 : Front(stack)[i] = stack[i]
  <2> DEFINE m == Len(stack) - 1
             popped == SubSeq(stack, 1, m)
  <2>1. Front(stack) = popped
    BY DEF Front
  <2>2. m \in Nat /\ \A i \in 1..m : stack[i] \in S
    BY <1>1
  <2>3. /\ popped \in Seq(S)
        /\ Len(popped) = IF 1 <= m THEN m - 1 + 1 ELSE 0
        /\ \A i \in 1..m - 1 + 1 : popped[i] = stack[1 + i - 1]
    <3> HIDE DEF m
    <3> QED
      BY <2>2, SubSeqProperties
  <2> HIDE DEF popped
  <2>4. Len(popped) = m /\ \A i \in 1..m : popped[i] = stack[i]
    <3> HIDE DEF m
    <3>1. Len(popped) = m
      BY <2>2, <2>3
    <3>2. ASSUME NEW i \in 1..m PROVE popped[i] = stack[i]
      <4>1. 1 + i - 1 = i /\ i \in 1..m - 1 + 1
        BY <2>2
      <4>2. popped[i] = stack[1 + i - 1]
        BY <2>3, <4>1
      <4> QED
        BY <4>1, <4>2
    <3> QED
      BY <3>1, <3>2
  <2> QED
    BY <2>1, <2>3, <2>4
<1> QED
  BY <1>1, <1>2, HistoryLimitAssumption DEF Stack, Last

-------------------------------------------------------------------------------
(* Histories *)

\* Every state a history can step to is older than the Document it holds.
Older(history) ==
    /\ \A i \in 1..Len(history.undo) :
          history.undo[i].revision < history.document.revision
    /\ \A i \in 1..Len(history.redo) :
          history.redo[i].revision < history.document.revision

\* A fresh history holds its Document and nothing to step to.
LEMMA NewHistoryProperties ==
    ASSUME NEW document \in Document, NEW r \in Resolver
    PROVE  /\ NewHistory(document, r) \in History
           /\ NewHistory(document, r) # Absent
           /\ NewHistory(document, r).document = document
           /\ NewHistory(document, r).undo = <<>>
           /\ NewHistory(document, r).redo = <<>>
           /\ Older(NewHistory(document, r))
<1>1. <<>> \in Stack(Document) /\ Len(<<>>) = 0
  BY EmptySeq, HistoryLimitAssumption DEF Stack
<1>2. NewHistory(document, r) \in History
  BY <1>1 DEF NewHistory, History
<1> QED
  BY <1>1, <1>2, ControllerAssumption DEF NewHistory, Older

\* Pushing a state older than the next revision on a stack of such states.
LEMMA PushedOlder ==
    ASSUME NEW stack \in Stack(Document), NEW document \in Document,
           NEW bound \in Nat,
           document.revision < bound,
           \A i \in 1..Len(stack) : stack[i].revision < bound
    PROVE  \A i \in 1..Len(PushBounded(stack, document)) :
              PushBounded(stack, document)[i].revision < bound
BY PushBoundedProperties

\* A commit moves the Document one revision forward, keeps what it replaced
\* and leaves nothing to redo.
LEMMA CommittedProperties ==
    ASSUME NEW h \in History, Older(h), NEW content \in Contents
    PROVE  /\ Committed(h, content) \in History
           /\ Committed(h, content) # Absent
           /\ Older(Committed(h, content))
           /\ Committed(h, content).document.revision = h.document.revision + 1
           /\ Committed(h, content).undo # <<>>
           /\ Last(Committed(h, content).undo) = h.document
<1> DEFINE next == Committed(h, content)
<1>1. /\ h.document \in Document
      /\ h.document.revision \in Nat
      /\ h.undo \in Stack(Document)
      /\ h.resolver \in Resolver
  BY DEF History, Document
<1>2. /\ next.document = [revision |-> h.document.revision + 1,
                          content  |-> content]
      /\ next.undo = PushBounded(h.undo, h.document)
      /\ next.redo = <<>>
      /\ next = [document |-> next.document, undo |-> next.undo,
                 redo |-> next.redo, resolver |-> h.resolver]
  BY DEF Committed
<1> HIDE DEF next
<1>3. /\ next.undo \in Stack(Document)
      /\ next.undo # <<>>
      /\ Last(next.undo) = h.document
  BY <1>1, <1>2, PushBoundedProperties
<1>4. next.redo \in Stack(Document) /\ Len(next.redo) = 0
  BY <1>2, EmptySeq, HistoryLimitAssumption DEF Stack
<1>5. next.document \in Document
  BY <1>1, <1>2 DEF Document
<1>6. next \in History
  BY <1>1, <1>2, <1>3, <1>4, <1>5 DEF History
<1>7. Older(next)
  <2>1. \A i \in 1..Len(h.undo) : h.undo[i].revision < h.document.revision + 1
    <3>1. \A i \in 1..Len(h.undo) : h.undo[i] \in Document
      BY <1>1, ElementOfSeq DEF Stack
    <3> QED
      BY <1>1, <3>1 DEF Older, Document
  <2>2. \A i \in 1..Len(next.undo) : next.undo[i].revision < h.document.revision + 1
    <3>1. /\ h.document.revision + 1 \in Nat
          /\ h.document.revision < h.document.revision + 1
      BY <1>1
    <3> QED
      BY <1>1, <1>2, <2>1, <3>1, PushedOlder
  <2> QED
    BY <1>2, <1>4, <2>2 DEF Older
<1> QED
  BY <1>2, <1>3, <1>6, <1>7, ControllerAssumption DEF next

\* One step along the history: the last state of one stack is restored under
\* the next revision, and what it replaced goes on top of the other stack.
LEMMA RestoredProperties ==
    ASSUME NEW h \in History, Older(h),
           NEW from \in Stack(Document), NEW to \in Stack(Document),
           from # <<>>,
           \A i \in 1..Len(from) : from[i].revision < h.document.revision,
           \A i \in 1..Len(to) : to[i].revision < h.document.revision
    PROVE  LET document == [revision |-> h.document.revision + 1,
                            content  |-> Last(from).content]
           IN  /\ document \in Document
               /\ Front(from) \in Stack(Document)
               /\ PushBounded(to, h.document) \in Stack(Document)
               /\ PushBounded(to, h.document) # <<>>
               /\ Last(PushBounded(to, h.document)) = h.document
               /\ \A i \in 1..Len(Front(from)) :
                     Front(from)[i].revision < document.revision
               /\ \A i \in 1..Len(PushBounded(to, h.document)) :
                     PushBounded(to, h.document)[i].revision < document.revision
<1> DEFINE document == [revision |-> h.document.revision + 1,
                        content  |-> Last(from).content]
<1>1. h.document \in Document /\ h.document.revision \in Nat
  BY DEF History, Document
<1>2. /\ Last(from) \in Document
      /\ Front(from) \in Stack(Document)
      /\ \A i \in 1..Len(Front(from)) : i \in 1..Len(from)
      /\ \A i \in 1..Len(Front(from)) : Front(from)[i] = from[i]
  BY PopProperties
<1>3. document \in Document /\ document.revision = h.document.revision + 1
  BY <1>1, <1>2 DEF Document
<1>4. /\ \A i \in 1..Len(from) : from[i] \in Document
      /\ \A i \in 1..Len(to) : to[i] \in Document
  BY ElementOfSeq DEF Stack
<1>5. /\ \A i \in 1..Len(from) : from[i].revision < h.document.revision + 1
      /\ \A i \in 1..Len(to) : to[i].revision < h.document.revision + 1
  BY <1>1, <1>4 DEF Document
<1>6. \A i \in 1..Len(PushBounded(to, h.document)) :
         PushBounded(to, h.document)[i].revision < h.document.revision + 1
  <2>1. /\ h.document.revision + 1 \in Nat
        /\ h.document.revision < h.document.revision + 1
    BY <1>1
  <2> QED
    BY <1>1, <1>5, <2>1, PushedOlder
<1>7. \A i \in 1..Len(Front(from)) :
         Front(from)[i].revision < h.document.revision + 1
  BY <1>2, <1>5
<1>8. /\ PushBounded(to, h.document) \in Stack(Document)
      /\ PushBounded(to, h.document) # <<>>
      /\ Last(PushBounded(to, h.document)) = h.document
  BY <1>1, PushBoundedProperties
<1> QED
  BY <1>2, <1>3, <1>6, <1>7, <1>8

\* An undo moves the Document one revision forward and can be redone.
LEMMA UndoneProperties ==
    ASSUME NEW h \in History, Older(h), h.undo # <<>>
    PROVE  /\ Undone(h) \in History
           /\ Undone(h) # Absent
           /\ Older(Undone(h))
           /\ Undone(h).document.revision = h.document.revision + 1
           /\ Undone(h).redo # <<>>
           /\ Last(Undone(h).redo) = h.document
<1> DEFINE document == [revision |-> h.document.revision + 1,
                        content  |-> Last(h.undo).content]
<1>1. /\ h.undo \in Stack(Document)
      /\ h.redo \in Stack(Document)
      /\ h.resolver \in Resolver
      /\ \A i \in 1..Len(h.undo) : h.undo[i].revision < h.document.revision
      /\ \A i \in 1..Len(h.redo) : h.redo[i].revision < h.document.revision
  BY DEF History, Older
<1>2. /\ document \in Document
      /\ Front(h.undo) \in Stack(Document)
      /\ PushBounded(h.redo, h.document) \in Stack(Document)
      /\ PushBounded(h.redo, h.document) # <<>>
      /\ Last(PushBounded(h.redo, h.document)) = h.document
      /\ \A i \in 1..Len(Front(h.undo)) :
            Front(h.undo)[i].revision < document.revision
      /\ \A i \in 1..Len(PushBounded(h.redo, h.document)) :
            PushBounded(h.redo, h.document)[i].revision < document.revision
  BY <1>1, RestoredProperties
<1>3. Undone(h) = [document |-> document, undo |-> Front(h.undo),
                   redo |-> PushBounded(h.redo, h.document),
                   resolver |-> h.resolver]
  BY DEF Undone
<1>4. Undone(h) \in History
  BY <1>1, <1>2, <1>3 DEF History
<1> QED
  BY <1>2, <1>3, <1>4, ControllerAssumption DEF Older

\* A redo moves the Document one revision forward and can be undone.
LEMMA RedoneProperties ==
    ASSUME NEW h \in History, Older(h), h.redo # <<>>
    PROVE  /\ Redone(h) \in History
           /\ Redone(h) # Absent
           /\ Older(Redone(h))
           /\ Redone(h).document.revision = h.document.revision + 1
           /\ Redone(h).undo # <<>>
           /\ Last(Redone(h).undo) = h.document
<1> DEFINE document == [revision |-> h.document.revision + 1,
                        content  |-> Last(h.redo).content]
<1>1. /\ h.undo \in Stack(Document)
      /\ h.redo \in Stack(Document)
      /\ h.resolver \in Resolver
      /\ \A i \in 1..Len(h.undo) : h.undo[i].revision < h.document.revision
      /\ \A i \in 1..Len(h.redo) : h.redo[i].revision < h.document.revision
  BY DEF History, Older
<1>2. /\ document \in Document
      /\ Front(h.redo) \in Stack(Document)
      /\ PushBounded(h.undo, h.document) \in Stack(Document)
      /\ PushBounded(h.undo, h.document) # <<>>
      /\ Last(PushBounded(h.undo, h.document)) = h.document
      /\ \A i \in 1..Len(Front(h.redo)) :
            Front(h.redo)[i].revision < document.revision
      /\ \A i \in 1..Len(PushBounded(h.undo, h.document)) :
            PushBounded(h.undo, h.document)[i].revision < document.revision
  BY <1>1, RestoredProperties
<1>3. Redone(h) = [document |-> document,
                   undo |-> PushBounded(h.undo, h.document),
                   redo |-> Front(h.redo), resolver |-> h.resolver]
  BY DEF Redone
<1>4. Redone(h) \in History
  BY <1>1, <1>2, <1>3 DEF History
<1> QED
  BY <1>2, <1>3, <1>4, ControllerAssumption DEF Older

-------------------------------------------------------------------------------
(* Projects, resolvers and the Map of histories *)

LEMMA SymbolsOfType ==
    ASSUME NEW p \in Projects
    PROVE  SymbolsOf(p) \in Resolver
BY ControllerAssumption DEF SymbolsOf, Projects, Resolver, Document

\* A Project with one present Document rewritten is still a Project.
LEMMA WithDocumentType ==
    ASSUME NEW p \in Projects, NEW d \in Present(p), NEW document \in Document
    PROVE  /\ WithDocument(p, d, document) \in Projects
           /\ WithDocument(p, d, document).structureRevision = p.structureRevision
           /\ WithDocument(p, d, document).top = p.top
           /\ WithDocument(p, d, document).documents =
                 [p.documents EXCEPT ![d] = document]
           /\ Present(WithDocument(p, d, document)) = Present(p)
<1>1. /\ WithDocument(p, d, document).structureRevision = p.structureRevision
      /\ WithDocument(p, d, document).top = p.top
      /\ WithDocument(p, d, document).documents =
            [p.documents EXCEPT ![d] = document]
      /\ WithDocument(p, d, document) \in
            [structureRevision : Nat,
             top               : DocIds,
             documents         : [DocIds -> Document \cup {Absent}]]
  BY DEF WithDocument, Projects, Present
<1>2. Present(WithDocument(p, d, document)) = Present(p)
  BY <1>1, ControllerAssumption DEF Present, Projects
<1> QED
  BY <1>1, <1>2 DEF Projects

\* Putting the replaced Document back gives the Project as it was.
LEMMA RewrittenTwice ==
    ASSUME NEW p \in Projects, NEW d \in DocIds, NEW document
    PROVE  WithDocument(WithDocument(p, d, document), d, p.documents[d]) = p
<1>1. p.documents \in [DocIds -> Document \cup {Absent}]
  BY DEF Projects
<1>2. [[p.documents EXCEPT ![d] = document] EXCEPT ![d] = p.documents[d]]
         = p.documents
  BY <1>1
<1>3. p = [structureRevision |-> p.structureRevision, top |-> p.top,
           documents |-> p.documents]
  BY DEF Projects
<1> QED
  BY <1>2, <1>3 DEF WithDocument

\* What rebuilding the Map of histories leaves in it.
LEMMA OnlyHistoryOfProperties ==
    ASSUME NEW p \in Projects, NEW active \in Present(p), NEW r \in Resolver
    PROVE  /\ OnlyHistoryOf(p, active, r) \in [DocIds -> History \cup {Absent}]
           /\ OnlyHistoryOf(p, active, r)[active] # Absent
           /\ \A d \in DocIds : OnlyHistoryOf(p, active, r)[d] # Absent =>
                 /\ d = active
                 /\ OnlyHistoryOf(p, active, r)[d].document = p.documents[d]
                 /\ OnlyHistoryOf(p, active, r)[d].undo = <<>>
                 /\ OnlyHistoryOf(p, active, r)[d].redo = <<>>
                 /\ Older(OnlyHistoryOf(p, active, r)[d])
<1>1. active \in DocIds /\ p.documents[active] \in Document
  BY DEF Present, Projects
<1> DEFINE h == NewHistory(p.documents[active], r)
<1>2. /\ h \in History
      /\ h # Absent
      /\ h.document = p.documents[active]
      /\ h.undo = <<>>
      /\ h.redo = <<>>
      /\ Older(h)
  BY <1>1, NewHistoryProperties
<1> HIDE DEF h
<1>3. OnlyHistoryOf(p, active, r) =
         [d \in DocIds |-> IF d = active THEN h ELSE Absent]
  BY DEF OnlyHistoryOf, h
<1> QED
  BY <1>1, <1>2, <1>3

-------------------------------------------------------------------------------
(* The inductive invariant *)

IInv == /\ TypeOK
        /\ HistoriesInSync
        /\ RedoNeverOverwritesNewerWork
        /\ StackedStatesAreOlder

OlderProjects(stack, n) ==
    \A i \in 1..Len(stack) : stack[i].project.structureRevision < n

\* StackedStatesAreOlder, one history and one stack at a time.
LEMMA StackedStatesSplit ==
    StackedStatesAreOlder <=>
        /\ \A d \in DocIds : histories[d] # Absent => Older(histories[d])
        /\ OlderProjects(projectUndoStack, project.structureRevision)
        /\ OlderProjects(projectRedoStack, project.structureRevision)
BY DEF StackedStatesAreOlder, Opened, Older, OlderProjects

\* The history dispatchTransaction works on, kept or fresh.
LEMMA HistoryForProperties ==
    ASSUME IInv, NEW d \in Present(project)
    PROVE  /\ HistoryFor(d) \in History
           /\ HistoryFor(d) # Absent
           /\ HistoryFor(d).document = project.documents[d]
           /\ Older(HistoryFor(d))
           /\ histories[d] = Absent =>
                 HistoryFor(d).undo = <<>> /\ HistoryFor(d).redo = <<>>
<1>1. /\ d \in DocIds
      /\ project.documents[d] \in Document
      /\ resolver \in Resolver
      /\ histories[d] \in History \cup {Absent}
  BY DEF IInv, TypeOK, Present, Projects
<1>2. CASE histories[d] # Absent
  BY <1>1, <1>2, StackedStatesSplit DEF HistoryFor, IInv, HistoriesInSync, Opened
<1>3. CASE histories[d] = Absent
  BY <1>1, <1>3, NewHistoryProperties DEF HistoryFor
<1> QED
  BY <1>2, <1>3

\* Init establishes the invariant.
LEMMA InitInvariant == Init => IInv
<1> SUFFICES ASSUME Init PROVE IInv
  OBVIOUS
<1>1. /\ project \in Projects
      /\ activeDocumentId = project.top
      /\ activeDocumentId \in Present(project)
  BY ControllerAssumption DEF Init, Projects
<1>2. resolver \in Resolver
  BY <1>1, SymbolsOfType DEF Init
<1>3. histories = OnlyHistoryOf(project, activeDocumentId, resolver)
  BY DEF Init
<1>4. /\ histories \in [DocIds -> History \cup {Absent}]
      /\ histories[activeDocumentId] # Absent
      /\ \A d \in DocIds : histories[d] # Absent =>
            /\ d = activeDocumentId
            /\ histories[d].document = project.documents[d]
            /\ Older(histories[d])
  BY <1>1, <1>2, <1>3, OnlyHistoryOfProperties
<1>5. <<>> \in Stack(Entry) /\ Len(<<>>) = 0
  BY EmptySeq, HistoryLimitAssumption DEF Stack
<1>6. TypeOK
  BY <1>1, <1>2, <1>4, <1>5 DEF Init, TypeOK
<1>7. HistoriesInSync
  BY <1>1, <1>4 DEF HistoriesInSync, Opened
<1>8. RedoNeverOverwritesNewerWork
  BY DEF Init, RedoNeverOverwritesNewerWork
<1>9. StackedStatesAreOlder
  BY <1>4, <1>5, StackedStatesSplit DEF Init, OlderProjects
<1> QED
  BY <1>6, <1>7, <1>8, <1>9 DEF IInv

-------------------------------------------------------------------------------
(* Steps that rebuild the Map of histories *)

\* A rebuilt Map agrees with the Project and holds nothing to step to.
LEMMA RebuiltHistories ==
    ASSUME project' \in Projects,
           activeDocumentId' \in Present(project'),
           resolver' \in Resolver,
           histories' = OnlyHistoryOf(project', activeDocumentId', resolver')
    PROVE  /\ histories' \in [DocIds -> History \cup {Absent}]
           /\ HistoriesInSync'
           /\ RedoNeverOverwritesNewerWork'
           /\ \A d \in DocIds : histories'[d] # Absent => Older(histories'[d])
<1>1. /\ histories' \in [DocIds -> History \cup {Absent}]
      /\ histories'[activeDocumentId'] # Absent
      /\ \A d \in DocIds : histories'[d] # Absent =>
            /\ d = activeDocumentId'
            /\ histories'[d].document = project'.documents[d]
            /\ histories'[d].undo = <<>>
            /\ histories'[d].redo = <<>>
            /\ Older(histories'[d])
  BY OnlyHistoryOfProperties
<1> QED
  BY <1>1 DEF HistoriesInSync, RedoNeverOverwritesNewerWork, Opened

\* Stacking the live Project and moving on to a newer structure.
LEMMA PushedProject ==
    ASSUME IInv, NEW stack \in Stack(Entry),
           OlderProjects(stack, project.structureRevision)
    PROVE  /\ PushBounded(stack, LiveEntry) \in Stack(Entry)
           /\ PushBounded(stack, LiveEntry) # <<>>
           /\ Last(PushBounded(stack, LiveEntry)) = LiveEntry
           /\ OlderProjects(PushBounded(stack, LiveEntry),
                            project.structureRevision + 1)
<1>1. /\ project \in Projects
      /\ project.structureRevision \in Nat
      /\ LiveEntry \in Entry
      /\ LiveEntry.project.structureRevision = project.structureRevision
  BY DEF IInv, TypeOK, Projects, Entry, LiveEntry, Present
<1>2. /\ PushBounded(stack, LiveEntry) \in Stack(Entry)
      /\ PushBounded(stack, LiveEntry) # <<>>
      /\ Last(PushBounded(stack, LiveEntry)) = LiveEntry
      /\ \A i \in 1..Len(PushBounded(stack, LiveEntry)) :
            \/ PushBounded(stack, LiveEntry)[i] = LiveEntry
            \/ \E j \in 1..Len(stack) :
                  PushBounded(stack, LiveEntry)[i] = stack[j]
  BY <1>1, PushBoundedProperties
<1>3. \A j \in 1..Len(stack) :
         stack[j].project.structureRevision < project.structureRevision + 1
  <2>1. \A j \in 1..Len(stack) : stack[j] \in Entry
    BY ElementOfSeq DEF Stack
  <2> QED
    BY <1>1, <2>1 DEF OlderProjects, Entry, Projects
<1> HIDE DEF LiveEntry
<1> QED
  BY <1>1, <1>2, <1>3 DEF OlderProjects

\* The invariant survives every step that moves to a newer structure, one
\* stack taking the live Project and the other one shrinking.
LEMMA RestructuringStep ==
    ASSUME IInv,
           project' \in Projects,
           project'.structureRevision = project.structureRevision + 1,
           activeDocumentId' \in Present(project'),
           resolver' = SymbolsOf(project'),
           histories' = OnlyHistoryOf(project', activeDocumentId', resolver'),
           projectSessionCounter' = projectSessionCounter,
           projectUndoStack' \in Stack(Entry),
           projectRedoStack' \in Stack(Entry),
           OlderProjects(projectUndoStack', project'.structureRevision),
           OlderProjects(projectRedoStack', project'.structureRevision)
    PROVE  IInv'
<1>1. resolver' \in Resolver
  BY SymbolsOfType
<1>2. /\ histories' \in [DocIds -> History \cup {Absent}]
      /\ HistoriesInSync'
      /\ RedoNeverOverwritesNewerWork'
      /\ \A d \in DocIds : histories'[d] # Absent => Older(histories'[d])
  BY <1>1, RebuiltHistories
<1>3. TypeOK'
  BY <1>1, <1>2 DEF IInv, TypeOK
<1>4. StackedStatesAreOlder'
  BY <1>2 DEF StackedStatesAreOlder, Opened, Older, OlderProjects
<1> QED
  BY <1>2, <1>3, <1>4 DEF IInv

\* Popping a Project stack.
LEMMA PoppedProject ==
    ASSUME IInv, NEW stack \in Stack(Entry), stack # <<>>,
           OlderProjects(stack, project.structureRevision)
    PROVE  /\ Last(stack) \in Entry
           /\ Front(stack) \in Stack(Entry)
           /\ OlderProjects(Front(stack), project.structureRevision + 1)
<1>1. project.structureRevision \in Nat
  BY DEF IInv, TypeOK, Projects
<1>2. /\ Last(stack) \in Entry
      /\ Front(stack) \in Stack(Entry)
      /\ \A i \in 1..Len(Front(stack)) : i \in 1..Len(stack)
      /\ \A i \in 1..Len(Front(stack)) : Front(stack)[i] = stack[i]
  BY PopProperties
<1>3. \A i \in 1..Len(stack) : stack[i] \in Entry
  BY ElementOfSeq DEF Stack
<1>4. \A i \in 1..Len(stack) :
         stack[i].project.structureRevision < project.structureRevision + 1
  BY <1>1, <1>3 DEF OlderProjects, Entry, Projects
<1> QED
  BY <1>2, <1>4 DEF OlderProjects

\* commitProjectStructure preserves the invariant for any well-formed Project.
LEMMA CommitProjectStructureStep ==
    ASSUME IInv, NEW next \in Projects, NEW active,
           CommitProjectStructure(next, active)
    PROVE  IInv'
<1>1. /\ project' = next
      /\ next.structureRevision = project.structureRevision + 1
      /\ activeDocumentId' = active
      /\ active \in Present(next)
      /\ resolver' = SymbolsOf(next)
      /\ histories' = OnlyHistoryOf(next, active, SymbolsOf(next))
      /\ projectUndoStack' = PushBounded(projectUndoStack, LiveEntry)
      /\ projectRedoStack' = <<>>
      /\ projectSessionCounter' = projectSessionCounter
  BY DEF CommitProjectStructure, LiveEntry
<1>2. /\ projectUndoStack \in Stack(Entry)
      /\ OlderProjects(projectUndoStack, project.structureRevision)
  BY StackedStatesSplit DEF IInv, TypeOK
<1>3. /\ projectUndoStack' \in Stack(Entry)
      /\ OlderProjects(projectUndoStack', project'.structureRevision)
  BY <1>1, <1>2, PushedProject
<1>4. /\ projectRedoStack' \in Stack(Entry)
      /\ OlderProjects(projectRedoStack', project'.structureRevision)
  <2>1. <<>> \in Stack(Entry) /\ Len(<<>>) = 0
    BY EmptySeq, HistoryLimitAssumption DEF Stack
  <2> QED
    BY <1>1, <2>1 DEF OlderProjects
<1> QED
  BY <1>1, <1>3, <1>4, RestructuringStep

\* The Projects executeProjectTransaction and planProjectCodeCommit commit.
LEMMA RestructuredType ==
    ASSUME IInv, NEW d \in DocIds, NEW document \in Document \cup {Absent},
           d = project.top => document # Absent
    PROVE  Restructured(d, document) \in Projects
<1>1. /\ project \in Projects
      /\ project.structureRevision + 1 \in Nat
      /\ [project.documents EXCEPT ![d] = document] \in
            [DocIds -> Document \cup {Absent}]
  BY DEF IInv, TypeOK, Projects
<1>2. /\ Restructured(d, document).structureRevision =
            project.structureRevision + 1
      /\ Restructured(d, document).top = project.top
      /\ Restructured(d, document).documents =
            [project.documents EXCEPT ![d] = document]
      /\ Restructured(d, document) \in
            [structureRevision : Nat,
             top               : DocIds,
             documents         : [DocIds -> Document \cup {Absent}]]
  BY <1>1 DEF Restructured, WithDocument, Projects
<1>3. project.top \in DocIds /\ project.documents[project.top] # Absent
  BY <1>1 DEF Projects, Present
<1>4. Restructured(d, document).documents[project.top] # Absent
  BY <1>1, <1>2, <1>3 DEF Projects
<1> QED
  BY <1>2, <1>3, <1>4 DEF Projects, Present

\* planProjectCodeCommit writes a Project, whatever the code says.
LEMMA CodeProjectType ==
    ASSUME IInv, NEW written \in [DocIds -> Contents \cup {Absent}],
           NEW top \in DocIds, written[top] # Absent
    PROVE  [structureRevision |-> project.structureRevision + 1,
            top               |-> top,
            documents         |-> CodeDocuments(written)] \in Projects
<1>1. /\ project.structureRevision \in Nat
      /\ project.documents \in [DocIds -> Document \cup {Absent}]
  BY DEF IInv, TypeOK, Projects
<1>2. ASSUME NEW d \in DocIds
      PROVE  /\ CodeDocuments(written)[d] \in Document \cup {Absent}
             /\ written[d] # Absent => CodeDocuments(written)[d] # Absent
  BY <1>1, ControllerAssumption DEF CodeDocuments, Document
<1>3. CodeDocuments(written) \in [DocIds -> Document \cup {Absent}]
  BY <1>2 DEF CodeDocuments
<1> QED
  BY <1>1, <1>2, <1>3 DEF Projects, Present

\* restoreProjectHistory rebuilds a Project from a stacked one.
LEMMA RestoredFromType ==
    ASSUME IInv, NEW target \in Projects
    PROVE  /\ RestoredFrom(target) \in Projects
           /\ RestoredFrom(target).structureRevision =
                 project.structureRevision + 1
<1>1. /\ project.structureRevision \in Nat
      /\ project.documents \in [DocIds -> Document \cup {Absent}]
      /\ target.documents \in [DocIds -> Document \cup {Absent}]
      /\ target.top \in DocIds
      /\ target.documents[target.top] # Absent
  BY DEF IInv, TypeOK, Projects, Present
<1>2. ASSUME NEW d \in DocIds
      PROVE  /\ RestoredFrom(target).documents[d] \in Document \cup {Absent}
             /\ target.documents[d] # Absent =>
                   RestoredFrom(target).documents[d] # Absent
  BY <1>1, ControllerAssumption DEF RestoredFrom, Document
<1>3. RestoredFrom(target).documents \in [DocIds -> Document \cup {Absent}]
  BY <1>2 DEF RestoredFrom
<1> QED
  BY <1>1, <1>2, <1>3 DEF RestoredFrom, Projects, Present

LEMMA RestoreProjectStep ==
    ASSUME IInv, NEW entry \in Entry, RestoreProject(entry),
           projectUndoStack' \in Stack(Entry),
           projectRedoStack' \in Stack(Entry),
           OlderProjects(projectUndoStack', project.structureRevision + 1),
           OlderProjects(projectRedoStack', project.structureRevision + 1)
    PROVE  IInv'
<1>1. entry.project \in Projects
  BY DEF Entry
<1>2. /\ project' = RestoredFrom(entry.project)
      /\ project' \in Projects
      /\ project'.structureRevision = project.structureRevision + 1
  BY <1>1, RestoredFromType DEF RestoreProject
<1>3. /\ activeDocumentId' = ResolveActive(project', entry.activeDocumentId)
      /\ resolver' = SymbolsOf(project')
      /\ histories' = OnlyHistoryOf(project', activeDocumentId', resolver')
      /\ projectSessionCounter' = projectSessionCounter
  BY <1>2 DEF RestoreProject
<1>4. activeDocumentId' \in Present(project')
  BY <1>2, <1>3 DEF ResolveActive, Projects
<1> QED
  BY <1>2, <1>3, <1>4, RestructuringStep

-------------------------------------------------------------------------------
(* Steps of one Document *)

\* What every applied per-Document transaction leaves behind.
LEMMA CommitHistoryStep ==
    ASSUME IInv, NEW d \in Present(project), NEW h \in History, h # Absent,
           Older(h), NEW kind, CommitHistory(d, h, kind),
           projectRedoStack' = <<>>
    PROVE  IInv'
<1>1. /\ d \in DocIds
      /\ project \in Projects
      /\ h.document \in Document
  BY DEF IInv, TypeOK, Present, History
<1>2. /\ project' = WithDocument(project, d, h.document)
      /\ histories' = [histories EXCEPT ![d] = h]
      /\ resolver' = ResolverAfter(kind, d, project')
      /\ activeDocumentId' = activeDocumentId
      /\ projectUndoStack' = projectUndoStack
      /\ projectSessionCounter' = projectSessionCounter
  BY DEF CommitHistory
<1>3. /\ project' \in Projects
      /\ project'.structureRevision = project.structureRevision
      /\ project'.documents = [project.documents EXCEPT ![d] = h.document]
      /\ Present(project') = Present(project)
  BY <1>1, <1>2, WithDocumentType
<1>4. resolver' \in Resolver
  BY <1>2, <1>3, SymbolsOfType DEF ResolverAfter, IInv, TypeOK
<1>5. histories' \in [DocIds -> History \cup {Absent}]
  BY <1>1, <1>2 DEF IInv, TypeOK
<1>6. projectRedoStack' \in Stack(Entry) /\ Len(projectRedoStack') = 0
  BY EmptySeq, HistoryLimitAssumption DEF Stack
<1>7. TypeOK'
  BY <1>2, <1>3, <1>4, <1>5, <1>6 DEF IInv, TypeOK
<1>8. ASSUME NEW e \in DocIds, histories'[e] # Absent
      PROVE  /\ e \in Present(project')
             /\ histories'[e].document = project'.documents[e]
             /\ Older(histories'[e])
  <2>1. CASE e = d
    BY <1>1, <1>2, <1>3, <2>1 DEF IInv, TypeOK, Projects
  <2>2. CASE e # d
    BY <1>1, <1>2, <1>3, <1>8, <2>2, StackedStatesSplit
       DEF IInv, TypeOK, HistoriesInSync, Opened, Projects
  <2> QED
    BY <2>1, <2>2
<1>9. histories'[activeDocumentId'] # Absent
  BY <1>1, <1>2 DEF IInv, TypeOK, HistoriesInSync, Opened, Present
<1>10. HistoriesInSync'
  BY <1>8, <1>9 DEF HistoriesInSync, Opened
<1>11. RedoNeverOverwritesNewerWork'
  BY DEF RedoNeverOverwritesNewerWork
<1>12. /\ OlderProjects(projectUndoStack', project'.structureRevision)
       /\ OlderProjects(projectRedoStack', project'.structureRevision)
  BY <1>2, <1>3, <1>6, StackedStatesSplit DEF IInv, OlderProjects
<1>13. StackedStatesAreOlder'
  BY <1>8, <1>12 DEF StackedStatesAreOlder, Opened, Older, OlderProjects
<1> QED
  BY <1>7, <1>10, <1>11, <1>13 DEF IInv

\* A Document's own undo or redo is only possible when no Project-wide redo
\* is on offer.
LEMMA SteppingMeansNoProjectRedo ==
    ASSUME IInv, NEW d \in Present(project),
           HistoryFor(d).undo # <<>> \/ HistoryFor(d).redo # <<>>
    PROVE  projectRedoStack = <<>>
<1>1. histories[d] # Absent /\ HistoryFor(d) = histories[d]
  BY HistoryForProperties DEF HistoryFor
<1> QED
  BY <1>1 DEF IInv, RedoNeverOverwritesNewerWork, Opened, Present

-------------------------------------------------------------------------------
(* Every step preserves the invariant *)

LEMMA OpenDocumentStep ==
    ASSUME IInv, NEW d \in DocIds, OpenDocument(d)
    PROVE  IInv'
<1> DEFINE h == IF /\ histories[d] # Absent
                   /\ histories[d].document.revision
                         = project.documents[d].revision
                THEN histories[d]
                ELSE NewHistory(project.documents[d], resolver)
<1>1. /\ d \in Present(project)
      /\ histories' = [histories EXCEPT ![d] = h]
      /\ activeDocumentId' = d
      /\ UNCHANGED <<project, resolver, projectUndoStack, projectRedoStack,
                     projectSessionCounter>>
  BY DEF OpenDocument
<1>2. project.documents[d] \in Document /\ resolver \in Resolver
  BY <1>1 DEF IInv, TypeOK, Projects, Present
<1>3. /\ NewHistory(project.documents[d], resolver) \in History
      /\ NewHistory(project.documents[d], resolver) # Absent
      /\ NewHistory(project.documents[d], resolver).document =
            project.documents[d]
      /\ NewHistory(project.documents[d], resolver).undo = <<>>
      /\ NewHistory(project.documents[d], resolver).redo = <<>>
      /\ Older(NewHistory(project.documents[d], resolver))
  BY <1>2, NewHistoryProperties
<1>4. histories[d] # Absent =>
         /\ histories[d] \in History
         /\ histories[d].document = project.documents[d]
         /\ Older(histories[d])
  BY StackedStatesSplit DEF IInv, TypeOK, HistoriesInSync, Opened
<1>5. /\ h \in History
      /\ h # Absent
      /\ h.document = project.documents[d]
      /\ Older(h)
  BY <1>3, <1>4
<1>6. projectRedoStack # <<>> => h.undo = <<>> /\ h.redo = <<>>
  BY <1>3 DEF IInv, RedoNeverOverwritesNewerWork, Opened
<1> HIDE DEF h
<1>7. /\ histories \in [DocIds -> History \cup {Absent}]
      /\ histories' \in [DocIds -> History \cup {Absent}]
      /\ histories'[d] = h
      /\ \A e \in DocIds \ {d} : histories'[e] = histories[e]
  BY <1>1, <1>5 DEF IInv, TypeOK
<1>8. TypeOK'
  BY <1>1, <1>7 DEF IInv, TypeOK, Present
<1>9. HistoriesInSync'
  BY <1>1, <1>5, <1>7 DEF IInv, HistoriesInSync, Opened, Present
<1>10. RedoNeverOverwritesNewerWork'
  BY <1>1, <1>6, <1>7 DEF IInv, RedoNeverOverwritesNewerWork, Opened
<1>11. StackedStatesAreOlder'
  <2>1. \A e \in DocIds : histories'[e] # Absent => Older(histories'[e])
    BY <1>5, <1>7, StackedStatesSplit DEF IInv
  <2>2. /\ OlderProjects(projectUndoStack', project'.structureRevision)
        /\ OlderProjects(projectRedoStack', project'.structureRevision)
    BY <1>1, StackedStatesSplit DEF IInv
  <2> QED
    BY <2>1, <2>2 DEF StackedStatesAreOlder, Opened, Older, OlderProjects
<1> QED
  BY <1>8, <1>9, <1>10, <1>11 DEF IInv

LEMMA RejectDispatchStep ==
    ASSUME IInv, NEW d \in DocIds, RejectDispatch(d)
    PROVE  IInv'
<1> DEFINE h == HistoryFor(d)
<1>1. /\ d \in Present(project)
      /\ histories[d] = Absent
      /\ histories' = [histories EXCEPT ![d] = h]
      /\ UNCHANGED <<project, activeDocumentId, resolver, projectUndoStack,
                     projectRedoStack, projectSessionCounter>>
  BY DEF RejectDispatch
<1>2. /\ h \in History
      /\ h # Absent
      /\ h.document = project.documents[d]
      /\ Older(h)
      /\ h.undo = <<>>
      /\ h.redo = <<>>
  BY <1>1, HistoryForProperties
<1> HIDE DEF h
<1>3. /\ histories \in [DocIds -> History \cup {Absent}]
      /\ histories' \in [DocIds -> History \cup {Absent}]
      /\ histories'[d] = h
      /\ \A e \in DocIds \ {d} : histories'[e] = histories[e]
  BY <1>1, <1>2 DEF IInv, TypeOK
<1>4. TypeOK'
  BY <1>1, <1>3 DEF IInv, TypeOK, Present
<1>5. HistoriesInSync'
  BY <1>1, <1>2, <1>3 DEF IInv, HistoriesInSync, Opened, Present
<1>6. RedoNeverOverwritesNewerWork'
  BY <1>1, <1>2, <1>3 DEF IInv, RedoNeverOverwritesNewerWork, Opened
<1>7. StackedStatesAreOlder'
  <2>1. \A e \in DocIds : histories'[e] # Absent => Older(histories'[e])
    BY <1>2, <1>3, StackedStatesSplit DEF IInv
  <2>2. /\ OlderProjects(projectUndoStack', project'.structureRevision)
        /\ OlderProjects(projectRedoStack', project'.structureRevision)
    BY <1>1, StackedStatesSplit DEF IInv
  <2> QED
    BY <2>1, <2>2 DEF StackedStatesAreOlder, Opened, Older, OlderProjects
<1> QED
  BY <1>4, <1>5, <1>6, <1>7 DEF IInv

LEMMA InternalErrorStep ==
    ASSUME IInv, InternalError
    PROVE  IInv'
<1>1. /\ project' = project
      /\ activeDocumentId' = activeDocumentId
      /\ resolver' = resolver
      /\ histories' = OnlyHistoryOf(project', activeDocumentId', resolver')
      /\ UNCHANGED <<projectUndoStack, projectRedoStack, projectSessionCounter>>
  BY DEF InternalError
<1>2. /\ project' \in Projects
      /\ activeDocumentId' \in Present(project')
      /\ resolver' \in Resolver
  BY <1>1 DEF IInv, TypeOK
<1>3. /\ histories' \in [DocIds -> History \cup {Absent}]
      /\ HistoriesInSync'
      /\ RedoNeverOverwritesNewerWork'
      /\ \A d \in DocIds : histories'[d] # Absent => Older(histories'[d])
  BY <1>1, <1>2, RebuiltHistories
<1>4. TypeOK'
  BY <1>1, <1>2, <1>3 DEF IInv, TypeOK
<1>5. StackedStatesAreOlder'
  <2>1. /\ OlderProjects(projectUndoStack', project'.structureRevision)
        /\ OlderProjects(projectRedoStack', project'.structureRevision)
    BY <1>1, StackedStatesSplit DEF IInv
  <2> QED
    BY <1>3, <2>1 DEF StackedStatesAreOlder, Opened, Older, OlderProjects
<1> QED
  BY <1>3, <1>4, <1>5 DEF IInv

LEMMA ReplaceProjectStep ==
    ASSUME IInv, NEW p \in FileProjects, ReplaceProject(p)
    PROVE  IInv'
<1>1. /\ project' = p
      /\ activeDocumentId' = p.top
      /\ resolver' = SymbolsOf(p)
      /\ histories' = OnlyHistoryOf(project', activeDocumentId', resolver')
      /\ projectUndoStack' = <<>>
      /\ projectRedoStack' = <<>>
      /\ projectSessionCounter' = projectSessionCounter + 1
  BY DEF ReplaceProject
<1>2. /\ project' \in Projects
      /\ activeDocumentId' \in Present(project')
      /\ resolver' \in Resolver
  BY <1>1, ControllerAssumption, SymbolsOfType DEF Projects
<1>3. /\ histories' \in [DocIds -> History \cup {Absent}]
      /\ HistoriesInSync'
      /\ RedoNeverOverwritesNewerWork'
      /\ \A d \in DocIds : histories'[d] # Absent => Older(histories'[d])
  BY <1>1, <1>2, RebuiltHistories
<1>4. <<>> \in Stack(Entry) /\ Len(<<>>) = 0
  BY EmptySeq, HistoryLimitAssumption DEF Stack
<1>5. TypeOK'
  BY <1>1, <1>2, <1>3, <1>4 DEF IInv, TypeOK
<1>6. StackedStatesAreOlder'
  BY <1>1, <1>3, <1>4 DEF StackedStatesAreOlder, Opened, Older
<1> QED
  BY <1>3, <1>5, <1>6 DEF IInv

LEMMA DocumentEditStep ==
    ASSUME IInv, NEW d \in DocIds,
           \/ \E kind \in EditKinds, content \in Contents :
                 DispatchEdit(d, kind, content)
           \/ UndoDocument(d)
           \/ RedoDocument(d)
    PROVE  IInv'
<1>1. d \in Present(project)
  BY DEF DispatchEdit, UndoDocument, RedoDocument
<1>2. HistoryFor(d) \in History /\ Older(HistoryFor(d))
  BY <1>1, HistoryForProperties
<1>3. CASE \E kind \in EditKinds, content \in Contents :
              DispatchEdit(d, kind, content)
  <2>1. PICK kind \in EditKinds, content \in Contents :
           DispatchEdit(d, kind, content)
    BY <1>3
  <2> DEFINE h == Committed(HistoryFor(d), content)
  <2>2. h \in History /\ h # Absent /\ Older(h)
    BY <1>2, CommittedProperties
  <2>3. CommitHistory(d, h, kind) /\ projectRedoStack' = <<>>
    BY <2>1 DEF DispatchEdit
  <2> HIDE DEF h
  <2> QED
    BY <1>1, <2>2, <2>3, CommitHistoryStep
<1>4. CASE UndoDocument(d)
  <2> DEFINE h == Undone(HistoryFor(d))
  <2>1. HistoryFor(d).undo # <<>>
    BY <1>4 DEF UndoDocument
  <2>2. h \in History /\ h # Absent /\ Older(h)
    BY <1>2, <2>1, UndoneProperties
  <2>3. CommitHistory(d, h, "undo") /\ projectRedoStack' = <<>>
    BY <1>1, <1>4, <2>1, SteppingMeansNoProjectRedo DEF UndoDocument
  <2> HIDE DEF h
  <2> QED
    BY <1>1, <2>2, <2>3, CommitHistoryStep
<1>5. CASE RedoDocument(d)
  <2> DEFINE h == Redone(HistoryFor(d))
  <2>1. HistoryFor(d).redo # <<>>
    BY <1>5 DEF RedoDocument
  <2>2. h \in History /\ h # Absent /\ Older(h)
    BY <1>2, <2>1, RedoneProperties
  <2>3. CommitHistory(d, h, "redo") /\ projectRedoStack' = <<>>
    BY <1>1, <1>5, <2>1, SteppingMeansNoProjectRedo DEF RedoDocument
  <2> HIDE DEF h
  <2> QED
    BY <1>1, <2>2, <2>3, CommitHistoryStep
<1> QED
  BY <1>3, <1>4, <1>5

LEMMA UndoRedoProjectStep ==
    ASSUME IInv, NEW d \in DocIds, UndoProject(d) \/ RedoProject(d)
    PROVE  IInv'
<1>1. /\ projectUndoStack \in Stack(Entry)
      /\ projectRedoStack \in Stack(Entry)
      /\ OlderProjects(projectUndoStack, project.structureRevision)
      /\ OlderProjects(projectRedoStack, project.structureRevision)
  BY StackedStatesSplit DEF IInv, TypeOK
<1>2. CASE UndoProject(d)
  <2>1. /\ projectUndoStack # <<>>
        /\ RestoreProject(Last(projectUndoStack))
        /\ projectUndoStack' = Front(projectUndoStack)
        /\ projectRedoStack' = PushBounded(projectRedoStack, LiveEntry)
    BY <1>2 DEF UndoProject
  <2>2. /\ Last(projectUndoStack) \in Entry
        /\ projectUndoStack' \in Stack(Entry)
        /\ OlderProjects(projectUndoStack', project.structureRevision + 1)
    BY <1>1, <2>1, PoppedProject
  <2>3. /\ projectRedoStack' \in Stack(Entry)
        /\ OlderProjects(projectRedoStack', project.structureRevision + 1)
    BY <1>1, <2>1, PushedProject
  <2> QED
    BY <2>1, <2>2, <2>3, RestoreProjectStep
<1>3. CASE RedoProject(d)
  <2>1. /\ projectRedoStack # <<>>
        /\ RestoreProject(Last(projectRedoStack))
        /\ projectRedoStack' = Front(projectRedoStack)
        /\ projectUndoStack' = PushBounded(projectUndoStack, LiveEntry)
    BY <1>3 DEF RedoProject
  <2>2. /\ Last(projectRedoStack) \in Entry
        /\ projectRedoStack' \in Stack(Entry)
        /\ OlderProjects(projectRedoStack', project.structureRevision + 1)
    BY <1>1, <2>1, PoppedProject
  <2>3. /\ projectUndoStack' \in Stack(Entry)
        /\ OlderProjects(projectUndoStack', project.structureRevision + 1)
    BY <1>1, <2>1, PushedProject
  <2> QED
    BY <2>1, <2>2, <2>3, RestoreProjectStep
<1> QED
  BY <1>2, <1>3

LEMMA StructuralStepStep ==
    ASSUME IInv, NEW active \in DocIds, StructuralStep(active)
    PROVE  IInv'
<1>1. /\ project \in Projects
      /\ project.top \in Present(project)
      /\ project.documents \in [DocIds -> Document \cup {Absent}]
  BY DEF IInv, TypeOK, Projects
<1>2. ASSUME NEW d \in DocIds, NEW content \in Contents,
             AddDocument(d, content, active)
      PROVE  IInv'
  <2> DEFINE document == [revision |-> 0, content |-> content]
  <2>1. document \in Document /\ document # Absent
    BY ControllerAssumption DEF Document
  <2>2. CommitProjectStructure(Restructured(d, document), active)
    BY <1>2 DEF AddDocument
  <2> HIDE DEF document
  <2> QED
    BY <2>1, <2>2, RestructuredType, CommitProjectStructureStep
<1>3. ASSUME NEW d \in DocIds, NEW content \in Contents,
             TransactDocument(d, content, active)
      PROVE  IInv'
  <2> DEFINE document == [revision |-> project.documents[d].revision + 1,
                          content  |-> content]
  <2>1. project.documents[d] \in Document
    BY <1>1, <1>3 DEF TransactDocument, Present
  <2>2. document \in Document /\ document # Absent
    BY <2>1, ControllerAssumption DEF Document
  <2>3. CommitProjectStructure(Restructured(d, document), active)
    BY <1>3 DEF TransactDocument
  <2> HIDE DEF document
  <2> QED
    BY <2>2, <2>3, RestructuredType, CommitProjectStructureStep
<1>4. ASSUME NEW d \in DocIds, RemoveDocument(d, active)
      PROVE  IInv'
  <2>1. /\ d # project.top
        /\ CommitProjectStructure(Restructured(d, Absent), active)
    BY <1>4 DEF RemoveDocument
  <2> QED
    BY <2>1, RestructuredType, CommitProjectStructureStep
<1>5. ASSUME ChangeProjectOnly(active)
      PROVE  IInv'
  <2> DEFINE next == [project EXCEPT !.structureRevision = @ + 1]
  <2>1. next \in Projects
    BY <1>1 DEF Projects, Present
  <2>2. CommitProjectStructure(next, active)
    BY <1>5 DEF ChangeProjectOnly
  <2> HIDE DEF next
  <2> QED
    BY <2>1, <2>2, CommitProjectStructureStep
<1> QED
  BY <1>2, <1>3, <1>4, <1>5 DEF StructuralStep

LEMMA ApplyProjectCodeStep ==
    ASSUME IInv, NEW written \in [DocIds -> Contents \cup {Absent}],
           NEW top \in DocIds, ApplyProjectCode(written, top)
    PROVE  IInv'
<1> DEFINE next == [structureRevision |-> project.structureRevision + 1,
                    top               |-> top,
                    documents         |-> CodeDocuments(written)]
<1>1. next \in Projects
  BY CodeProjectType DEF ApplyProjectCode
<1>2. CommitProjectStructure(next, IF activeDocumentId \in Present(next)
                                   THEN activeDocumentId ELSE top)
  BY DEF ApplyProjectCode
<1> HIDE DEF next
<1> QED
  BY <1>1, <1>2, CommitProjectStructureStep

\* Every step of the controller preserves the invariant.
LEMMA NextInvariant == IInv /\ [Next]_vars => IInv'
<1> SUFFICES ASSUME IInv, [Next]_vars PROVE IInv'
  OBVIOUS
<1>1. ASSUME NEW d \in DocIds, DocumentStep(d) PROVE IInv'
  BY <1>1, OpenDocumentStep, DocumentEditStep, RejectDispatchStep,
     UndoRedoProjectStep DEF DocumentStep
<1>2. ASSUME NEW active \in DocIds, StructuralStep(active) PROVE IInv'
  BY <1>2, StructuralStepStep
<1>3. ASSUME NEW written \in [DocIds -> Contents \cup {Absent}],
             NEW top \in DocIds, ApplyProjectCode(written, top)
      PROVE  IInv'
  BY <1>3, ApplyProjectCodeStep
<1>4. ASSUME NEW p \in FileProjects, ReplaceProject(p) PROVE IInv'
  BY <1>4, ReplaceProjectStep
<1>5. CASE InternalError
  BY <1>5, InternalErrorStep
<1>6. CASE UNCHANGED vars
  BY <1>6 DEF vars, IInv, TypeOK, HistoriesInSync, Opened,
              RedoNeverOverwritesNewerWork, StackedStatesAreOlder
<1> QED
  BY <1>1, <1>2, <1>3, <1>4, <1>5, <1>6 DEF Next

\* The invariant holds in every reachable state.
LEMMA Invariant == Spec => []IInv
BY InitInvariant, NextInvariant, PTL DEF Spec

-------------------------------------------------------------------------------
(* The invariants, for every value of the constants *)

\* Stacks stay within HistoryLimit and the active Document is always one the
\* Project holds, however edits, undo, redo and structural commits interleave.
THEOREM TypeCorrect == Spec => []TypeOK
<1>1. IInv => TypeOK
  BY DEF IInv
<1> QED
  BY <1>1, Invariant, PTL

\* Every history the controller keeps holds the very Document the Project
\* holds, and the open Document always has one.
THEOREM HistoriesStayInSync == Spec => []HistoriesInSync
<1>1. IInv => HistoriesInSync
  BY DEF IInv
<1> QED
  BY <1>1, Invariant, PTL

\* A Project-wide redo is never on offer once any Document has been edited
\* after the undo it would revert.
THEOREM RedoIsSafe == Spec => []RedoNeverOverwritesNewerWork
<1>1. IInv => RedoNeverOverwritesNewerWork
  BY DEF IInv
<1> QED
  BY <1>1, Invariant, PTL

\* No stacked Document or Project carries a revision the live one may reuse.
THEOREM StackedStatesStayOlder == Spec => []StackedStatesAreOlder
<1>1. IInv => StackedStatesAreOlder
  BY DEF IInv
<1> QED
  BY <1>1, Invariant, PTL

-------------------------------------------------------------------------------
(* DocumentController implements VersionedProject *)

LEMMA TokenAndContentType ==
    ASSUME NEW p \in Projects
    PROVE  /\ projectChangeToken(p) \in Versioned!Token
           /\ ContentOf(p) \in Versioned!Content
<1>1. /\ p.structureRevision \in Nat
      /\ p.top \in DocIds
      /\ p.documents \in [DocIds -> Document \cup {Absent}]
  BY DEF Projects
<1>2. \A d \in DocIds : p.documents[d] # Absent =>
         /\ p.documents[d].revision \in Nat
         /\ p.documents[d].content \in Contents
  BY <1>1 DEF Document
<1>3. projectChangeToken(p).revisions \in [DocIds -> Nat \cup {Absent}]
  BY <1>2 DEF projectChangeToken
<1>4. ContentOf(p).documents \in [DocIds -> Contents \cup {Absent}]
  BY <1>2 DEF ContentOf
<1> QED
  BY <1>1, <1>3, <1>4
     DEF projectChangeToken, ContentOf, Versioned!Token, Versioned!Content

\* A step to a newer structure, and a step to a newer revision of one
\* Document, both move the token forward.
LEMMA NewerStructure ==
    ASSUME IInv, IInv',
           project'.structureRevision > project.structureRevision,
           projectSessionCounter' = projectSessionCounter
    PROVE  Versioned!Commit
<1>1. project' \in Projects
  BY DEF IInv, TypeOK
<1>2. Versioned!Later(projectChangeToken(project'), projectChangeToken(project))
  BY DEF Versioned!Later, projectChangeToken
<1> QED
  BY <1>1, <1>2, TokenAndContentType DEF Versioned!Commit

LEMMA NewerDocument ==
    ASSUME IInv, IInv', NEW d \in Present(project), NEW document \in Document,
           project' = WithDocument(project, d, document),
           document.revision = project.documents[d].revision + 1,
           projectSessionCounter' = projectSessionCounter
    PROVE  Versioned!Commit
<1> DEFINE old == projectChangeToken(project)
           new == projectChangeToken(project')
<1>1. /\ project \in Projects
      /\ project' \in Projects
      /\ d \in DocIds
      /\ project.documents \in [DocIds -> Document \cup {Absent}]
      /\ project.documents[d] \in Document
  BY DEF IInv, TypeOK, Present, Projects
<1>2. /\ project'.structureRevision = project.structureRevision
      /\ project'.documents = [project.documents EXCEPT ![d] = document]
  BY <1>1, WithDocumentType
<1>3. new.structureRevision = old.structureRevision
  BY <1>2 DEF projectChangeToken
<1>4. ASSUME NEW e \in DocIds
      PROVE  /\ (new.revisions[e] = Absent) <=> (old.revisions[e] = Absent)
             /\ old.revisions[e] # Absent => new.revisions[e] >= old.revisions[e]
  <2>1. CASE e = d
    <3>1. /\ new.revisions[e] = document.revision
          /\ old.revisions[e] = project.documents[d].revision
          /\ document.revision \in Nat
          /\ project.documents[d].revision \in Nat
      BY <1>1, <1>2, <2>1, ControllerAssumption
         DEF projectChangeToken, Document, Present
    <3> QED
      BY <3>1, ControllerAssumption
  <2>2. CASE e # d
    <3>1. new.revisions[e] = old.revisions[e]
      BY <1>1, <1>2, <2>2 DEF projectChangeToken
    <3>2. old.revisions[e] # Absent => old.revisions[e] \in Nat
      BY <1>1 DEF projectChangeToken, Document
    <3> QED
      BY <3>1, <3>2
  <2> QED
    BY <2>1, <2>2
<1>5. old.revisions[d] # Absent /\ new.revisions[d] > old.revisions[d]
  <2>1. /\ new.revisions[d] = document.revision
        /\ old.revisions[d] = project.documents[d].revision
        /\ project.documents[d].revision \in Nat
    BY <1>1, <1>2, ControllerAssumption
       DEF projectChangeToken, Document, Present
  <2> QED
    BY <2>1, ControllerAssumption
<1> HIDE DEF old, new
<1>6. Versioned!Later(new, old)
  BY <1>1, <1>3, <1>4, <1>5 DEF Versioned!Later, Versioned!RevisionsAdvance
<1> QED
  BY <1>1, <1>6, TokenAndContentType DEF Versioned!Commit, old, new

\* An applied per-Document transaction moves that Document one revision on.
LEMMA DocumentEditAdvances ==
    ASSUME IInv, IInv', NEW d \in DocIds,
           \/ \E kind \in EditKinds, content \in Contents :
                 DispatchEdit(d, kind, content)
           \/ UndoDocument(d)
           \/ RedoDocument(d)
    PROVE  Versioned!Commit
<1>1. d \in Present(project)
  BY DEF DispatchEdit, UndoDocument, RedoDocument
<1>2. /\ HistoryFor(d) \in History
      /\ Older(HistoryFor(d))
      /\ HistoryFor(d).document = project.documents[d]
  BY <1>1, HistoryForProperties
<1>3. PICK h \in History :
         /\ h.document.revision = project.documents[d].revision + 1
         /\ \E kind \in EditKinds \cup {"undo", "redo"} : CommitHistory(d, h, kind)
  <2>1. CASE \E kind \in EditKinds, content \in Contents :
                DispatchEdit(d, kind, content)
    BY <1>2, <2>1, CommittedProperties DEF DispatchEdit
  <2>2. CASE UndoDocument(d)
    BY <1>2, <2>2, UndoneProperties DEF UndoDocument
  <2>3. CASE RedoDocument(d)
    BY <1>2, <2>3, RedoneProperties DEF RedoDocument
  <2> QED
    BY <2>1, <2>2, <2>3
<1>4. /\ project' = WithDocument(project, d, h.document)
      /\ projectSessionCounter' = projectSessionCounter
      /\ h.document \in Document
  BY <1>3 DEF CommitHistory, History
<1> QED
  BY <1>1, <1>3, <1>4, NewerDocument

\* Structural commits, and steps along the Project stacks.
LEMMA StructureAdvances ==
    ASSUME IInv, IInv',
           \/ \E next, active : CommitProjectStructure(next, active)
           \/ \E entry \in Entry : RestoreProject(entry)
    PROVE  Versioned!Commit
<1>1. project.structureRevision \in Nat
  BY DEF IInv, TypeOK, Projects
<1>2. /\ project'.structureRevision = project.structureRevision + 1
      /\ projectSessionCounter' = projectSessionCounter
  <2>1. CASE \E next, active : CommitProjectStructure(next, active)
    BY <2>1 DEF CommitProjectStructure
  <2>2. CASE \E entry \in Entry : RestoreProject(entry)
    <3>1. PICK entry \in Entry : RestoreProject(entry)
      BY <2>2
    <3>2. entry.project \in Projects
      BY DEF Entry
    <3> QED
      BY <3>1, <3>2, RestoredFromType DEF RestoreProject
  <2> QED
    BY <2>1, <2>2
<1> QED
  BY <1>1, <1>2, NewerStructure

LEMMA StepRefines ==
    IInv /\ IInv' /\ [Next]_vars => [Versioned!Next]_(Versioned!versionVars)
<1> SUFFICES ASSUME IInv, IInv', [Next]_vars
             PROVE  [Versioned!Next]_(Versioned!versionVars)
  OBVIOUS
<1> USE DEF Versioned!Next, Versioned!versionVars
<1>1. ASSUME NEW d \in DocIds, DocumentStep(d)
      PROVE  [Versioned!Next]_(Versioned!versionVars)
  <2>1. CASE OpenDocument(d) \/ RejectDispatch(d)
    BY <2>1 DEF OpenDocument, RejectDispatch
  <2>2. CASE \/ \E kind \in EditKinds, content \in Contents :
                   DispatchEdit(d, kind, content)
             \/ UndoDocument(d)
             \/ RedoDocument(d)
    BY <2>2, DocumentEditAdvances
  <2>3. CASE UndoProject(d) \/ RedoProject(d)
    <3>1. \E entry \in Entry : RestoreProject(entry)
      BY <2>3, PoppedProject, StackedStatesSplit
         DEF UndoProject, RedoProject, IInv, TypeOK
    <3> QED
      BY <3>1, StructureAdvances
  <2> QED
    BY <1>1, <2>1, <2>2, <2>3 DEF DocumentStep
<1>2. ASSUME NEW active \in DocIds, StructuralStep(active)
      PROVE  [Versioned!Next]_(Versioned!versionVars)
  <2>1. \E next, a : CommitProjectStructure(next, a)
    BY <1>2 DEF StructuralStep, AddDocument, TransactDocument, RemoveDocument,
                ChangeProjectOnly
  <2> QED
    BY <2>1, StructureAdvances
<1>3. ASSUME NEW written \in [DocIds -> Contents \cup {Absent}],
             NEW top \in DocIds, ApplyProjectCode(written, top)
      PROVE  [Versioned!Next]_(Versioned!versionVars)
  <2>1. \E next, a : CommitProjectStructure(next, a)
    BY <1>3 DEF ApplyProjectCode
  <2> QED
    BY <2>1, StructureAdvances
<1>4. ASSUME NEW p \in FileProjects, ReplaceProject(p)
      PROVE  [Versioned!Next]_(Versioned!versionVars)
  <2>1. project' \in Projects /\ projectSessionCounter' = projectSessionCounter + 1
    BY <1>4 DEF ReplaceProject, IInv, TypeOK
  <2> QED
    BY <2>1, TokenAndContentType DEF Versioned!Install
<1>5. CASE InternalError \/ UNCHANGED vars
  BY <1>5 DEF InternalError, vars
<1> QED
  BY <1>1, <1>2, <1>3, <1>4, <1>5 DEF Next

\* Within a session, no commit, undo, redo or structural change ever brings
\* the change token back: two equal tokens stand for the same Project, which
\* is what saving, the dirty mark and recovery rely on.
THEOREM ControllerImplementsVersionedProject == Spec => TokensOnlyAdvance
<1>1. Init => Versioned!Init
  <2> SUFFICES ASSUME Init PROVE Versioned!Init
    OBVIOUS
  <2>1. project \in Projects
    BY ControllerAssumption DEF Init
  <2> QED
    BY <2>1, TokenAndContentType DEF Init, Versioned!Init
<1>2. IInv /\ IInv' /\ [Next]_vars => [Versioned!Next]_(Versioned!versionVars)
  BY StepRefines
<1> QED
  BY <1>1, <1>2, Invariant, PTL DEF Spec, TokensOnlyAdvance, Versioned!Spec

-------------------------------------------------------------------------------
(* Nothing is replaced without a way back *)

\* A commit, an undo and a redo each put what they replaced on a stack.
LEMMA StepKeepsPriorWork ==
    ASSUME IInv, IInv', [Next]_vars,
           projectSessionCounter' = projectSessionCounter,
           project' # project
    PROVE  \/ TopIs(projectUndoStack', LiveEntry)
           \/ TopIs(projectRedoStack', LiveEntry)
           \/ \E d \in DocIds :
                 /\ Opened(d)'
                 /\ WithDocument(project', d, project.documents[d]) = project
                 /\ \/ TopIs(histories'[d].undo, project.documents[d])
                    \/ TopIs(histories'[d].redo, project.documents[d])
<1>1. ASSUME NEW d \in DocIds,
             \/ \E kind \in EditKinds, content \in Contents :
                   DispatchEdit(d, kind, content)
             \/ UndoDocument(d)
             \/ RedoDocument(d)
      PROVE  /\ Opened(d)'
             /\ WithDocument(project', d, project.documents[d]) = project
             /\ \/ TopIs(histories'[d].undo, project.documents[d])
                \/ TopIs(histories'[d].redo, project.documents[d])
  <2>1. d \in Present(project) /\ d \in DocIds
    BY <1>1 DEF DispatchEdit, UndoDocument, RedoDocument
  <2>2. /\ HistoryFor(d) \in History
        /\ Older(HistoryFor(d))
        /\ HistoryFor(d).document = project.documents[d]
    BY <2>1, HistoryForProperties
  <2>3. PICK h \in History :
           /\ h # Absent
           /\ \/ TopIs(h.undo, project.documents[d])
              \/ TopIs(h.redo, project.documents[d])
           /\ \E kind \in EditKinds \cup {"undo", "redo"} : CommitHistory(d, h, kind)
    <3>1. CASE \E kind \in EditKinds, content \in Contents :
                  DispatchEdit(d, kind, content)
      BY <2>2, <3>1, CommittedProperties DEF DispatchEdit, TopIs
    <3>2. CASE UndoDocument(d)
      BY <2>2, <3>2, UndoneProperties DEF UndoDocument, TopIs
    <3>3. CASE RedoDocument(d)
      BY <2>2, <3>3, RedoneProperties DEF RedoDocument, TopIs
    <3> QED
      BY <1>1, <3>1, <3>2, <3>3
  <2>4. /\ project' = WithDocument(project, d, h.document)
        /\ histories' = [histories EXCEPT ![d] = h]
    BY <2>3 DEF CommitHistory
  <2>5. histories'[d] = h
    BY <2>1, <2>4 DEF IInv, TypeOK
  <2>6. WithDocument(project', d, project.documents[d]) = project
    BY <2>1, <2>4, RewrittenTwice DEF IInv, TypeOK
  <2> QED
    BY <2>3, <2>5, <2>6 DEF Opened
<1>2. ASSUME NEW next \in Projects, NEW active, CommitProjectStructure(next, active)
      PROVE  TopIs(projectUndoStack', LiveEntry)
  <2>1. /\ projectUndoStack \in Stack(Entry)
        /\ OlderProjects(projectUndoStack, project.structureRevision)
        /\ projectUndoStack' = PushBounded(projectUndoStack, LiveEntry)
    BY <1>2, StackedStatesSplit
       DEF CommitProjectStructure, LiveEntry, IInv, TypeOK
  <2> QED
    BY <2>1, PushedProject DEF TopIs
<1>3. ASSUME NEW d \in DocIds, UndoProject(d) \/ RedoProject(d)
      PROVE  \/ TopIs(projectUndoStack', LiveEntry)
             \/ TopIs(projectRedoStack', LiveEntry)
  <2>1. /\ projectUndoStack \in Stack(Entry)
        /\ projectRedoStack \in Stack(Entry)
        /\ OlderProjects(projectUndoStack, project.structureRevision)
        /\ OlderProjects(projectRedoStack, project.structureRevision)
    BY StackedStatesSplit DEF IInv, TypeOK
  <2>2. \/ projectRedoStack' = PushBounded(projectRedoStack, LiveEntry)
        \/ projectUndoStack' = PushBounded(projectUndoStack, LiveEntry)
    BY <1>3 DEF UndoProject, RedoProject
  <2> QED
    BY <2>1, <2>2, PushedProject DEF TopIs
<1>4. ASSUME NEW active \in DocIds, StructuralStep(active)
      PROVE  TopIs(projectUndoStack', LiveEntry)
  <2>1. \E next, a : CommitProjectStructure(next, a)
    BY <1>4 DEF StructuralStep, AddDocument, TransactDocument, RemoveDocument,
                ChangeProjectOnly
  <2> QED
    BY <1>2, <2>1 DEF CommitProjectStructure, IInv, TypeOK
<1>5. ASSUME NEW written \in [DocIds -> Contents \cup {Absent}],
             NEW top \in DocIds, ApplyProjectCode(written, top)
      PROVE  TopIs(projectUndoStack', LiveEntry)
  <2>1. \E next, a : CommitProjectStructure(next, a)
    BY <1>5 DEF ApplyProjectCode
  <2> QED
    BY <1>2, <2>1 DEF CommitProjectStructure, IInv, TypeOK
<1>6. \A d \in DocIds : ~OpenDocument(d) /\ ~RejectDispatch(d)
  BY DEF OpenDocument, RejectDispatch
<1>7. \A p \in FileProjects : ~ReplaceProject(p)
  BY DEF ReplaceProject, IInv, TypeOK
<1>8. ~InternalError /\ ~(UNCHANGED vars)
  BY DEF InternalError, vars
<1> QED
  BY <1>1, <1>3, <1>4, <1>5, <1>6, <1>7, <1>8 DEF Next, DocumentStep

\* Whatever replaces work within a session, the work is on top of an undo or
\* redo stack afterwards, of its Document or of the whole Project.
THEOREM PriorWorkIsKept == Spec => PriorWorkStaysReachable
<1>1. IInv /\ IInv' /\ [Next]_vars =>
         [\/ projectSessionCounter' # projectSessionCounter
          \/ project' = project
          \/ TopIs(projectUndoStack', LiveEntry)
          \/ TopIs(projectRedoStack', LiveEntry)
          \/ \E d \in DocIds :
                /\ Opened(d)'
                /\ WithDocument(project', d, project.documents[d]) = project
                /\ \/ TopIs(histories'[d].undo, project.documents[d])
                   \/ TopIs(histories'[d].redo, project.documents[d])]_vars
  BY StepKeepsPriorWork
<1> QED
  BY <1>1, Invariant, PTL DEF Spec, PriorWorkStaysReachable

--------------------------------------------------------------------------------
(* The Project's resolver *)

\* Rewriting one Document changes no definition but its own.
LEMMA OtherDefinitionsStay ==
    ASSUME NEW p \in Projects, NEW d \in Present(p), NEW document \in Document,
           SymbolOf[document.content] = SymbolOf[p.documents[d].content]
    PROVE  SymbolsOf(WithDocument(p, d, document)) = SymbolsOf(p)
<1>1. /\ WithDocument(p, d, document).documents =
            [p.documents EXCEPT ![d] = document]
      /\ p.documents \in [DocIds -> Document \cup {Absent}]
      /\ d \in DocIds /\ p.documents[d] # Absent /\ document # Absent
  BY WithDocumentType, ControllerAssumption DEF Projects, Present
<1>2. \A e \in DocIds : e # d => WithDocument(p, d, document).documents[e] = p.documents[e]
  BY <1>1
<1>3. WithDocument(p, d, document).documents[d] = document
  BY <1>1
<1> QED
  BY <1>1, <1>2, <1>3 DEF SymbolsOf

\* A commit of a kind that may change definitions, or one that changes none,
\* leaves the resolver where the Project is.
LEMMA CommitFollowsDefinitions ==
    ASSUME IInv, NEW d \in Present(project), NEW h \in History, NEW kind,
           CommitHistory(d, h, kind),
           resolver = SymbolsOf(project),
           \/ MayChangeDefinitions(kind)
           \/ SymbolOf[h.document.content] = SymbolOf[project.documents[d].content]
    PROVE  resolver' = SymbolsOf(project')
<1> DEFINE next == WithDocument(project, d, h.document)
<1>1. /\ project \in Projects
      /\ d \in DocIds
      /\ project.documents[d] # Absent
      /\ h.document \in Document
      /\ h.document # Absent
  BY ControllerAssumption DEF IInv, TypeOK, Present, History
<1>2. project' = next /\ resolver' = ResolverAfter(kind, d, next)
  BY DEF CommitHistory
<1>3. next.documents[d] = h.document
  <2>1. next.documents = [project.documents EXCEPT ![d] = h.document]
    BY <1>1, WithDocumentType
  <2> QED
    BY <1>1, <2>1 DEF Projects
<1>4. /\ SymbolsOf(next)[d] = SymbolOf[h.document.content]
      /\ SymbolsOf(project)[d] = SymbolOf[project.documents[d].content]
  BY <1>1, <1>3 DEF SymbolsOf
<1>5. CASE SymbolOf[h.document.content] = SymbolOf[project.documents[d].content]
  <2>1. SymbolsOf(next) = SymbolsOf(project)
    BY <1>1, <1>5, OtherDefinitionsStay
  <2> QED
    BY <1>2, <2>1 DEF ResolverAfter
<1>6. CASE /\ MayChangeDefinitions(kind)
           /\ SymbolOf[h.document.content] # SymbolOf[project.documents[d].content]
  BY <1>2, <1>4, <1>6 DEF ResolverAfter
<1> QED
  BY <1>5, <1>6

LEMMA StepFollowsDefinitions ==
    ASSUME IInv, Next, resolver = SymbolsOf(project),
           ~ \E d \in DocIds, content \in Contents : DispatchEdit(d, "rail", content)
    PROVE  resolver' = SymbolsOf(project')
<1>1. ASSUME NEW d \in DocIds, NEW kind \in EditKinds, NEW content \in Contents,
             DispatchEdit(d, kind, content)
      PROVE  resolver' = SymbolsOf(project')
  <2>1. d \in Present(project) /\ kind \in {"drawing", "definition"}
    BY <1>1 DEF DispatchEdit, EditKinds
  <2>2. /\ HistoryFor(d) \in History
        /\ HistoryFor(d).document = project.documents[d]
        /\ Committed(HistoryFor(d), content) \in History
        /\ Committed(HistoryFor(d), content).document.content = content
    BY <2>1, HistoryForProperties, CommittedProperties DEF Committed
  <2>3. \/ MayChangeDefinitions(kind)
        \/ SymbolOf[content] = SymbolOf[project.documents[d].content]
    BY <1>1, <2>1, <2>2 DEF DispatchEdit, MayChangeDefinitions
  <2> QED
    BY <1>1, <2>1, <2>2, <2>3, CommitFollowsDefinitions DEF DispatchEdit
<1>2. ASSUME NEW d \in DocIds, UndoDocument(d)
      PROVE  resolver' = SymbolsOf(project')
  <2>1. d \in Present(project) /\ HistoryFor(d).undo # <<>>
    BY <1>2 DEF UndoDocument
  <2>2. Undone(HistoryFor(d)) \in History
    BY <2>1, HistoryForProperties, UndoneProperties
  <2> QED
    BY <1>2, <2>1, <2>2, CommitFollowsDefinitions
       DEF UndoDocument, MayChangeDefinitions
<1>3. ASSUME NEW d \in DocIds, RedoDocument(d)
      PROVE  resolver' = SymbolsOf(project')
  <2>1. d \in Present(project) /\ HistoryFor(d).redo # <<>>
    BY <1>3 DEF RedoDocument
  <2>2. Redone(HistoryFor(d)) \in History
    BY <2>1, HistoryForProperties, RedoneProperties
  <2> QED
    BY <1>3, <2>1, <2>2, CommitFollowsDefinitions
       DEF RedoDocument, MayChangeDefinitions
<1>4. ASSUME NEW d \in DocIds, OpenDocument(d) \/ RejectDispatch(d)
      PROVE  resolver' = SymbolsOf(project')
  BY <1>4 DEF OpenDocument, RejectDispatch, SymbolsOf
<1>5. ASSUME InternalError
      PROVE  resolver' = SymbolsOf(project')
  BY <1>5 DEF InternalError, SymbolsOf
<1>6. ASSUME NEW p \in FileProjects, ReplaceProject(p)
      PROVE  resolver' = SymbolsOf(project')
  BY <1>6 DEF ReplaceProject, SymbolsOf
<1>7. ASSUME NEW d \in DocIds, UndoProject(d) \/ RedoProject(d)
      PROVE  resolver' = SymbolsOf(project')
  BY <1>7 DEF UndoProject, RedoProject, RestoreProject, SymbolsOf
<1>8. ASSUME NEW next, NEW active, CommitProjectStructure(next, active)
      PROVE  resolver' = SymbolsOf(project')
  BY <1>8 DEF CommitProjectStructure, SymbolsOf
<1>9. ASSUME NEW active \in DocIds, StructuralStep(active)
      PROVE  resolver' = SymbolsOf(project')
  BY <1>8, <1>9 DEF StructuralStep, AddDocument, TransactDocument, RemoveDocument,
                    ChangeProjectOnly
<1>10. ASSUME NEW written \in [DocIds -> Contents \cup {Absent}],
              NEW top \in DocIds, ApplyProjectCode(written, top)
       PROVE  resolver' = SymbolsOf(project')
  BY <1>8, <1>10 DEF ApplyProjectCode
<1> QED
  BY <1>1, <1>2, <1>3, <1>4, <1>5, <1>6, <1>7, <1>9, <1>10 DEF Next, DocumentStep

\* The resolver the canvas draws with is rebuilt by every step that changes a
\* published definition, but for an edit that draws a local power rail.
THEOREM DefinitionsAreFollowed == Spec => ResolverFollowsDefinitions
<1>1. IInv /\ [Next]_vars =>
         [(resolver = SymbolsOf(project) /\ resolver' # SymbolsOf(project'))
          => \E d \in DocIds, content \in Contents :
                DispatchEdit(d, "rail", content)]_vars
  BY StepFollowsDefinitions
<1> QED
  BY <1>1, Invariant, PTL DEF Spec, ResolverFollowsDefinitions

===============================================================================
