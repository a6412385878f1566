---------------------------- MODULE DocumentHistory ----------------------------
(***************************************************************************)
(* packages/edit-engine/src/history.ts: the undo and redo stacks of one    *)
(* Document.  A history is a value here; DocumentController keeps one per  *)
(* opened Document.  The engine that turns edits into a new Document is    *)
(* external to this module: a transaction is the content it commits.       *)
(***************************************************************************)
EXTENDS Integers, Sequences, SequencesExt

CONSTANTS Contents,     \* Document content, the revision left aside
          Absent,       \* no Document, or no history opened for it
          HistoryLimit  \* DEFAULT_DOCUMENT_HISTORY_LIMIT

ASSUME HistoryLimitAssumption == HistoryLimit \in Nat \ {0}

Document == [revision : Nat, content : Contents]

\* Mutant: the comparison is off by one.
PushUnbounded(stack, entry) ==
    LET pushed == Append(stack, entry)
    IN  IF Len(pushed) > HistoryLimit + 1 THEN Tail(pushed) ELSE pushed

\* push, then shift the oldest entry out when the stack is over its limit.
PushBounded(stack, entry) ==
    LET pushed == Append(stack, entry)
    IN  IF Len(pushed) > HistoryLimit THEN Tail(pushed) ELSE pushed

\* The constructor: the symbol resolver is fixed for the history's lifetime.
NewHistory(document, symbolResolver) ==
    [document |-> document, undo |-> <<>>, redo |-> <<>>,
     resolver |-> symbolResolver]

\* transact() for ordinary edits that the engine applied.
Committed(history, content) ==
    [document |-> [revision |-> history.document.revision + 1,
                   content  |-> content],
     undo     |-> PushBounded(history.undo, history.document),
     redo     |-> <<>>,
     resolver |-> history.resolver]

\* Mutant: the restored state keeps the revision it was stored with.
UndoneInPlace(history) ==
    [document |-> Last(history.undo),
     undo     |-> Front(history.undo),
     redo     |-> PushBounded(history.redo, history.document),
     resolver |-> history.resolver]

\* Mutant: the stack keeps the restored state instead of the replaced one.
UndoneForgetful(history) ==
    [document |-> [revision |-> history.document.revision + 1,
                   content  |-> Last(history.undo).content],
     undo     |-> Front(history.undo),
     redo     |-> PushBounded(history.redo, Last(history.undo)),
     resolver |-> history.resolver]

\* transact() for a single undo edit, when a state is available.
Undone(history) ==
    [document |-> [revision |-> history.document.revision + 1,
                   content  |-> Last(history.undo).content],
     undo     |-> Front(history.undo),
     redo     |-> PushBounded(history.redo, history.document),
     resolver |-> history.resolver]

\* transact() for a single redo edit, when a state is available.
Redone(history) ==
    [document |-> [revision |-> history.document.revision + 1,
                   content  |-> Last(history.redo).content],
     undo     |-> PushBounded(history.undo, history.document),
     redo     |-> Front(history.redo),
     resolver |-> history.resolver]
================================================================================
