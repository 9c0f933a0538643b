-------------------------- MODULE EditorProperties --------------------------
(***************************************************************************)
(* What the undo history promises: it gives back what it takes away.       *)
(***************************************************************************)
EXTENDS Editor

\* "Commands are exact inverses" (history.ts:201), so that a mark stands for one document
\* and "one Ctrl+Z restores it" (useAssistPanel.ts:58): what was committed or redone, its
\* undo takes back exactly, and what was undone, its redo brings back, after any mix of edits,
\* batches of the assistant, replacements and new documents.
ExactInverses ==
    [][ LET done == Last(undoStack')  undone == Last(redoStack')
        IN  /\ Len(undoStack') = Len(undoStack) + 1 => invertAll(doc', done) = doc
            /\ Len(redoStack') = Len(redoStack) + 1 => applyAll(doc', undone) = doc ]_editor
=============================================================================
