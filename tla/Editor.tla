------------------------------- MODULE Editor -------------------------------
(***************************************************************************)
(* The drawing in a tab (packages/editor/src/editor.ts): the document, its *)
(* undo history, and the assistant's proposal shown over it.  Every change *)
(* of the document is an entry of the history.                             *)
(***************************************************************************)
EXTENDS History

CONSTANTS
    Paper,            \* background colours
    Look,             \* the looks a layer may have; 0 is that of a new one
    maxLayers,
    Proposals(_),     \* the op batches an assistant may return for a document
    Edits,            \* which edits the player makes, a bound
    MaxReplaced,      \* layers of a drawing the player has replaced, a bound
    MaxMade           \* commits and new documents, a bound

VARIABLES
    doc,
    undoStack, redoStack,
    activeLayerId,
    ghostOps,         \* the proposal shown, or NoOps
    made              \* numbers given to what was made: entries, layers, strokes

editor == <<doc, undoStack, redoStack, activeLayerId, ghostOps, made>>

NoOps == <<>>

\* newId: the k-th id minted by the commit that is under way.
newId(k) == <<made + 1, k>>

NewLayer(id) == [id |-> id, look |-> 0, strokes |-> <<>>]

blankDocument(paper, n) == [background |-> paper, layers |-> <<NewLayer(<<n, 1>>)>>]

\* The history mark: the last entry applied, as a token; 0 at the start.
mark == IF undoStack = <<>> THEN 0 ELSE Last(undoStack).token

isEmpty == \A i \in DOMAIN doc.layers : doc.layers[i].strokes = <<>>

\* Layer id lies i-th from the bottom.
Lies(id, i) == i \in DOMAIN doc.layers /\ doc.layers[i].id = id

-----------------------------------------------------------------------------
commit(children) ==
    /\ made < MaxMade
    /\ LET entry == compositeCommand(children, made + 1)
       IN  /\ doc' = applyAll(doc, entry)
           /\ undoStack' = Append(undoStack, entry)
    /\ redoStack' = <<>>
    /\ made' = made + 1

\* The document replaced, its history and the proposal dropped.
loadDocument(new) ==
    /\ doc' = new
    /\ activeLayerId' = new.layers[1].id
    /\ undoStack' = <<>> /\ redoStack' = <<>> /\ ghostOps' = NoOps

reconcileActiveLayer ==
    activeLayerId' = IF Has(doc', activeLayerId) \/ doc'.layers = <<>> THEN activeLayerId
                     ELSE doc'.layers[1].id

undo ==
    /\ undoStack # <<>>
    /\ doc' = invertAll(doc, Last(undoStack))
    /\ redoStack' = Append(redoStack, Last(undoStack))
    /\ undoStack' = Front(undoStack)
    /\ reconcileActiveLayer
    /\ UNCHANGED <<ghostOps, made>>

redo ==
    /\ redoStack # <<>>
    /\ doc' = applyAll(doc, Last(redoStack))
    /\ undoStack' = Append(undoStack, Last(redoStack))
    /\ redoStack' = Front(redoStack)
    /\ reconcileActiveLayer
    /\ UNCHANGED <<ghostOps, made>>

-----------------------------------------------------------------------------
\* A stroke lands on the active layer, if it is still there.
finishGesture ==
    /\ "stroke" \in Edits /\ Has(doc, activeLayerId)
    /\ commit(<<addStrokeCommand(activeLayerId, newId(1))>>)
    /\ UNCHANGED <<activeLayerId, ghostOps>>

setActiveLayer(id) ==
    /\ "layer" \in Edits /\ Has(doc, id) /\ id # activeLayerId
    /\ activeLayerId' = id
    /\ UNCHANGED <<doc, undoStack, redoStack, ghostOps, made>>

addLayer ==
    /\ "layer" \in Edits /\ Len(doc.layers) < maxLayers
    /\ commit(<<addLayerCommand(NewLayer(newId(1)), Len(doc.layers))>>)
    /\ activeLayerId' = newId(1)
    /\ UNCHANGED ghostOps

\* The layer that slid into the place becomes active, else the top.
removeLayer(id) ==
    /\ "layer" \in Edits /\ Len(doc.layers) > 1
    /\ commit(<<removeLayerCommand(doc, id)>>)
    /\ activeLayerId' = IF id # activeLayerId THEN activeLayerId
                        ELSE doc'.layers[Clamp(IndexOf(doc, id), Len(doc'.layers))].id
    /\ UNCHANGED ghostOps

moveLayer(id, to) ==
    /\ "move" \in Edits /\ to \in 0 .. Len(doc.layers) - 1 /\ ~Lies(id, to + 1)
    /\ commit(<<moveLayerCommand(doc, id, to)>>)
    /\ UNCHANGED <<activeLayerId, ghostOps>>

setLook(id, look) ==
    /\ "look" \in Edits /\ look # layerById(doc, id).look
    /\ commit(<<setLookCommand(doc, id, look)>>)
    /\ UNCHANGED <<activeLayerId, ghostOps>>

setBackground(paper) ==
    /\ "paper" \in Edits /\ paper # doc.background
    /\ commit(<<setBackgroundCommand(doc, paper)>>)
    /\ UNCHANGED <<activeLayerId, ghostOps>>

-----------------------------------------------------------------------------
\* An op is [kind, layer]: add_layer under an id of the batch, or add_stroke on
\* a layer of the batch or of the document.
previewOps(ops) ==
    /\ "assist" \in Edits /\ ghostOps = NoOps
    /\ ghostOps' = ops
    /\ UNCHANGED <<doc, undoStack, redoStack, activeLayerId, made>>

rejectOps ==
    /\ ghostOps # NoOps
    /\ ghostOps' = NoOps
    /\ UNCHANGED <<doc, undoStack, redoStack, activeLayerId, made>>

AddedBefore(k) == {i \in 1 .. k - 1 : ghostOps[i].kind = "add_layer"}

\* The layer an op names: what its batch last added under that id is known by a fresh one.
Resolved(k) ==
    LET named == {i \in AddedBefore(k) : ghostOps[i].layer = ghostOps[k].layer}
    IN  IF named # {} THEN newId(Max(named)) ELSE ghostOps[k].layer

OpCommand(k) ==
    IF ghostOps[k].kind = "add_layer"
    THEN addLayerCommand(NewLayer(newId(k)), Len(doc.layers) + Cardinality(AddedBefore(k)))
    ELSE addStrokeCommand(Resolved(k), newId(k))

Strokes == {k \in DOMAIN ghostOps : ghostOps[k].kind = "add_stroke"}

drawnInto == {Resolved(k) : k \in Strokes}

\* The layers a replacement takes away, bottom first, each with the index it has before
\* any goes.
Removals ==
    FoldLeft(LAMBDA commands, l :
                 IF l.id \in drawnInto THEN commands
                 ELSE Append(commands, removeLayerCommand(doc, l.id)),
             <<>>, doc.layers)

\* Where strokes go after a replacement: on the layer added last, else on one drawn into.
Activated ==
    LET added == AddedBefore(Len(ghostOps) + 1)
    IN  IF activeLayerId \in drawnInto THEN activeLayerId
        ELSE IF added # {} THEN newId(Max(added))
        ELSE Resolved(Min(Strokes))

acceptOps(mode) ==
    /\ ghostOps # NoOps
    /\ mode = "replace" => ~isEmpty /\ Len(doc.layers) <= MaxReplaced
    /\ commit([k \in DOMAIN ghostOps |-> OpCommand(k)]
              \o (IF mode = "replace" THEN Removals ELSE <<>>))
    /\ activeLayerId' = IF mode = "replace" THEN Activated ELSE activeLayerId
    /\ ghostOps' = NoOps

-----------------------------------------------------------------------------
EditorInit ==
    /\ \E paper \in Paper : doc = blankDocument(paper, 0)
    /\ undoStack = <<>> /\ redoStack = <<>> /\ ghostOps = NoOps /\ made = 0
    /\ activeLayerId = <<0, 1>>

Layers == {doc.layers[i].id : i \in DOMAIN doc.layers}

Edit ==
    \/ finishGesture
    \/ addLayer
    \/ \E id \in Layers :
          \/ setActiveLayer(id)
          \/ removeLayer(id)
          \/ \E to \in 0 .. maxLayers - 1 : moveLayer(id, to)
          \/ \E look \in Look : setLook(id, look)
    \/ \E paper \in Paper : setBackground(paper)
    \/ \E ops \in Proposals(doc) : previewOps(ops)
    \/ rejectOps
    \/ \E mode \in {"add", "replace"} : acceptOps(mode)
    \/ undo
    \/ redo

\* Another document, blank or as it comes from elsewhere.
NewDocument ==
    /\ made < MaxMade
    /\ made' = made + 1
    /\ \E paper \in Paper : loadDocument(blankDocument(paper, made + 1))

EditorNext == Edit \/ NewDocument

EditorSpec == EditorInit /\ [][EditorNext]_editor
=============================================================================
