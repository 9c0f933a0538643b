------------------------------ MODULE History ------------------------------
(***************************************************************************)
(* Commands over a document, each with its inverse (packages/editor/src/   *)
(* history.ts).  A document is its background and its layers, bottom       *)
(* first; a layer is its id, its strokes and its look, which stands for    *)
(* name, visibility and opacity: their three commands are one.             *)
(***************************************************************************)
EXTENDS Integers, SequencesExt

Clamp(i, n) == IF i < n THEN i ELSE n

\* Where a layer is, from 1; 0 if the document does not hold it.
IndexOf(doc, id) == SelectInSeq(doc.layers, LAMBDA l : l.id = id)

layerById(doc, id) == doc.layers[IndexOf(doc, id)]

Has(doc, id) == IndexOf(doc, id) # 0

\* A layer spliced in at an index from 0, cut down to the top.
Spliced(doc, layer, index) ==
    [doc EXCEPT !.layers = InsertAt(@, Clamp(index, Len(@)) + 1, layer)]

\* The layer of that id spliced out, if the document holds it.
Without(doc, id) ==
    IF Has(doc, id) THEN [doc EXCEPT !.layers = RemoveAt(@, IndexOf(doc, id))] ELSE doc

moveLayerTo(doc, id, index) ==
    IF Has(doc, id) THEN Spliced(Without(doc, id), layerById(doc, id), index) ELSE doc

\* The layer of that id is now this, if the document holds it.
Changed(doc, id, layer) ==
    IF Has(doc, id) THEN [doc EXCEPT !.layers[IndexOf(doc, id)] = layer] ELSE doc

-----------------------------------------------------------------------------
\* The commands, with what each captures when it is built.  (A captured layer is an
\* object of the document; whoever re-inserts it finds it as it was taken out.)
addStrokeCommand(id, stroke) == [do |-> "stroke", id |-> id, stroke |-> stroke]

addLayerCommand(layer, index) == [do |-> "add", layer |-> layer, index |-> index]

\* The place above the one the layer was taken from.
removeLayerCommand_Above(doc, id) ==
    [do |-> "remove", layer |-> layerById(doc, id), index |-> IndexOf(doc, id)]

removeLayerCommand(doc, id) ==
    [do |-> "remove", layer |-> layerById(doc, id), index |-> IndexOf(doc, id) - 1]

moveLayerCommand(doc, id, to) ==
    [do |-> "move", id |-> id, to |-> to, from |-> IndexOf(doc, id) - 1]

setLookCommand(doc, id, look) ==
    [do |-> "look", id |-> id, look |-> look, previous |-> layerById(doc, id).look]

setBackgroundCommand(doc, background) ==
    [do |-> "background", background |-> background, previous |-> doc.background]

Apply(doc, c) ==
    CASE c.do = "stroke" ->
           Changed(doc, c.id, [layerById(doc, c.id) EXCEPT !.strokes = Append(@, c.stroke)])
      [] c.do = "add" -> Spliced(doc, c.layer, c.index)
      [] c.do = "remove" -> Without(doc, c.layer.id)
      [] c.do = "move" -> moveLayerTo(doc, c.id, c.to)
      [] c.do = "look" -> Changed(doc, c.id, [layerById(doc, c.id) EXCEPT !.look = c.look])
      [] c.do = "background" -> [doc EXCEPT !.background = c.background]

Invert(doc, c) ==
    CASE c.do = "stroke" ->
           Changed(doc, c.id, [layerById(doc, c.id) EXCEPT !.strokes = RemoveFirst(@, c.stroke)])
      [] c.do = "add" -> Without(doc, c.layer.id)
      [] c.do = "remove" -> Spliced(doc, c.layer, c.index)
      [] c.do = "move" -> moveLayerTo(doc, c.id, c.from)
      [] c.do = "look" -> Changed(doc, c.id, [layerById(doc, c.id) EXCEPT !.look = c.previous])
      [] c.do = "background" -> [doc EXCEPT !.background = c.previous]

\* Every entry of the history is a composite, of one command or of a batch; its
\* token is the object it is, what a mark compares.
compositeCommand(children, token) == [children |-> children, token |-> token]

applyAll(doc, entry) == FoldLeft(Apply, doc, entry.children)

invertAll(doc, entry) == FoldLeft(Invert, doc, Reverse(entry.children))
=============================================================================
