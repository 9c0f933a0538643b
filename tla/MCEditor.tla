------------------------------ MODULE MCEditor ------------------------------
\* Instances of Editor for TLC.
EXTENDS EditorProperties

\* What the assistants of the server return: a layer of their own, and strokes on it.
OwnLayer(d) == {<< [kind |-> "add_layer", layer |-> <<0, 0>>],
                   [kind |-> "add_stroke", layer |-> <<0, 0>>] >>}
=============================================================================
