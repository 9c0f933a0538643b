--------------------------- MODULE MCDrawingFile ---------------------------
\* An instance of DrawingFile for TLC.
EXTENDS DrawingFileProperties, TLC

CONSTANTS ann, bob, light, dark

OwnLayer(d) == {<< [kind |-> "add_layer", layer |-> <<0, 0>>],
                   [kind |-> "add_stroke", layer |-> <<0, 0>>] >>}

\* The two accounts are alike, and so are the two papers: nothing looks at one but to compare.
Alike == Permutations({ann, bob}) \union Permutations({light, dark})
=============================================================================
