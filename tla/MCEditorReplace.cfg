\* A drawing of four layers is replaced by a proposal.
SPECIFICATION EditorSpec
CONSTANTS
    Paper = {0}
    Look = {0}
    maxLayers = 4
    Proposals <- OwnLayer
    Edits = {"stroke", "layer", "assist"}
    MaxReplaced = 4
    MaxMade = 5
PROPERTIES
    ExactInverses
