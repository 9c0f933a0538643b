\* Every edit there is; a drawing of up to three layers may be replaced.
SPECIFICATION EditorSpec
CONSTANTS
    Paper = {0, 1}
    Look = {0, 1}
    maxLayers = 3
    Proposals <- OwnLayer
    Edits = {"stroke", "layer", "move", "look", "paper", "assist"}
    MaxReplaced = 3
    MaxMade = 4
PROPERTIES
    ExactInverses
