\* Two accounts in one tab, two drawings, a request refused or a reply lost.
SPECIFICATION Spec
SYMMETRY Alike
CONSTANTS
    light = light
    dark = dark
    Paper = {light, dark}
    Look = {0}
    maxLayers = 2
    Proposals <- OwnLayer
    Edits = {"stroke"}
    MaxReplaced = 0
    MaxMade = 2
    ann = ann
    bob = bob
    User = {ann, bob}
    NoUser = NoUser
    DrawingId = {1, 2}
    Faults = {"refused", "lost"}
    MaxFailures = 1
INVARIANTS
    CleanIsSaved
    SavesFindTheirRow
