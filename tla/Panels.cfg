\* Two nodes, two settings, two edits, two calls.
SPECIFICATION FairSpec
CONSTANTS
    Nodes = {a, b}
    Values = {1, 2}
    MaxEdits = 2
    MaxPresses = 2
INVARIANTS TypeOK UnsavedIsMarked
PROPERTIES DraftKept FormsConverge
