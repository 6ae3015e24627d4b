SPECIFICATION Spec
CONSTANTS
    pause = pause
    extend = extend
    h1 = h1
    h2 = h2
    Pauses = {pause}
    Extensions = {extend}
    Handlers = {h1, h2}
    Hour = 2
    Durations = {1}
    MaxTime = 4
    MaxPauses = 2
    StoreMayFail = TRUE
INVARIANTS
    PauseBlocks
SYMMETRY Symmetry
