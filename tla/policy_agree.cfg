SPECIFICATION PolicySpec
CONSTANTS
    kids = kids
    media = media
    c1 = c1
    c2 = c2
    evening = evening
    Tags = {kids}
    Custom = {c1, c2}
    Priorities = {1}
    Schedules = {evening}
SYMMETRY Symmetry
INVARIANTS
    
    StatusAgrees
    
