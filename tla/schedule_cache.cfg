SPECIFICATION CacheSpec
CONSTANTS
    s1 = s1
    s2 = s2
    bedtime = bedtime
    gaming = gaming
    homework = homework
    c1 = c1
    c2 = c2
    Absent = Absent
    Ids = {s1, s2}
    Contents = {bedtime, gaming, homework}
    Conflicts <- MCConflicts
    Bundles <- MCBundles
    Callers = {c1, c2}
    DayLength = 3
    WeekLength = 3
    RuleActions = {"allow", "block"}
    Timetables <- MCTimetables
    Says <- MCSays
INVARIANTS
    TypeOK
    CacheIsCurrent
    MergedIsUnambiguous
    NothingChangesBefore
PROPERTIES
    AsIfUncached
