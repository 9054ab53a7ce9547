SPECIFICATION Spec
CONSTANTS
    Tasks = {s1, s2, c1, a1, a2}
    SessionTasks = {s1, s2}
    ToleratedTasks = {c1}
    NoTask = NoTask
INVARIANTS
    TypeOK
    NoUseAfterFree
    ReleasedWhenSettled
PROPERTIES
    ImplementsTaskQueue
    EveryTaskEnds
