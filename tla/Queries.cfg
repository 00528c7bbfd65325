SPECIFICATION Spec

CONSTANTS
    TaskLists <- ShortLists
    Lookups <- SomeQueries
    IdLists <- SomeIdLists
    Files <- SomeFiles
    LineCounts = {0, 1, 2, 3}
    MaxGrowth = 1
    MaxUsize <- Max

INVARIANTS
    StatusAnswersQuery
    IdListsAsWritten
    LastLinesExact

CHECK_DEADLOCK FALSE
