SPECIFICATION Spec
CONSTANTS
    main = main
    child = child
    drawn = drawn
    ported = ported
    plain = plain
    pinned = pinned
    DocIds = {main, child}
    Contents = {drawn, ported}
    Symbols = {plain, pinned}
    SymbolOf <- MCSymbolOf
    BootProjects <- MCBootProjects
    FileProjects <- MCFileProjects
    Absent = Absent
    HistoryLimit = 1
    MaxRevision <- MCMaxRevision
    MaxStructureRevision = 3
    MaxSession = 2
INVARIANTS TypeOK HistoriesInSync RedoNeverOverwritesNewerWork StackedStatesAreOlder
PROPERTIES TokensOnlyAdvance PriorWorkStaysReachable ResolverFollowsDefinitions
