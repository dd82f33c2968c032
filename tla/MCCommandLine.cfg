CONSTANTS
    FileNames <- MCFileNames
    PageOffset = 10
    Files <- MCFiles
    Sessions <- MCSessions
    Subsystems <- MCSubsystems
    MainFiles <- MCMainFiles
    StackLimit = 2
SPECIFICATION CliSpec
INVARIANT HistoryKept
INVARIANT NamesFound
INVARIANT CutWhereUnquoted
INVARIANT CompletionReads
INVARIANT InterruptStopsOne
PROPERTY LinesEnd
