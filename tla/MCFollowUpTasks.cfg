SPECIFICATION Spec
CONSTANT Scenarios <- MCScenarios
INVARIANT TerminalIsQuiet
INVARIANT FinalFileIsFinal
INVARIANT CronSettles
PROPERTY EditsAndReadsSettle
PROPERTY ReopeningRestores
PROPERTY ReopenedFileRestores
