CONSTANT MaxRuns = 2
SPECIFICATION Spec
INVARIANT HistoryNeverSplits
