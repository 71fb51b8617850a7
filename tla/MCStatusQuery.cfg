CONSTANT RetryCount = 4
SPECIFICATION FairSpec
INVARIANTS
  DirtyReportNotLost
  QuietAfterKill
  PollingStopsOnlyAfterFailure
PROPERTY DirtyReportFlushed
CHECK_DEADLOCK FALSE
