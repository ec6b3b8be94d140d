CONSTANTS
  HistoryIds = {1}
  Capacity = 2
  Slack = 2
  MaxPending = 1
  Syncs = {1, 2}
  MaxRecords = 3
  MaxRestarts = 1
  MaxEvents = 1
SPECIFICATION FeedSpec
INVARIANT RecordListIsSound
PROPERTIES PausedPageShowsNothingNew FeedCatchesUp
CHECK_DEADLOCK FALSE
