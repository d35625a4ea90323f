SPECIFICATION FairSpec
CONSTANTS
  Journals = {1, 2}
  MaxLines = 1
PROPERTIES
  NoticeDelivers
  NewerJournalAdopted
  ImplementsFeed
CHECK_DEADLOCK FALSE
