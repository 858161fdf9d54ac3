SPECIFICATION FairSpec
CONSTANTS
  Total = 3
  Span = 2
  HpaeEngine = FALSE
  NotifyTimesOut = TRUE
  MaxWrite = 2
  MaxFrame = 7
INVARIANTS
  RegionsDisjoint
  ServesWhatWasWritten
  CommitNeverRefused
PROPERTIES
  ImplementsFifo
  WrittenIsConsumed
  WriterProceeds
