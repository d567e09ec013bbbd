CONSTANTS
    RingEntries = 2
    MaxDropped = 2
    MaxEvents = 5
    MaxRestarts = 1
    MaxPolls = 2
SPECIFICATION FairSpec
INVARIANTS CommittedIsWhole CountsAddUp
PROPERTIES StalledRecordHeld HandedIsOwn EventPublished
