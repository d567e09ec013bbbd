CONSTANTS
  Channels = {0, 1}
  RamWords = 4
  LowWords = 2
  SarBytes = {1}
  Prescalers = {0, 1}
  Lists <- MCLists
  Starts <- MCStarts
  DcsrWrites <- MCDcsrWrites
  Snapshots <- MCSnapshots
  MaxWrites = 2
SPECIFICATION Spec
PROPERTIES PlaysLists PauseLasts
