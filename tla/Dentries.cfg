SPECIFICATION DentriesSpec
CONSTANTS
  Reader = {a, b}
  Remover = {a, b}
  Entry = {e, f, g}
  NoEntry = NoEntry
  Limit = 1
  Name = {m, n}
  NoName = NoName
  NoTask = NoTask
INVARIANTS
  FreedOnce
  CallbacksRemembered
  
  OneEntryPerName
PROPERTIES
  RemoversSpareReaders
  UnusedEntriesGo
