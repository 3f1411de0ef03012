SPECIFICATION MCSpec
CONSTANTS
  None = None
  Timer = Timer
  Editor = Editor
  MaxRequests = 2
  MaxText = 3
  Flusher <- Flushers
  Null = Null
  Main = Main
  Appender = {worker, cli}
  Desktop = {worker}
  Item <- Items
  Legacy <- OldJournal
  File <- Files
  MaxEvents = 2
  MaxBackups = 2
  MaxRestores = 1
  MAX_STABLE_READ_ATTEMPTS = 2
  MAX_CACHED_RUN_DIRS = 1
CHECK_DEADLOCK FALSE
INVARIANTS DesktopTypesOK QuitKeepsEdits NoEventTwice CacheIsTrue AcknowledgedSurvives
PROPERTIES FlushIsNotCutOff DraftsInOrder DraftOutlivesText 
