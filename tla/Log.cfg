SPECIFICATION Spec
CONSTANTS
  t1 = t1
  t2 = t2
  w1 = w1
  Loaders = {t1, t2}
  Docs <- AllDocs
  Vars <- AllVars
  DefaultOf <- Defaults
  TypeOf <- Types
  Valid <- Words
  Plain <- NumVar
  Listeners = {1, 2}
  MaxLoads = 2
  Letters = {"m", "d", "p"}
  ItemNames <- Names
  Logs <- LogsVar
  LoggerNames <- AllNames
  Writers = {w1}
  Patterns <- ShortPatterns
  DefaultPattern <- Default
  MaxEvents = 2
  MaxSeconds = 2
INVARIANTS ListenersAgree LoggersAsConfigured FileHoldsSecond PatternSpelled
CHECK_DEADLOCK FALSE
