SPECIFICATION Spec
CONSTANTS
  Path = {p, q}
  Deleter = {d1}
  MaxBackups = 2
  MaxVersion = 2
  MaxTime = 1
  MonthLen = 1
  MaxPerMonth = 1
  History = 2
  Retain = 0
  Interval = 1
  DbListed = TRUE
  ZipModes = {TRUE, FALSE}
  Policy <- KeepLatestOrAll
  Brisk = TRUE
SYMMETRY Symmetry
INVARIANT TypeOK
INVARIANT UnchangedIsStored
PROPERTY ImplementsBackupHistory
