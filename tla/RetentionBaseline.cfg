SPECIFICATION Spec
CONSTANTS
  Path = {p}
  Deleter = {}
  MaxBackups = 3
  MaxVersion = 3
  MaxTime = 2
  MonthLen = 1
  MaxPerMonth = 1
  History = 3
  Retain = 0
  Interval = 2
  DbListed = TRUE
  ZipModes = {FALSE}
  Policy <- ByAge
  Brisk = TRUE
SYMMETRY Symmetry
PROPERTY BaselineIsRenewed
