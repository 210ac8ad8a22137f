SPECIFICATION Spec
CONSTANTS
  Path = {p}
  Deleter = {d1, d2}
  MaxBackups = 3
  MaxVersion = 1
  MaxTime = 1
  MonthLen = 1
  MaxPerMonth = 1
  History = 1
  Retain = 0
  Interval = 1
  DbListed = TRUE
  ZipModes = {FALSE}
  Policy <- ByAge
  Brisk = TRUE
SYMMETRY Symmetry
INVARIANT NewestBaselineStays
INVARIANT QuotaKept
