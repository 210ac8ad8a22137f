SPECIFICATION FrontSpec
CONSTANTS
  k = k
  b = b
  F = F
  a = a
  c = c
  x = x
  p = p
  q = q
  Device = {k, b}
  Computer = {k}
  Backup = {p, q}
  Nobody = Nobody
  Path = {F, a, c, x}
  Above <- FilesInF
  Typed = {x}
  MaxSent = 2
  Rule = {r1, r2}
  KindOf <- KindOfEach
  Table <- TableEach
  OwnAtStart <- OwnOfK
  CommonAtStart <- OnlyF
  Calls = 2
  MaxPolls = 1
ACTION_CONSTRAINT Bounded
INVARIANT FrontTypeOK
INVARIANT PollerIsOfTheDisplay
INVARIANT SuccessHasItsResult
INVARIANT CleanDisplayIsTrue
INVARIANT SelectionIsOfItsDevice
INVARIANT FormIsSentOnce
INVARIANT PathListIsTheServers
INVARIANT TargetsAreOfTheChoice
INVARIANT TickedIsOffered
INVARIANT DownloadIsWhatIsTicked
INVARIANT CleanupIsAsPreviewed
INVARIANT DetailIsOfTheChoice
INVARIANT RestoreIsAsReviewed
PROPERTY SelectionIsKept
PROPERTY TicksAreKept
PROPERTY LoadingEnds
CHECK_DEADLOCK FALSE
