SPECIFICATION FairSpec
CONSTANTS
  Second = 4
  Micro = 1
  Width = 64
  Numer = 1
  Denom = 1
  UINT = 4
  LONG = 8
  INT64_MAX = 127
  NULL = NULL
  Ticks = {0, 1, 5}
  Macro <- MCMacro
  Programs <- MCPrograms
INVARIANT TypeOK
INVARIANT ListIsPlan
INVARIANT RepeatsNeverReport
INVARIANT ReaderNotDeceived
INVARIANT DocumentWhenReturned
INVARIANT FinishedIsOut
INVARIANT MeasuresBodies
INVARIANT NothingKept
INVARIANT ColoursTellSpread
PROPERTY ImplementsReport
PROPERTY Terminates
