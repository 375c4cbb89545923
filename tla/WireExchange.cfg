CONSTANTS
  MaxLabelLength = 4
  MaxNameLength = 14
  MaxPointerDepth = 2
  PointerOffsetMask = 90
  MaxEDNS0Options = 2
  MaxQuestions = 2
  MaxRecords = 3
  Scenarios <- MCScenarios
  Substitutes <- MCSubstitutes
SPECIFICATION Spec
INVARIANTS
  ReadsExactly
  TruncationShows
  SecondaryServesSame
CHECK_DEADLOCK FALSE
