SPECIFICATION CompileSpec
CONSTANTS
  MaxTokens = 3
  Depth = 2
  MaxLength = 4
  Texts <- MCTexts
  Letters <- MCLetters
  Digits <- MCDigits
  Other <- MCOther
  Sources <- MCSources
INVARIANTS
  TokensTile
  LongestToken
  FirstReportIsRight
  LaterReportsAreRight
  DeclarationsAreClosed
  ExpressionsAreTrees
PROPERTIES
  ReachesTheEnd
  DeclarationsPassTokens
CHECK_DEADLOCK FALSE
