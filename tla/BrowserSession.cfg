SPECIFICATION BrowserSpec
CONSTANTS
  Plans <- TwoQuestions
  MaxQuestions = 2
  MaxAttempts = 2
  MaxFollowUps = 0
  MaxSubmissions = 2
  MaxPending = 2
INVARIANTS
  ScreensStayCoherent
  ReplayIsWhole
PROPERTIES
  LocksKeepAnswers
  LoaderGoes
