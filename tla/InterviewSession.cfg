SPECIFICATION Spec
CONSTANTS
  Plans <- ShortPlans
  MaxQuestions = 3
  MaxAttempts = 2
  MaxFollowUps = 2
  MaxSubmissions = 3
INVARIANTS
  FeedbackCoherent
  NoDeadEnd
  CompletedMeansAllGraded
  HistoryIsWhole
  NoSkipping
PROPERTIES
  CompletionOnlyOnRequest
  ClosedForGood
  AnswersAreKept
  EveryClickReturns
  ImplementsProtocol
