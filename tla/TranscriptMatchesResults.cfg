SPECIFICATION Spec
CONSTANTS
  Plans <- ShortPlans
  MaxQuestions = 3
  MaxAttempts = 2
  MaxFollowUps = 2
  MaxSubmissions = 3
INVARIANT TranscriptMatchesResults
