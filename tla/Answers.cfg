SPECIFICATION Spec
CONSTANTS
  Visible = 2
  Hidden = 2
  Claims <- SomeClaims
  MaxClaims = 1
  SqlTests = 2
  Plan <- MixedPlan
  Roles <- SomeRoles
  WrittenScores <- SomeScores
CHECK_DEADLOCK FALSE
INVARIANTS
  TypeOK
  GradeIsEarned
  GradeIsTrue
  HiddenStaysHidden
  VerdictsAgree
  BetterAnswersNeverHurt
PROPERTIES
  CodeIsGraded
