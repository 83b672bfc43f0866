SPECIFICATION Spec
CONSTANTS
  d1 = d1
  d2 = d2
  d3 = d3
  d4 = d4
  DeclaredAreas <- ThreeAreas
  Share <- Shares
  Lengths = {3, 4}
  Easiest = "knowledge"
  Coding = "coding"
  Database = "database"
  Canonical = {"background", "knowledge"}
  Background = "knowledge"
  FreshPool = 2
  MergedPool = 2
  GenerateAttempts = 1
  Levels = {"mid", "senior"}
  Documents = {d1, d2, d3, d4}
  OnTarget = {d1, d2, d4}
  Found <- Corpus
  Scores = {3333, 10000}
  MaxStarts = 3
  MaxCounted = 3
CHECK_DEADLOCK FALSE
INVARIANTS
  NoDocumentTwice
  AverageIsTrue
  PicksRotate
  EachAreaGetsItsShare
PROPERTIES
  EveryRequestEnds
