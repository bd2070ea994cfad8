SPECIFICATION Spec
CONSTANTS
  NumRuntimes = 1
  NumHarnesses = 1
  Runs = 2
  Options <- FewOptions
  Answers <- MainAnswers
  Interrupts = FALSE
INVARIANT MissingIsRepeated
