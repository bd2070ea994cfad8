SPECIFICATION FairSpec
CONSTANTS
  NumRuntimes = 2
  NumHarnesses = 1
  Runs = 2
  Options <- FewOptions
  Answers <- MainAnswers
  Interrupts = TRUE
INVARIANT TypeOK
INVARIANT OwnBinary
INVARIANT StatusZeroMeansMeasured
INVARIANT MeasuredIsInFile
INVARIANT LossIsRepaired
INVARIANT RefusedIsReported
PROPERTY Terminates
