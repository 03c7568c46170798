SPECIFICATION Spec
CONSTANTS
  Helpers = {h1, h2}
  Caller = main
  Count = 7
  ChunksPerThread = 1
  LargestChunk = 2
  Nothing = Nothing
INVARIANTS TypeOK CalledOnce OutcomeIsTrue
PROPERTY Terminates
