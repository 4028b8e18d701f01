\* The argument loop on every line of up to five bytes.
CONSTANTS
  Alphabet <- MCAlphabet
  MaxLen = 5
SPECIFICATION Spec
INVARIANTS TypeOK TokensTileLine ScratchSuffices QuotingRoundTrips
PROPERTY EachTokenAdvances
CHECK_DEADLOCK FALSE
