\* The life of a peer, with a buffer of three bytes and seven bytes of input.
CONSTANTS
  IOs <- MCIOs
  BufSz = 3
  MaxInput = 7
  Failures = TRUE
SPECIFICATION Spec
INVARIANTS PeerTypeOK ChainIsConnected InputInOrder InputConservedOnTty AssertsHold
PROPERTIES MotdFirst GreetedEventually
CHECK_DEADLOCK FALSE
