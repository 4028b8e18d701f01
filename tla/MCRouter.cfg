\* A server that may run out of memory, and two clients.
CONSTANTS
  Conns <- MCConns
  Fds <- MCFds
  Listener = 3
  Objects <- MCObjects
  Failures = TRUE
SPECIFICATION Spec
INVARIANTS RouterTypeOK PeersAreFound AssertsHold
PROPERTIES PrivilegeIsEarned NobodyStarves
CHECK_DEADLOCK FALSE
