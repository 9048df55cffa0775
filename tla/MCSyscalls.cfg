CONSTANTS
  Task <- MCTask
  Fds <- MCFds
  Lengths <- MCLengths
SPECIFICATION CallsFairSpec
INVARIANTS
  PrintfSucceeds
  LatestError
PROPERTIES
  CallsEnd
CHECK_DEADLOCK FALSE
