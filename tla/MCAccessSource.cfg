\* Three lines, whole or in two pieces, on two paths; two requests at once.
CONSTANTS
  Paths = {access1, access2}
  Requests = {request1, request2}
  Nobody = Nobody
  NoReport = NoReport
  MaxLines = 3
  MaxRead = 2
  MaxTruncations = 1
  MaxFailures = 1
SPECIFICATION Spec
SYMMETRY RequestSymmetry
INVARIANTS
  TwiceOnlyIfRaced
  NothingMissed
  CountsAreCurrent
PROPERTIES
  ImplementsTally
