\* Two pages with a request each, both jobs, one failure.
CONSTANTS
  p1 = p1
  p2 = p2
  Ids = {1, 2}
  Ports = {p1, p2}
  Clients = {c1, c2}
  NoRow = NoRow
  NoList = NoList
  NoPage = NoPage
  Pages = {page1, page2}
  Quotas = {1}
  Expiries = {0}
  Existing = {1}
  MaxNow = 0
  MaxRequests = 2
  Busy = {p1}
  MaxTraffic = 2
  MaxFailures = 1
SPECIFICATION Spec
SYMMETRY PageSymmetry
INVARIANTS
  OneInboundPerPort
  ClientsAreSubmitted
  CountedOnce
  TrafficIsKept
PROPERTIES
  ImplementsStore
