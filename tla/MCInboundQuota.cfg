\* One page with two requests; every quota and expiry.
CONSTANTS
  p1 = p1
  p2 = p2
  Ids = {1}
  Ports = {p1, p2}
  Clients = {c1}
  NoRow = NoRow
  NoList = NoList
  NoPage = NoPage
  Pages = {page1}
  Quotas = {0, 1}
  Expiries = {0, 1}
  Existing = {1}
  MaxNow = 1
  MaxRequests = 2
  Busy = {p1}
  MaxTraffic = 1
  MaxFailures = 1
SPECIFICATION FairSpec
PROPERTIES
  QuotaEnds
