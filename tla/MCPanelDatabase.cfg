\* The panel's start beside one command, a death anywhere, on new and old files.
SPECIFICATION Spec
CONSTANTS
  Panel = panel
  Commands = {cli}
  Inbounds = {i1}
  Ports = {n1, n2}
  Passwords = {w1, w2}
  NULL = NULL
  MaxDeaths = 1
INVARIANTS
  LedgerIsTrue
  BootstrapOnce
  LoginHolds
  ShownLogsIn
PROPERTIES
  ClientsKept
  BackedUpFirst
  Opens
