\* One form is enough: an HTTP proxy with a password is saved.
CONSTANTS
  None = None
  Keys = {k1}
  DefaultKey = k1
  Protocols = {"http"}
  FormNetworks = {"tcp"}
  Legacy <- LegacyRows
  MaxForms = 1
  MaxEdits = 2
SPECIFICATION Spec
CHECK_DEADLOCK FALSE
INVARIANTS
  PasswordSurvives
