\* Two forms, two changes in each, on new, stored and legacy rows.
CONSTANTS
  None = None
  Keys = {k1, k2}
  DefaultKey = k1
  Protocols = {"vless", "http"}
  FormNetworks = {"ws"}
  Legacy <- LegacyRows
  MaxForms = 2
  MaxEdits = 2
SPECIFICATION Spec
CHECK_DEADLOCK FALSE
INVARIANTS
  OneSavePerForm
  ReopenIsNoOp
  RunsWhatWasChecked
  CredentialsSurvive
  LinkReaches
VIEW View
