\* A page, two requests and a command; three of: a page loaded, a save begun,
\* a statement that fails.
CONSTANTS
  Pages = {p1}
  Requests = {r1, r2}
  Command = cmd
  Keys = {k1, k2}
  Hidden = {h1}
  v1 = v1
  v2 = v2
  Values = {v1, v2}
  Marks = {v2}
  Default <- DefaultDef
  None = None
  MaxEvents = 3
SYMMETRY Symmetry
\* The events come to an end.
CHECK_DEADLOCK FALSE
SPECIFICATION Spec
INVARIANTS
  OneRowPerKey
  PageShowsWhatIsUsed
  SaveSticks
PROPERTIES
  UneditedKept
