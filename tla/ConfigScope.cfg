SPECIFICATION Spec
CONSTANTS
  Sessions = {s1}
  Scoped = {s1}
  Editors = {w1}
  MaxEdits = 3
INVARIANT ScopesKept
