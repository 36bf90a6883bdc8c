SPECIFICATION Spec
CONSTANTS
  Procs = {p1, p2}
  Scopes = {s1, s2}
  None = None
  TTL = 1
  Margin = 0
  MaxPause = 0
  MaxFence = 2
  MaxUpsets = 1
  First = {s1}
  OtherPasses = TRUE
SYMMETRY Symmetry
INVARIANTS SendExclusive EntryReconciled
PROPERTIES ForeignEvidenceKept OnlyOwnerEndsLease
