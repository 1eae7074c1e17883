SPECIFICATION Spec
CONSTANTS
  Servers = {s1, s2}
  Terminals = {t1}
  Nonces = {n1, n2}
  Legacy = {}
  Tools = {"rotate"}
  Projects = {"here"}
  Params = {"x", "y"}
  Forged = Forged
  None = None
  ApprovalTtl = 1
  UseTtl = 1
  MaxTime = 1
SYMMETRY MCSymmetry
INVARIANTS SingleUse RunsWhatWasReviewed UsedInWindow
