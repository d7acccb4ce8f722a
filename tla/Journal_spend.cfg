SPECIFICATION Spec
CONSTANTS
  p1 = p1
  p2 = p2
  g1 = g1
  once = once
  twice = twice
  n1 = n1
  n2 = n2
  n3 = n3
  Process = {p1, p2}
  Grant = {g1}
  Terms = {once, twice}
  MaxUses <- MCMaxUses
  Nonce = {n1, n2, n3}
  Store = {"file", "anchor"}
  Nobody = Nobody
SYMMETRY MCProcesses
INVARIANTS
  ExecutedOnce
  WithinBudget
CHECK_DEADLOCK FALSE
