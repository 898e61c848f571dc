SPECIFICATION Spec
CONSTANTS
  m = m
  a = a
  b = b
  x = x
  y = y
  p = p
  v = v
  u1 = u1
  u2 = u2
  r1 = r1
  r2 = r2
  s1 = s1
  s2 = s2
  t = t
  d = d
  g = g
  Main = main
  Root = p
  Cowns = {m, a, b, x, y}
  Acts = {p, v, u1, u2, r1, r2, s1, s2, t, d, g}
  Shape <- TreeShape
  CownsOf <- TreeCowns
  Pre <- TreePre
  Post <- TreePost
CHECK_DEADLOCK FALSE
INVARIANTS
  ExecInv
  StructuredCompletion
  CallOrder
  HeldUpdatesCount
PROPERTY MainCompletes
