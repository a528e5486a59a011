SPECIFICATION Spec
CHECK_DEADLOCK FALSE
CONSTANTS
  c1 = c1
  c2 = c2
  c3 = c3
  c4 = c4
  t1 = t1
  t2 = t2
  t3 = t3
  p1 = p1
  p2 = p2
  s1 = s1
  s2 = s2
  u1 = u1
  u2 = u2
  w1 = w1
  w2 = w2
  w3 = w3
  g1 = g1
  g2 = g2
  Calls = {c1, c2, c3, c4}
  Servers = {s1, s2}
  Limit = 2
  Window = 3
  Second = 2
  ToolRuns = {w1, w2, w3}
  Cap = 2
  Tabs = {p1, p2}
  Users = {u1, u2}
  ThreadIds = {t1, t2, t3}
  MaxText = 2
  Setups <- MCSetups
  SignIns = {g1, g2}
  GroupPages <- MCGroupPages
  AdminGroups <- MCAdminGroups
SYMMETRY Symmetry
INVARIANTS
  TypeOK
  LimitHolds
  
  RoleFollows
PROPERTY
  Kept
