SPECIFICATION Spec
CONSTANTS
  u1 = u1
  g1 = g1
  g2 = g2
  s1 = s1
  s2 = s2
  v1 = v1
  t1 = t1
  t2 = t2
  NoGroup = NoGroup
  Users <- OneUser
  UserGroups <- TwoGroups
  SubGroups <- TwoSubGroups
  Values <- OneValue
  Tasks <- TwoTasks
SYMMETRY Interchangeable
INVARIANTS
  IndInv
  AssignedWhole
  AnswersWhole
CHECK_DEADLOCK FALSE
