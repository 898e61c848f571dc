SPECIFICATION FairSpec
CONSTANTS
  x = x
  y = y
  m1 = m1
  m2 = m2
  w1 = w1
  w2 = w2
  w3 = w3
  w4 = w4
  s1 = s1
  s2 = s2
  Nil = Nil
  Behaviours = {w1, w2, w3, w4, s1, s2}
  Cowns = {x}
  Mains = {m1, m2}
  CownsOf <- OneCowns
  Prog <- OneProg
INVARIANTS
  CurrentReqExact
  NoLostRequest
  SuccessorFirst
PROPERTY EveryBehaviourFinishes
