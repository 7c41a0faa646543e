SPECIFICATION Spec
CONSTANTS
  a1 = a1
  a2 = a2
  g = g
  Account = {a1, a2}
  Entity <- MCEntity
  Operation <- MCOperation
  SatisfiedBy <- MCSatisfiedBy
  ActorGroup <- MCActorGroup
  TargetGroup = {}
  TagOwner = {}
  All = All
  NoTarget = NoTarget
  App = {p}
  Slug = {s1}
  Role = {member}
  GrantChoice <- MCGrantChoice
  Request = {r1}
  MaxRequests = 3
  None = None
INVARIANTS
  OperatorCanGrant
CHECK_DEADLOCK FALSE
