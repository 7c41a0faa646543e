SPECIFICATION Spec
CONSTANTS
  a1 = a1
  a2 = a2
  g = g
  Account = {a1, a2}
  Entity <- MCEntity
  Operation <- MCOperation
  SatisfiedBy <- MCSatisfiedBy
  ActorGroup <- MCActorGroup
  TargetGroup = {}
  TagOwner = {}
  All = All
  NoTarget = NoTarget
  App = {p, q}
  Slug = {s1, s2}
  Role = {member}
  GrantChoice <- MCGrantChoice
  Request = {r1, r2}
  MaxRequests = 5
  None = None
SYMMETRY Symmetry
INVARIANTS
  TypeOK
  AdminIdentityPreserved
  AuthorityStemsFromBootstrap
  AuditTracksApps
  GrantsHavePedigree
  AssumedByPermission
PROPERTIES
  ArchivedForGood
CHECK_DEADLOCK FALSE
