---------------------------- MODULE Authz ----------------------------
(***************************************************************************)
(* The policy of the users API: Authorizer.Authorize of internal/authz, as *)
(* a function of the grants.  A grant lets an actor, or every member of an *)
(* actor group, do an operation to a target, to every member of a target   *)
(* group, or (a wildcard grant) to anything.                               *)
(***************************************************************************)
EXTENDS FiniteSets

CONSTANTS Entity,      \* rows of entities: people, actor and target groups
          Operation,   \* the slugs callers pass, and those of the registry
          SatisfiedBy, \* SatisfiedBy[op]: registered operations that imply op
          ActorGroup,  \* <<member, group>>: authz_actor_group_members
          TargetGroup, \* <<member, group>>: authz_target_group_members
          TagOwner,    \* <<tag, owner>>: owner_id and subject_id of tags
          All,         \* the NULL target of a wildcard grant
          NoTarget     \* the nil target of a call

Manage == "manage"

Registered == DOMAIN SatisfiedBy

ASSUME AuthzAssumption ==
  /\ Manage \in Registered /\ Registered \subseteq Operation
  /\ SatisfiedBy \in [Registered -> SUBSET Registered]
  /\ ActorGroup \cup TargetGroup \cup TagOwner \subseteq Entity \X Entity
  /\ All \notin Entity /\ NoTarget \notin Entity

Grant == [actor: Entity, op: Registered, target: Entity \cup {All}]

\* WITH RECURSIVE: the least set with x in it that is closed under edges.
Chain(x, edges) ==
  {y \in Entity : \A s \in SUBSET Entity :
     x \in s /\ (\A e \in edges : e[1] \in s => e[2] \in s) => y \in s}

CheckWildcardGrant(grants, x, ops) ==
  \E g \in grants :
    g.op \in ops /\ g.target = All /\ g.actor \in Chain(x, ActorGroup)

CheckGrant(grants, x, t, ops) ==
  \E g \in grants :
    /\ g.op \in ops
    /\ g.actor \in Chain(x, ActorGroup)
    /\ g.target \in Chain(t, TargetGroup)

CheckTagOwnership(x, t) == <<t, x>> \in TagOwner

\* A slug that is not registered takes a wildcard grant of manage.
OpIDs(op) == SatisfiedBy[IF op \in Registered THEN op ELSE Manage]

\* Mutant: nothing to check a call without a target against.
AuthorizeNil(grants, x, op, t) ==
  \/ CheckWildcardGrant(grants, x, OpIDs(op))
  \/ t = NoTarget
  \/ op \in Registered /\ CheckGrant(grants, x, t, OpIDs(op))
  \/ op \in Registered /\ (t = x \/ CheckTagOwnership(x, t))

Authorize(grants, x, op, t) ==
  \/ CheckWildcardGrant(grants, x, OpIDs(op))
  \/ /\ op \in Registered
     /\ t # NoTarget
     /\ \/ CheckGrant(grants, x, t, OpIDs(op))
        \/ t = x
        \/ CheckTagOwnership(x, t)
=============================================================================
