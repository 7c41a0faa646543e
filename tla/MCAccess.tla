---------------------------- MODULE MCAccess ----------------------------
(***************************************************************************)
(* Instances of Access for TLC: two accounts, the second a member of an    *)
(* actor group, which may be granted the right to assume the first.        *)
(***************************************************************************)
EXTENDS Access, TLC

CONSTANTS a1, a2, g

MCEntity == {a1, a2, g}

\* The registry: op_satisfied_by of the seeded operations that are used.  The
\* slug "create" is not among them.
MCOperation == {"create", "update", "delete", "assume", "manage"}

MCSatisfiedBy ==
  [op \in MCOperation \ {"create"} |-> {op, "manage"}]

MCActorGroup == {<<a2, g>>}

MCGrantChoice == {[actor |-> g, op |-> "assume", target |-> a1]}

Symmetry ==
  Permutations(Request) \cup Permutations(Slug) \cup Permutations(App)
=============================================================================
