------------------------------ MODULE ClaimOrder ------------------------------
(***************************************************************************)
(* Claim sets as the agent receives them (schemas/scenario.py): a set of   *)
(* claims, the order in which the runner executes them, and the execution  *)
(* mode that says whether a failure ends the set.                          *)
(***************************************************************************)
EXTENDS Integers, FiniteSets

CONSTANTS
  ClaimSets,      \* claim sets the control plane ever queues
  Claims,         \* claims, each in one claim set
  ClaimsOf,       \* ScenarioClaimSet.claims, as a set
  Position,       \* ScenarioClaim.position
  Listed,         \* index of a claim in the list the control plane sent
  ExecutionMode   \* ScenarioClaimSet.execution_mode

ScenarioClaimSetExecutionMode == {"stop_on_failure", "continue_on_failure"}

\* The events EventEnum gives one claim.
EventEnum == {"queued", "executing", "success", "failed"}

ASSUME ClaimOrderAssumption ==
  /\ ClaimsOf \in [ClaimSets -> (SUBSET Claims) \ {{}}]
  /\ \A cs, ds \in ClaimSets : cs # ds => ClaimsOf[cs] \cap ClaimsOf[ds] = {}
  /\ Position \in [Claims -> Int]
  /\ Listed \in [Claims -> Nat]
  /\ \A cs \in ClaimSets : \A c, d \in ClaimsOf[cs] : Listed[c] = Listed[d] => c = d
  /\ ExecutionMode \in [ClaimSets -> ScenarioClaimSetExecutionMode]

\* ScenarioClaimSet.claims is a list.
ASSUME ClaimsAreFinite == \A cs \in ClaimSets : IsFiniteSet(ClaimsOf[cs])

StopsOnFailure(cs) == ExecutionMode[cs] = "stop_on_failure"

\* sorted(claims, key=position) is stable: claims of equal position keep the
\* order of the list.
Before(c, d) ==
  \/ Position[c] < Position[d]
  \/ Position[c] = Position[d] /\ Listed[c] < Listed[d]

\* Faulty form of IsFirst: the claims run in the order they were listed.
ListedFirst(c, S) == c \in S /\ \A d \in S \ {c} : Listed[c] < Listed[d]

IsFirst(c, S) == c \in S /\ \A d \in S \ {c} : Before(c, d)

=============================================================================
