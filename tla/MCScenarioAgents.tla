--------------------------- MODULE MCScenarioAgents ---------------------------
(***************************************************************************)
(* Small instances of ScenarioAgents: two agents and one set of three      *)
(* claims, or one agent and two sets. The claims of a set are listed in an *)
(* order that is not the order of their positions; two of them share a     *)
(* position.                                                               *)
(***************************************************************************)
EXTENDS ScenarioAgents, TLC

CONSTANTS a1, a2, s1, s2, c1, c2, c3

MCSymmetry == Permutations({a1, a2})

\* One set that goes on after a failure.
OneSetClaimsOf == (s1 :> {c1, c2, c3})
OneSetPosition == (c1 :> 2 @@ c2 :> 1 @@ c3 :> 2)
OneSetListed == (c1 :> 1 @@ c2 :> 2 @@ c3 :> 3)
OneSetMode == (s1 :> "continue_on_failure")

\* Two sets, one of them stopping on a failure.
TwoSetsClaimsOf == (s1 :> {c1, c2} @@ s2 :> {c3})
TwoSetsPosition == (c1 :> 2 @@ c2 :> 1 @@ c3 :> 1)
TwoSetsListed == (c1 :> 1 @@ c2 :> 2 @@ c3 :> 1)
TwoSetsMode == (s1 :> "stop_on_failure" @@ s2 :> "continue_on_failure")

=============================================================================
