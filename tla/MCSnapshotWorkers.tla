-------------------------- MODULE MCSnapshotWorkers --------------------------
(***************************************************************************)
(* Small instances of SnapshotWorkers: two agents whose clocks differ, or  *)
(* one, with a lease of one tick, and up to three namespaces in two        *)
(* batches.                                                                *)
(***************************************************************************)
EXTENDS SnapshotWorkers, TLC

CONSTANTS a1, a2, n1, n2, n3

TwoAgentsSkew == (a1 :> 0 @@ a2 :> 1)
OneAgentSkew == (a1 :> 0)

=============================================================================
