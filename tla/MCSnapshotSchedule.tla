-------------------------- MODULE MCSnapshotSchedule --------------------------
(***************************************************************************)
(* A small instance of SnapshotSchedule: two agents, and intervals such    *)
(* that the startup retries just outlast the first heartbeat.              *)
(***************************************************************************)
EXTENDS SnapshotSchedule, TLC

CONSTANTS a1, a2

MCSymmetry == Permutations(Agents)

=============================================================================
