-------------------------- MODULE MCKubernetesLease --------------------------
(***************************************************************************)
(* Two agents whose clocks differ by as much as they may, a lease of two   *)
(* ticks, and time for the lease to change hands twice.                    *)
(***************************************************************************)
EXTENDS KubernetesLease, TLC

CONSTANTS a1, a2

MCSkew == (a1 :> 0 @@ a2 :> 1)

=============================================================================
