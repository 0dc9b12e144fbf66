--------------------------- MODULE MCAgentLifecycle ---------------------------
(***************************************************************************)
(* Small instances of AgentLifecycle: the snapshot worker and two others   *)
(* on a pool of two threads.                                               *)
(***************************************************************************)
EXTENDS AgentLifecycle

CONSTANTS heartbeat, scheduler, snapshot

=============================================================================
