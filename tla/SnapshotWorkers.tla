--------------------------- MODULE SnapshotWorkers ---------------------------
(***************************************************************************)
(* The snapshot worker of every agent (workers/snapshot.py,                *)
(* handlers/snapshot.py) on top of the lease of KubernetesLease: it asks   *)
(* for the lease before an iteration, at its start and before each batch   *)
(* of namespaces, and discovers and publishes with what it was told last.  *)
(*                                                                         *)
(* `stored' is what the control plane has received under the sync id of    *)
(* the agent's latest snapshot. Discovery and publication take any time.   *)
(***************************************************************************)
EXTENDS KubernetesLease, FiniteSets

CONSTANTS
  target_namespaces,
  DISCOVERY_BATCH_SIZE

ASSUME SnapshotWorkersAssumption ==
  /\ IsFiniteSet(target_namespaces)
  /\ target_namespaces # {}
  /\ DISCOVERY_BATCH_SIZE \in Nat \ {0}

VARIABLES
  task,      \* task[a]: where the worker awaits, its batch, the batches to come
  stored,
  event      \* event[a]: how the latest snapshot of a was reported

workerVars == <<task, stored, event>>
allVars == <<vars, workerVars>>

\* The worker is at one of the places it asks for the lease ("check" in
\* should_execute, "ensure", "batch"), at work, asleep, or dead.
Asking == {"check", "ensure", "batch"}
Working == {"discover", "publish"}

Tasks ==
  [at : Asking \cup Working \cup {"sleep", "jitter", "dead"},
   batch : SUBSET target_namespaces,
   todo : SUBSET target_namespaces]

At(place) == [at |-> place, batch |-> {}, todo |-> {}]
Asleep == At("sleep")

WorkersTypeOK ==
  /\ TypeOK
  /\ task \in [Agents -> Tasks]
  /\ stored \in [Agents -> SUBSET target_namespaces]
  /\ event \in [Agents -> {"none", "success", "failed"}]

WorkersInit ==
  /\ Init
  /\ task = [a \in Agents |-> Asleep]
  /\ stored = [a \in Agents |-> {}]
  /\ event = [a \in Agents |-> "none"]

\* random.sample, then slices of fixed size: any batch may come next.
Chunks(S) ==
  {B \in SUBSET S :
     \/ Cardinality(B) = DISCOVERY_BATCH_SIZE
     \/ B = S /\ Cardinality(S) < DISCOVERY_BATCH_SIZE}

-----------------------------------------------------------------------------
(* Asking for the lease *)

\* The agent is healthy when the timer fires, so should_execute asks.
Wake(a) ==
  /\ task[a].at = "sleep"
  /\ Call(a)
  /\ task' = [task EXCEPT ![a] = At("check")]
  /\ UNCHANGED <<stored, event>>

EnsureLeadership(a) ==
  /\ task[a].at \in {"ensure", "batch"}
  /\ Call(a)
  /\ UNCHANGED workerVars

InCall(a) ==
  /\ ReadReturns(a) \/ BuildNewLease(a) \/ ServerWrites(a)
  /\ UNCHANGED workerVars

\* should_execute is True, so run_iteration starts.
Elected(a) ==
  /\ task[a].at = "check"
  /\ ReturnsTrue(a)
  /\ task' = [task EXCEPT ![a] = At("ensure")]
  /\ UNCHANGED <<stored, event>>

\* The first check of capture_and_publish_snapshot passes: a new sync id.
NewSync(a) ==
  /\ task[a].at = "ensure"
  /\ ReturnsTrue(a)
  /\ task' = [task EXCEPT ![a] =
                [at |-> "batch", batch |-> {}, todo |-> target_namespaces]]
  /\ stored' = [stored EXCEPT ![a] = {}]
  /\ event' = [event EXCEPT ![a] = "none"]

NextBatch(a) ==
  /\ task[a].at = "batch"
  /\ ReturnsTrue(a)
  /\ \E B \in Chunks(task[a].todo) :
       task' = [task EXCEPT ![a] =
                  [at |-> "discover", batch |-> B, todo |-> @.todo \ B]]
  /\ UNCHANGED <<stored, event>>

\* Faulty form of NotLeaderError: the batch goes on without the lease.
GoesOnWithoutLease(a) ==
  /\ task[a].at \in Asking
  /\ ReturnsFalse(a)
  /\ task' = [task EXCEPT ![a] =
       IF @.at = "batch" THEN [at |-> "discover", batch |-> @.todo, todo |-> {}]
                         ELSE Asleep]
  /\ UNCHANGED <<stored, event>>

\* should_execute is False, or NotLeaderError ends the iteration: no event.
NotLeaderError(a) ==
  /\ task[a].at \in Asking
  /\ ReturnsFalse(a)
  /\ task' = [task EXCEPT ![a] = Asleep]
  /\ UNCHANGED <<stored, event>>

\* handle_iteration_error
Fail(a) ==
  /\ task' = [task EXCEPT ![a] = Asleep]
  /\ event' = [event EXCEPT ![a] = "failed"]
  /\ UNCHANGED stored

EnsureRaises(a) ==
  /\ task[a].at \in {"ensure", "batch"}
  /\ Raises(a)
  /\ Fail(a)

\* run_continuously calls should_execute outside _execute_safely.
CheckRaises(a) ==
  /\ task[a].at = "check"
  /\ Raises(a)
  /\ task' = [task EXCEPT ![a] = At("dead")]
  /\ UNCHANGED <<stored, event>>

-----------------------------------------------------------------------------
(* Discovering and publishing *)

Discovered(a) ==
  /\ task[a].at = "discover"
  /\ task' = [task EXCEPT ![a].at = "publish"]
  /\ UNCHANGED <<vars, stored, event>>

\* The control plane receives a batch, the first time or again.
PublishArrives(a) ==
  /\ task[a].at = "publish"
  /\ stored' = [stored EXCEPT ![a] = @ \cup task[a].batch]
  /\ UNCHANGED <<vars, task, event>>

PublishReturns(a) ==
  /\ task[a].at = "publish"
  /\ task[a].batch \subseteq stored[a]
  /\ task' = [task EXCEPT ![a] =
                [at |-> "jitter", batch |-> {}, todo |-> @.todo]]
  /\ UNCHANGED <<vars, stored, event>>

\* Faulty form of WorkFails: a batch that fails is skipped.
SkipsFailedBatch(a) ==
  /\ task[a].at \in Working
  /\ task' = [task EXCEPT ![a] =
                [at |-> "jitter", batch |-> {}, todo |-> @.todo]]
  /\ UNCHANGED <<vars, stored, event>>

\* discover_namespaces raises or takes longer than its timeout, or the request
\* fails, whether or not the control plane has received the batch.
WorkFails(a) ==
  /\ task[a].at \in Working
  /\ Fail(a)
  /\ UNCHANGED vars

MoreBatches(a) ==
  /\ task[a].at = "jitter"
  /\ task[a].todo # {}
  /\ task' = [task EXCEPT ![a].at = "batch"]
  /\ UNCHANGED <<vars, stored, event>>

\* handle_iteration_success
Succeed(a) ==
  /\ task[a].at = "jitter"
  /\ task[a].todo = {}
  /\ task' = [task EXCEPT ![a] = Asleep]
  /\ event' = [event EXCEPT ![a] = "success"]
  /\ UNCHANGED <<vars, stored>>

ProcessRestarts(a) ==
  /\ Restarts(a)
  /\ task' = [task EXCEPT ![a] = Asleep]
  /\ stored' = [stored EXCEPT ![a] = {}]
  /\ event' = [event EXCEPT ![a] = "none"]

-----------------------------------------------------------------------------

WorkerNext(a) ==
  \/ Wake(a) \/ EnsureLeadership(a) \/ InCall(a)
  \/ Elected(a) \/ NewSync(a) \/ NextBatch(a)
  \/ NotLeaderError(a) \/ EnsureRaises(a) \/ CheckRaises(a)
  \/ Discovered(a) \/ PublishArrives(a) \/ PublishReturns(a) \/ WorkFails(a)
  \/ MoreBatches(a) \/ Succeed(a)
  \/ ProcessRestarts(a)

WorkersNext ==
  \/ \E a \in Agents : WorkerNext(a)
  \/ Tick /\ UNCHANGED workerVars
  \/ (\E w \in late : LateWrite(w)) /\ UNCHANGED workerVars

WorkersSpec == WorkersInit /\ [][WorkersNext]_allVars

-----------------------------------------------------------------------------
(* Properties *)

(* A worker that discovers or publishes while another agent holds the lease
   does so only because its own grant is over, or within MaxSkew of being
   over: it never works on without a grant, or beside a younger one. *)
WorksUnderItsGrant ==
  \A a \in Agents :
    task[a].at \in Working /\ lease.holder # a =>
      belief[a] # NotLeader /\ belief[a] + LeaseDuration < Clock(a) + MaxSkew

(* A snapshot is reported as a success only when the control plane has received
   every target namespace under its sync id. *)
SuccessIsComplete ==
  \A a \in Agents : event[a] = "success" => stored[a] = target_namespaces

(* The namespaces are discovered and published when the agent is the leader. *)
PublishesAsHolder ==
  \A a \in Agents : task[a].at = "publish" => lease.holder = a

(* The worker loop runs until shutdown is requested: no error of the Kubernetes
   API ends it. *)
WorkersSurviveErrors == \A a \in Agents : task[a].at # "dead"

-----------------------------------------------------------------------------
(* Inductive invariant, beside IInv *)

\* A worker asks for the lease only where it waits for the answer, and works
\* only after a positive one.
AskedBeforeWorking(a) ==
  /\ call[a].at # "idle" => task[a].at \in Asking
  /\ task[a].at \in Working => belief[a] # NotLeader

\* No namespace is forgotten between the batches of a snapshot.
NothingForgotten(a) ==
  /\ task[a].at \in Working \cup {"batch", "jitter"} =>
       stored[a] \cup task[a].batch \cup task[a].todo = target_namespaces
  /\ task[a].at \in {"batch", "jitter"} => task[a].batch = {}
  /\ event[a] = "success" =>
       /\ task[a].at \in {"sleep", "check", "ensure", "dead"}
       /\ stored[a] = target_namespaces

(* Where the workers stand relative to their lease calls and to what they have
   published. *)
WorkersIInv ==
  /\ WorkersTypeOK
  /\ \A a \in Agents : AskedBeforeWorking(a) /\ NothingForgotten(a)

=============================================================================
