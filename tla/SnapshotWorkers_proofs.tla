----------------------- MODULE SnapshotWorkers_proofs -----------------------
(***************************************************************************)
(* SnapshotWorkers for any number of agents and namespaces: the workers    *)
(* use the lease as KubernetesLease says, so what is proved of the lease   *)
(* carries over, and with it what the workers do under it.                 *)
(***************************************************************************)
EXTENDS SnapshotWorkers, KubernetesLease_proofs

USE KubernetesLeaseAssumption, SnapshotWorkersAssumption

-----------------------------------------------------------------------------
(* The workers implement the specification of the lease *)

LEMMA LeaseStep ==
  ASSUME [WorkersNext]_allVars
  PROVE  [Next]_vars
<1>1. CASE UNCHANGED allVars
  BY <1>1 DEF allVars
<1>2. CASE Tick /\ UNCHANGED workerVars
  BY <1>2 DEF Next
<1>3. CASE (\E w \in late : LateWrite(w)) /\ UNCHANGED workerVars
  BY <1>3 DEF Next
<1>4. ASSUME NEW a \in Agents, WorkerNext(a) PROVE [Next]_vars
  <2>1. \/ Call(a) \/ ReadReturns(a) \/ BuildNewLease(a) \/ ServerWrites(a)
        \/ ReturnsTrue(a) \/ ReturnsFalse(a) \/ Raises(a) \/ Restarts(a)
        \/ UNCHANGED vars
    BY <1>4 DEF WorkerNext, Wake, EnsureLeadership, InCall, Elected, NewSync, NextBatch,
                NotLeaderError, EnsureRaises, CheckRaises, Discovered, PublishArrives,
                PublishReturns, WorkFails, MoreBatches, Succeed, ProcessRestarts
  <2> QED BY <2>1 DEF Next
<1> QED BY <1>1, <1>2, <1>3, <1>4 DEF WorkersNext

(* Every behaviour of the workers is, for the lease, one of KubernetesLease. *)
THEOREM WorkersUseTheLease == WorkersSpec => Spec
<1>1. WorkersInit => Init
  BY DEF WorkersInit
<1> QED BY <1>1, LeaseStep, PTL DEF WorkersSpec, Spec

(* Whatever the workers do between their calls, and wherever they die, the
   agents lead in turn as LeaderLease says. *)
THEOREM WorkersImplementElection == WorkersSpec => ImplementsLeaderLease
BY WorkersUseTheLease, CallsImplementElection, PTL

(* Two snapshot workers never lead at the same time, each by its own clock. *)
THEOREM WorkersHaveOneLeader == WorkersSpec => []OneLeader
BY WorkersUseTheLease, NeverTwoLeaders, PTL

-----------------------------------------------------------------------------
(* The invariant of the workers *)

(* What one agent's step leaves of the invariant of the others. *)
LEMMA OthersKeep ==
  ASSUME WorkersIInv, NEW b \in Agents,
         task'[b] = task[b], stored'[b] = stored[b], event'[b] = event[b],
         call'[b].at = call[b].at, belief'[b] = belief[b]
  PROVE  AskedBeforeWorking(b)' /\ NothingForgotten(b)'
<1>1. AskedBeforeWorking(b) /\ NothingForgotten(b)
  BY DEF WorkersIInv
<1> QED BY <1>1 DEF AskedBeforeWorking, NothingForgotten

\* A step of a that keeps what the invariant says of a.
GoodStepOf(a) ==
  /\ \A b \in Agents \ {a} : /\ task'[b] = task[b] /\ stored'[b] = stored[b]
                             /\ event'[b] = event[b] /\ belief'[b] = belief[b]
                             /\ call'[b].at = call[b].at
  /\ task' \in [Agents -> Tasks]
  /\ stored' \in [Agents -> SUBSET target_namespaces]
  /\ event' \in [Agents -> {"none", "success", "failed"}]
  /\ AskedBeforeWorking(a)'
  /\ NothingForgotten(a)'

LEMMA GoodStep ==
  ASSUME WorkersIInv, TypeOK', NEW a \in Agents, GoodStepOf(a)
  PROVE  WorkersIInv'
<1>1. WorkersTypeOK'
  BY DEF WorkersTypeOK, GoodStepOf
<1>2. ASSUME NEW b \in Agents PROVE AskedBeforeWorking(b)' /\ NothingForgotten(b)'
  <2>1. CASE b = a
    BY <2>1 DEF GoodStepOf
  <2>2. CASE b # a
    <3>1. /\ task'[b] = task[b] /\ stored'[b] = stored[b]
          /\ event'[b] = event[b] /\ belief'[b] = belief[b]
          /\ call'[b].at = call[b].at
      BY <2>2 DEF GoodStepOf
    <3> QED BY <3>1, OthersKeep
  <2> QED BY <2>1, <2>2
<1> QED BY <1>1, <1>2 DEF WorkersIInv

(* What a step of the lease does to the call and the belief of its agent. *)
LEMMA LeaseActionFacts ==
  ASSUME TypeOK, NEW a \in Agents
  PROVE  /\ Call(a) =>
              /\ call' = [call EXCEPT ![a] = [at |-> "read", stamp |-> Clock(a), version |-> 0]]
              /\ belief' = belief
         /\ ReadReturns(a) \/ BuildNewLease(a) \/ ServerWrites(a) =>
              /\ call[a].at # "idle"
              /\ \A b \in Agents \ {a} : call'[b] = call[b]
              /\ belief' = belief
         /\ ReturnsTrue(a) =>
              /\ call' = [call EXCEPT ![a] = Idle]
              /\ belief' = [belief EXCEPT ![a] = call[a].stamp]
         /\ ReturnsFalse(a) \/ Raises(a) \/ Restarts(a) =>
              /\ call' = [call EXCEPT ![a] = Idle]
              /\ belief' = belief \/ belief' = [belief EXCEPT ![a] = NotLeader]
<1>1. call \in [Agents -> Calls]
  BY DEF TypeOK
<1> QED BY <1>1 DEF Call, ReadReturns, BuildNewLease, ServerWrites, ReturnsTrue,
                   ReturnsFalse, Raises, Restarts, Abandoned

(* The variables of the workers, typed, and one agent's part of each. *)
LEMMA WorkerFacts ==
  ASSUME WorkersIInv, NEW a \in Agents
  PROVE  /\ TypeOK
         /\ task \in [Agents -> Tasks] /\ task[a] \in Tasks
         /\ stored \in [Agents -> SUBSET target_namespaces]
         /\ stored[a] \subseteq target_namespaces
         /\ event \in [Agents -> {"none", "success", "failed"}]
         /\ call \in [Agents -> Calls] /\ call[a].stamp \in Nat
         /\ belief \in [Agents -> Nat \cup {NotLeader}]
         /\ task[a].batch \subseteq target_namespaces
         /\ task[a].todo \subseteq target_namespaces
         /\ AskedBeforeWorking(a)
         /\ NothingForgotten(a)
<1>1. WorkersTypeOK /\ AskedBeforeWorking(a) /\ NothingForgotten(a)
  BY DEF WorkersIInv
<1>2. TypeOK /\ task \in [Agents -> Tasks]
  BY <1>1 DEF WorkersTypeOK
<1>3. task[a] \in Tasks
  BY <1>2
<1>4. task[a].batch \subseteq target_namespaces /\ task[a].todo \subseteq target_namespaces
  BY <1>3 DEF Tasks
<1>5. call \in [Agents -> Calls] /\ belief \in [Agents -> Nat \cup {NotLeader}]
  BY <1>2 DEF TypeOK
<1>6. call[a].stamp \in Nat
  BY <1>5 DEF Calls
<1> QED BY <1>1, <1>2, <1>3, <1>4, <1>5, <1>6 DEF WorkersTypeOK

(* The steps that ask for the lease, or wait for the answer. *)
LEMMA AskingKeeps ==
  ASSUME WorkersIInv, TypeOK', NEW a \in Agents,
         Wake(a) \/ EnsureLeadership(a) \/ InCall(a)
  PROVE  WorkersIInv'
<1> USE WorkerFacts
<1>1. CASE Wake(a)
  <2>1. /\ call' = [call EXCEPT ![a] = [at |-> "read", stamp |-> Clock(a), version |-> 0]]
        /\ belief' = belief
        /\ task[a].at = "sleep"
        /\ task' = [task EXCEPT ![a] = At("check")]
        /\ stored' = stored /\ event' = event
    BY <1>1, LeaseActionFacts DEF Wake
  <2>2. /\ task'[a] = At("check")
        /\ \A b \in Agents \ {a} : task'[b] = task[b] /\ call'[b].at = call[b].at
        /\ task' \in [Agents -> Tasks]
    BY <2>1 DEF Tasks, Asking, At
  <2>3. AskedBeforeWorking(a)' /\ NothingForgotten(a)'
    BY <2>1, <2>2 DEF AskedBeforeWorking, NothingForgotten, At, Asking, Working
  <2>4. GoodStepOf(a)
    BY <2>1, <2>2, <2>3 DEF GoodStepOf
  <2> QED BY <2>4, GoodStep
<1>2. CASE EnsureLeadership(a)
  <2>1. /\ call' = [call EXCEPT ![a] = [at |-> "read", stamp |-> Clock(a), version |-> 0]]
        /\ belief' = belief
        /\ task[a].at \in {"ensure", "batch"}
        /\ task' = task /\ stored' = stored /\ event' = event
    BY <1>2, LeaseActionFacts DEF EnsureLeadership, workerVars
  <2>2. \A b \in Agents \ {a} : call'[b].at = call[b].at
    BY <2>1
  <2>3. AskedBeforeWorking(a)' /\ NothingForgotten(a)'
    BY <2>1 DEF AskedBeforeWorking, NothingForgotten, Asking, Working
  <2>4. GoodStepOf(a)
    BY <2>1, <2>2, <2>3 DEF GoodStepOf
  <2> QED BY <2>4, GoodStep
<1>3. CASE InCall(a)
  <2>1. /\ call[a].at # "idle"
        /\ \A b \in Agents \ {a} : call'[b] = call[b]
        /\ belief' = belief
        /\ task' = task /\ stored' = stored /\ event' = event
    BY <1>3, LeaseActionFacts DEF InCall, workerVars
  <2>2. AskedBeforeWorking(a)' /\ NothingForgotten(a)'
    BY <2>1 DEF AskedBeforeWorking, NothingForgotten
  <2>3. GoodStepOf(a)
    BY <2>1, <2>2 DEF GoodStepOf
  <2> QED BY <2>3, GoodStep
<1> QED BY <1>1, <1>2, <1>3

(* The steps that take a positive answer. *)
LEMMA GrantedKeeps ==
  ASSUME WorkersIInv, TypeOK', NEW a \in Agents,
         Elected(a) \/ NewSync(a) \/ NextBatch(a)
  PROVE  WorkersIInv'
<1> USE WorkerFacts
<1>1. /\ call' = [call EXCEPT ![a] = Idle]
      /\ belief' = [belief EXCEPT ![a] = call[a].stamp]
  BY LeaseActionFacts DEF Elected, NewSync, NextBatch
<1>0. /\ call \in [Agents -> Calls] /\ call[a].stamp \in Nat
      /\ belief \in [Agents -> Nat \cup {NotLeader}]
  OBVIOUS
<1>2. /\ call'[a].at = "idle" /\ belief'[a] # NotLeader
      /\ \A b \in Agents \ {a} : call'[b].at = call[b].at /\ belief'[b] = belief[b]
  BY <1>0, <1>1 DEF Idle
<1>3. CASE Elected(a)
  <2>1. /\ task[a].at = "check"
        /\ task' = [task EXCEPT ![a] = At("ensure")]
        /\ stored' = stored /\ event' = event
    BY <1>3 DEF Elected
  <2>2. /\ task'[a] = At("ensure") /\ task' \in [Agents -> Tasks]
        /\ \A b \in Agents \ {a} : task'[b] = task[b]
    BY <2>1 DEF Tasks, Asking, At
  <2>3. AskedBeforeWorking(a)' /\ NothingForgotten(a)'
    BY <1>2, <2>1, <2>2 DEF AskedBeforeWorking, NothingForgotten, At, Asking, Working
  <2>4. GoodStepOf(a)
    BY <1>2, <2>1, <2>2, <2>3 DEF GoodStepOf
  <2> QED BY <2>4, GoodStep
<1>4. CASE NewSync(a)
  <2>1. /\ task' = [task EXCEPT ![a] =
                       [at |-> "batch", batch |-> {}, todo |-> target_namespaces]]
        /\ stored' = [stored EXCEPT ![a] = {}]
        /\ event' = [event EXCEPT ![a] = "none"]
    BY <1>4 DEF NewSync
  <2>2. /\ task'[a] = [at |-> "batch", batch |-> {}, todo |-> target_namespaces]
        /\ task' \in [Agents -> Tasks]
        /\ \A b \in Agents \ {a} : task'[b] = task[b]
    BY <2>1 DEF Tasks, Asking
  <2>3. /\ stored'[a] = {} /\ event'[a] = "none"
        /\ stored' \in [Agents -> SUBSET target_namespaces]
        /\ event' \in [Agents -> {"none", "success", "failed"}]
        /\ \A b \in Agents \ {a} : stored'[b] = stored[b] /\ event'[b] = event[b]
    BY <2>1
  <2>4. AskedBeforeWorking(a)' /\ NothingForgotten(a)'
    BY <1>2, <2>2, <2>3 DEF AskedBeforeWorking, NothingForgotten, Asking, Working
  <2>5. GoodStepOf(a)
    BY <1>2, <2>2, <2>3, <2>4 DEF GoodStepOf
  <2> QED BY <2>5, GoodStep
<1>5. CASE NextBatch(a)
  <2>1. PICK B \in Chunks(task[a].todo) :
          task' = [task EXCEPT ![a] =
                     [at |-> "discover", batch |-> B, todo |-> task[a].todo \ B]]
    BY <1>5 DEF NextBatch
  <2>2. task[a].at = "batch" /\ stored' = stored /\ event' = event
    BY <1>5 DEF NextBatch
  <2>3. B \subseteq task[a].todo
    BY DEF Chunks
  <2>4. /\ task'[a] = [at |-> "discover", batch |-> B, todo |-> task[a].todo \ B]
        /\ \A b \in Agents \ {a} : task'[b] = task[b]
    BY <2>1
  <2>5. task' \in [Agents -> Tasks]
    BY <2>1, <2>3 DEF Tasks, Working
  <2>6. stored[a] \cup B \cup (task[a].todo \ B) = target_namespaces
    BY <2>2, <2>3 DEF NothingForgotten
  <2>7. event[a] # "success"
    BY <2>2 DEF NothingForgotten
  <2>8. AskedBeforeWorking(a)' /\ NothingForgotten(a)'
    BY <1>2, <2>2, <2>4, <2>6, <2>7 DEF AskedBeforeWorking, NothingForgotten, Working
  <2>9. GoodStepOf(a)
    BY <1>2, <2>2, <2>4, <2>5, <2>8 DEF GoodStepOf
  <2> QED BY <2>9, GoodStep
<1> QED BY <1>3, <1>4, <1>5

(* The steps that end an iteration, or the worker, or its process, where it
   asks: the task holds nothing afterwards. *)
LEMMA AskingEndsKeeps ==
  ASSUME WorkersIInv, TypeOK', NEW a \in Agents,
         NotLeaderError(a) \/ EnsureRaises(a) \/ CheckRaises(a) \/ ProcessRestarts(a)
  PROVE  WorkersIInv'
<1> USE WorkerFacts
<1>1. /\ call' = [call EXCEPT ![a] = Idle]
      /\ belief' = belief \/ belief' = [belief EXCEPT ![a] = NotLeader]
  BY LeaseActionFacts DEF NotLeaderError, EnsureRaises, CheckRaises, ProcessRestarts
<1>2. \A b \in Agents \ {a} : call'[b].at = call[b].at /\ belief'[b] = belief[b]
  BY <1>1
<1>3. call'[a].at = "idle"
  BY <1>1 DEF Idle
<1>4. PICK place \in {"sleep", "dead"} :
        /\ task' = [task EXCEPT ![a] = At(place)]
        /\ place = "sleep" \/ task[a].at = "check"
  BY DEF NotLeaderError, EnsureRaises, CheckRaises, ProcessRestarts, Fail, Asleep
<1>5. /\ task'[a] = At(place) /\ task' \in [Agents -> Tasks]
      /\ \A b \in Agents \ {a} : task'[b] = task[b]
  <2>1. task \in [Agents -> Tasks]
    OBVIOUS
  <2>2. At(place) \in Tasks
    BY DEF Tasks, At
  <2> QED BY <1>4, <2>1, <2>2
<1>6. /\ stored' = stored \/ stored' = [stored EXCEPT ![a] = {}]
      /\ \/ stored' = stored /\ event' = event
         \/ event' = [event EXCEPT ![a] = "failed"]
         \/ event' = [event EXCEPT ![a] = "none"]
  BY DEF NotLeaderError, EnsureRaises, CheckRaises, ProcessRestarts, Fail
<1>7. /\ stored' \in [Agents -> SUBSET target_namespaces]
      /\ event' \in [Agents -> {"none", "success", "failed"}]
      /\ \A b \in Agents \ {a} : stored'[b] = stored[b] /\ event'[b] = event[b]
      /\ event'[a] = "success" => event[a] = "success" /\ stored'[a] = stored[a]
  BY <1>6
<1>8. AskedBeforeWorking(a)' /\ NothingForgotten(a)'
  BY <1>3, <1>5, <1>7 DEF AskedBeforeWorking, NothingForgotten, At, Asking, Working
<1>9. GoodStepOf(a)
  BY <1>2, <1>5, <1>7, <1>8 DEF GoodStepOf
<1> QED BY <1>9, GoodStep

(* The steps that discover and publish, and their end. *)
LEMMA WorkingKeeps ==
  ASSUME WorkersIInv, TypeOK', NEW a \in Agents,
         \/ Discovered(a) \/ PublishArrives(a) \/ PublishReturns(a)
         \/ WorkFails(a) \/ MoreBatches(a) \/ Succeed(a)
  PROVE  WorkersIInv'
<1> USE WorkerFacts
<1>1. UNCHANGED <<call, belief>>
  BY DEF Discovered, PublishArrives, PublishReturns, WorkFails, MoreBatches, Succeed, vars
<1>2. call'[a] = call[a] /\ belief'[a] = belief[a]
  BY <1>1
<1>3. CASE PublishArrives(a)
  <2>1. /\ task[a].at = "publish"
        /\ stored' = [stored EXCEPT ![a] = stored[a] \cup task[a].batch]
        /\ task' = task /\ event' = event
    BY <1>3 DEF PublishArrives
  <2>2. /\ stored'[a] = stored[a] \cup task[a].batch
        /\ stored' \in [Agents -> SUBSET target_namespaces]
        /\ \A b \in Agents \ {a} : stored'[b] = stored[b]
    BY <2>1
  <2>3. AskedBeforeWorking(a)' /\ NothingForgotten(a)'
    BY <1>2, <2>1, <2>2 DEF AskedBeforeWorking, NothingForgotten, Working
  <2>4. GoodStepOf(a)
    BY <1>1, <2>1, <2>2, <2>3 DEF GoodStepOf
  <2> QED BY <2>4, GoodStep
<1>4. CASE Discovered(a) \/ MoreBatches(a)
  <2>1. PICK place \in {"publish", "batch"} :
          /\ task' = [task EXCEPT ![a].at = place]
          /\ \/ place = "publish" /\ task[a].at = "discover"
             \/ place = "batch" /\ task[a].at = "jitter"
    BY <1>4 DEF Discovered, MoreBatches
  <2>2. stored' = stored /\ event' = event
    BY <1>4 DEF Discovered, MoreBatches
  <2>3. task \in [Agents -> Tasks]
    OBVIOUS
  <2>4. /\ task'[a].at = place /\ task'[a].batch = task[a].batch
        /\ task'[a].todo = task[a].todo
        /\ task' \in [Agents -> Tasks]
        /\ \A b \in Agents \ {a} : task'[b] = task[b]
    BY <2>1, <2>3 DEF Tasks, Asking, Working
  <2>5. AskedBeforeWorking(a)' /\ NothingForgotten(a)'
    BY <1>2, <2>1, <2>2, <2>4 DEF AskedBeforeWorking, NothingForgotten, Asking, Working
  <2>6. GoodStepOf(a)
    BY <1>1, <2>2, <2>4, <2>5 DEF GoodStepOf
  <2> QED BY <2>6, GoodStep
<1>5. CASE PublishReturns(a)
  <2>1. /\ task[a].at = "publish" /\ task[a].batch \subseteq stored[a]
        /\ task' = [task EXCEPT ![a] =
                       [at |-> "jitter", batch |-> {}, todo |-> task[a].todo]]
        /\ stored' = stored /\ event' = event
    BY <1>5 DEF PublishReturns
  <2>2. task \in [Agents -> Tasks]
    OBVIOUS
  <2>3. [at |-> "jitter", batch |-> {}, todo |-> task[a].todo] \in Tasks
    BY DEF Tasks
  <2>4. /\ task'[a] = [at |-> "jitter", batch |-> {}, todo |-> task[a].todo]
        /\ task' \in [Agents -> Tasks]
        /\ \A b \in Agents \ {a} : task'[b] = task[b]
    BY <2>1, <2>2, <2>3
  <2>5. AskedBeforeWorking(a)' /\ NothingForgotten(a)'
    BY <1>2, <2>1, <2>4 DEF AskedBeforeWorking, NothingForgotten, Asking, Working
  <2>6. GoodStepOf(a)
    BY <1>1, <2>1, <2>4, <2>5 DEF GoodStepOf
  <2> QED BY <2>6, GoodStep
<1>6. CASE WorkFails(a) \/ Succeed(a)
  <2>1. PICK how \in {"failed", "success"} :
          /\ event' = [event EXCEPT ![a] = how]
          /\ \/ how = "failed" /\ task[a].at \in Working
             \/ how = "success" /\ task[a].at = "jitter" /\ task[a].todo = {}
    BY <1>6 DEF WorkFails, Succeed, Fail
  <2>2. stored' = stored /\ task' = [task EXCEPT ![a] = At("sleep")]
    BY <1>6 DEF WorkFails, Succeed, Fail, Asleep
  <2>3. task \in [Agents -> Tasks] /\ At("sleep") \in Tasks
    BY DEF Tasks, At
  <2>4. /\ task'[a] = At("sleep") /\ task' \in [Agents -> Tasks]
        /\ \A b \in Agents \ {a} : task'[b] = task[b]
    BY <2>2, <2>3
  <2>5. /\ event'[a] = how /\ event' \in [Agents -> {"none", "success", "failed"}]
        /\ \A b \in Agents \ {a} : event'[b] = event[b]
    BY <2>1
  <2>6. how = "success" => stored'[a] = target_namespaces
    BY <2>1, <2>2 DEF NothingForgotten, Working
  <2>7. AskedBeforeWorking(a)' /\ NothingForgotten(a)'
    BY <1>2, <2>1, <2>4, <2>5, <2>6
       DEF AskedBeforeWorking, NothingForgotten, Asking, Working, At
  <2>8. GoodStepOf(a)
    BY <1>1, <2>2, <2>4, <2>5, <2>7 DEF GoodStepOf
  <2> QED BY <2>8, GoodStep
<1> QED BY <1>3, <1>4, <1>5, <1>6

-----------------------------------------------------------------------------
(* Theorems *)

LEMMA WorkersInitSafe == ASSUME WorkersInit, TypeOK PROVE WorkersIInv
BY DEF WorkersInit, Init, WorkersIInv, WorkersTypeOK, AskedBeforeWorking,
       NothingForgotten, Asleep, At, Tasks, Idle, Asking, Working

LEMMA WorkersNextSafe == ASSUME WorkersIInv, TypeOK', [WorkersNext]_allVars PROVE WorkersIInv'
<1>1. ASSUME UNCHANGED workerVars, UNCHANGED <<call, belief>> PROVE WorkersIInv'
  <2>1. WorkersTypeOK'
    BY <1>1 DEF WorkersIInv, WorkersTypeOK, workerVars
  <2>2. ASSUME NEW b \in Agents PROVE AskedBeforeWorking(b)' /\ NothingForgotten(b)'
    BY <1>1, OthersKeep DEF workerVars
  <2> QED BY <2>1, <2>2 DEF WorkersIInv
<1>2. CASE UNCHANGED allVars
  BY <1>1, <1>2 DEF allVars, vars
<1>3. CASE Tick /\ UNCHANGED workerVars
  BY <1>1, <1>3 DEF Tick
<1>4. CASE (\E w \in late : LateWrite(w)) /\ UNCHANGED workerVars
  BY <1>1, <1>4 DEF LateWrite
<1>5. ASSUME NEW a \in Agents, WorkerNext(a) PROVE WorkersIInv'
  BY <1>5, AskingKeeps, GrantedKeeps, AskingEndsKeeps, WorkingKeeps DEF WorkerNext
<1> QED BY <1>2, <1>3, <1>4, <1>5 DEF WorkersNext

(* The invariant of the workers holds in every state reached, beside the one of
   the lease. *)
THEOREM WorkersInvariance == WorkersSpec => [](IInv /\ WorkersIInv)
<1>1. WorkersSpec => []IInv
  BY WorkersUseTheLease, Invariance, PTL
<1>2. IInv => TypeOK
  BY DEF IInv
<1>3. WorkersInit /\ TypeOK => WorkersIInv
  BY WorkersInitSafe
<1>4. WorkersIInv /\ TypeOK' /\ [WorkersNext]_allVars => WorkersIInv'
  BY WorkersNextSafe
<1> QED BY <1>1, <1>2, <1>3, <1>4, PTL DEF WorkersSpec

(* Every variable of the workers has its type in every state reached. *)
THEOREM WorkersTypeCorrect == WorkersSpec => []WorkersTypeOK
<1>1. WorkersIInv => WorkersTypeOK
  BY DEF WorkersIInv
<1> QED BY <1>1, WorkersInvariance, PTL

(* A worker at work while another agent holds the lease has outlived its grant,
   to within the difference of the clocks. *)
THEOREM WorkUnderGrant == WorkersSpec => []WorksUnderItsGrant
<1>1. ASSUME IInv, WorkersIInv PROVE WorksUnderItsGrant
  <2> SUFFICES ASSUME NEW a \in Agents, task[a].at \in Working, lease.holder # a
               PROVE  belief[a] # NotLeader /\ belief[a] + LeaseDuration < Clock(a) + MaxSkew
    BY DEF WorksUnderItsGrant
  <2>1. belief[a] # NotLeader
    BY <1>1 DEF WorkersIInv, AskedBeforeWorking
  <2>2. GrantStands(a, belief[a])
    BY <1>1, <2>1 DEF IInv, GrantsStand
  <2> QED BY <2>1, <2>2 DEF GrantStands
<1> QED BY <1>1, WorkersInvariance, PTL

(* What is reported as a success has reached the control plane completely. *)
THEOREM SuccessMeansComplete == WorkersSpec => []SuccessIsComplete
<1>1. WorkersIInv => SuccessIsComplete
  BY DEF WorkersIInv, NothingForgotten, SuccessIsComplete
<1> QED BY <1>1, WorkersInvariance, PTL

=============================================================================
