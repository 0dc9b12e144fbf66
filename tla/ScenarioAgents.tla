---------------------------- MODULE ScenarioAgents ----------------------------
(***************************************************************************)
(* The scenario path of the agents: the heartbeat, scheduler and runner    *)
(* workers of every agent process, which share one event loop, the control *)
(* plane that serialises acknowledgements, and the network between them.   *)
(*                                                                         *)
(* A member of Agents is one incarnation of an agent process; a restarted  *)
(* pod is another member. What a worker does between two awaits is one     *)
(* step. `dropped' is a history variable: the claim sets the scheduler had *)
(* fetched when an error ended its iteration, and what the handler said.   *)
(***************************************************************************)
EXTENDS ClaimOrder

CONSTANTS
  Agents,
  Nobody,         \* owner of a pending claim set
  NoClaimSet,     \* RunnerState.claim_set is None
  NoClaim,
  MAX_RETRIES     \* BaseAPIClient.MAX_RETRIES

ASSUME ScenarioAgentsAssumption ==
  /\ Nobody \notin Agents
  /\ NoClaimSet \notin ClaimSets
  /\ NoClaim \notin Claims
  /\ MAX_RETRIES \in Nat \ {0}

VARIABLES
  process,    \* process[a]: life of the process
  healthy,    \* healthy[a]: AgentState.health is HEALTHY
  slot,       \* slot[a]: RunnerState, the one claim set the agent holds
  sched,      \* sched[a]: where the scheduler worker awaits
  run,        \* run[a]: where the runner worker awaits, its claim, the rest
  owner,      \* control plane: whose acknowledgement was accepted
  orphans,    \* acknowledgements still under way that nobody waits for
  emitted,    \* telemetry: how often each event of each claim was emitted
  dropped

vars == <<process, healthy, slot, sched, run, owner, orphans, emitted, dropped>>

-----------------------------------------------------------------------------
(* States *)

RunnerStatus == {"idle", "queued", "running"}
IdleSlot == [state |-> "idle", claim_set |-> NoClaimSet]
SchedulerAsleep == [at |-> "sleep", claim_set |-> NoClaimSet, attempt |-> 0]
RunnerAsleep == [at |-> "sleep", claim |-> NoClaim, todo |-> {}]

\* What handle_iteration_error of the scheduler says of a claim set it drops.
Reports == {"another_agent", "error"}

\* A scheduler at "fetch" is asking for claim sets. At "listed" the control
\* plane has answered and the answer, a pending set, is on its way to it.
\* A scheduler that has sent an acknowledgement is at "wait" until the control
\* plane has answered, then at the answer: "accepted" or "conflict".
Requested == {"wait", "accepted", "conflict"}
Acknowledging == Requested \cup {"send"}
SchedulerPlaces == {"sleep", "fetch", "listed"} \cup Acknowledging

SlotStates == [state : RunnerStatus, claim_set : ClaimSets \cup {NoClaimSet}]

SchedulerStates ==
  [at : SchedulerPlaces,
   claim_set : ClaimSets \cup {NoClaimSet},
   attempt : 0 .. MAX_RETRIES]

RunnerStates ==
  [at : {"sleep", "fetch", "execute", "pause"},
   claim : Claims \cup {NoClaim},
   todo : SUBSET Claims]

TypeOK ==
  /\ process \in [Agents -> {"running", "terminating", "stopped"}]
  /\ healthy \in [Agents -> BOOLEAN]
  /\ slot \in [Agents -> SlotStates]
  /\ sched \in [Agents -> SchedulerStates]
  /\ run \in [Agents -> RunnerStates]
  /\ owner \in [ClaimSets -> Agents \cup {Nobody}]
  /\ orphans \subseteq Agents \X ClaimSets
  /\ emitted \in [Claims -> [EventEnum -> Nat]]
  /\ dropped \subseteq Agents \X ClaimSets \X Reports

Init ==
  /\ process = [a \in Agents |-> "running"]
  /\ healthy = [a \in Agents |-> FALSE]
  /\ slot = [a \in Agents |-> IdleSlot]
  /\ sched = [a \in Agents |-> SchedulerAsleep]
  /\ run = [a \in Agents |-> RunnerAsleep]
  /\ owner = [cs \in ClaimSets |-> Nobody]
  /\ orphans = {}
  /\ emitted = [c \in Claims |-> [e \in EventEnum |-> 0]]
  /\ dropped = {}

\* time.sleep between two claims holds the event loop: until it returns no
\* other task, timer or signal handler of the process runs.
LoopFree(a) == process[a] # "stopped" /\ run[a].at # "pause"

\* run_continuously starts an iteration only before the shutdown event is set.
MayIterate(a) == LoopFree(a) /\ process[a] = "running"

Emit(c, e) == emitted' = [emitted EXCEPT ![c][e] = @ + 1]

-----------------------------------------------------------------------------
(* RunnerStateHandler and AgentStateView *)

SetHealth(a, ok) == healthy' = [healthy EXCEPT ![a] = ok]

IsIdle(a) == slot[a].state = "idle"

IsQueued(a) == slot[a].state = "queued"

\* The callers look at the state that enqueue and mark_running insist on.
Enqueue(a, cs) == slot' = [slot EXCEPT ![a] = [state |-> "queued", claim_set |-> cs]]

MarkRunning(a) == slot' = [slot EXCEPT ![a].state = "running"]

ResetToIdle(a) == slot' = [slot EXCEPT ![a] = IdleSlot]

-----------------------------------------------------------------------------
(* HeartbeatWorker *)

\* One iteration, the request merged with its outcome: only the outcome has an
\* effect on the agent.
Heartbeat(a) ==
  /\ LoopFree(a)
  /\ \E ok \in BOOLEAN : SetHealth(a, ok)
  /\ UNCHANGED <<process, slot, sched, run, owner, orphans, emitted, dropped>>

-----------------------------------------------------------------------------
(* ScenarioSchedulerWorker *)

\* Faulty form of Poll: a busy slot does not hold the scheduler back.
PollWithBusySlot(a) ==
  /\ MayIterate(a)
  /\ sched[a].at = "sleep"
  /\ healthy[a]
  /\ sched' = [sched EXCEPT ![a].at = "fetch"]
  /\ UNCHANGED <<process, healthy, slot, run, owner, orphans, emitted, dropped>>

Poll(a) ==
  /\ MayIterate(a)
  /\ sched[a].at = "sleep"
  /\ healthy[a]
  /\ IsIdle(a)
  /\ sched' = [sched EXCEPT ![a].at = "fetch"]
  /\ UNCHANGED <<process, healthy, slot, run, owner, orphans, emitted, dropped>>

\* The listing reaches the agent, whatever has become of the set meanwhile. The
\* first claim set is kept: it was pending when the control plane looked.
FetchReturns(a) ==
  /\ LoopFree(a)
  /\ sched[a].at = "listed"
  /\ sched' = [sched EXCEPT ![a] =
       [at |-> "send", claim_set |-> @.claim_set, attempt |-> 1]]
  /\ UNCHANGED <<process, healthy, slot, run, owner, orphans, emitted, dropped>>

\* Nothing listed, a first claim set that is not pending, or an error.
FetchReturnsNothing(a) ==
  /\ LoopFree(a)
  /\ sched[a].at \in {"fetch", "listed"}
  /\ sched' = [sched EXCEPT ![a] = SchedulerAsleep]
  /\ UNCHANGED <<process, healthy, slot, run, owner, orphans, emitted, dropped>>

\* handle_iteration_error: the claim set in hand is forgotten.
Drop(a, says) ==
  /\ sched' = [sched EXCEPT ![a] = SchedulerAsleep]
  /\ dropped' = dropped \cup {<<a, sched[a].claim_set, says>>}

\* get_headers has a token, so the request goes out.
SendAck(a) ==
  /\ LoopFree(a)
  /\ sched[a].at = "send"
  /\ sched' = [sched EXCEPT ![a].at = "wait"]
  /\ UNCHANGED <<process, healthy, slot, run, owner, orphans, emitted, dropped>>

\* get_headers fails: AuthServiceError is not retried.
AuthFails(a) ==
  /\ LoopFree(a)
  /\ sched[a].at = "send"
  /\ Drop(a, "error")
  /\ UNCHANGED <<process, healthy, slot, run, owner, orphans, emitted>>

\* The answer is a 2xx: handle_iteration_success. enqueue raises when the slot
\* is busy, and the exception goes to the error handler.
AckAccepted(a) ==
  /\ LoopFree(a)
  /\ sched[a].at = "accepted"
  /\ LET cs == sched[a].claim_set IN
       IF IsIdle(a)
       THEN /\ Enqueue(a, cs)
            /\ sched' = [sched EXCEPT ![a] = SchedulerAsleep]
            /\ emitted' = [c \in Claims |->
                 IF c \in ClaimsOf[cs] THEN [emitted[c] EXCEPT !["queued"] = @ + 1]
                                       ELSE emitted[c]]
            /\ UNCHANGED dropped
       ELSE /\ Drop(a, "error")
            /\ UNCHANGED <<slot, emitted>>
  /\ UNCHANGED <<process, healthy, run, owner, orphans>>

\* The answer is a 2xx whose body is no JSON; that error is not retried.
AckUnreadable(a) ==
  /\ LoopFree(a)
  /\ sched[a].at = "accepted"
  /\ Drop(a, "error")
  /\ UNCHANGED <<process, healthy, slot, run, owner, orphans, emitted>>

\* Faulty form of AckRefused: "already acknowledged" is taken for an acceptance.
RefusalQueues(a) ==
  /\ LoopFree(a)
  /\ sched[a].at \in {"wait", "conflict"}
  /\ Enqueue(a, sched[a].claim_set)
  /\ sched' = [sched EXCEPT ![a] = SchedulerAsleep]
  /\ UNCHANGED <<process, healthy, run, owner, orphans, emitted, dropped>>

\* The answer has a status that is not retried: the 409 of the control plane,
\* or a 400, 401, 403, 404 or 422 from a server that did nothing.
AckRefused(a) ==
  /\ LoopFree(a)
  /\ sched[a].at \in {"wait", "conflict"}
  /\ Drop(a, "another_agent")
  /\ UNCHANGED <<process, healthy, slot, run, owner, orphans, emitted>>

\* The client stops waiting after a timeout, a broken connection or a 5xx. A
\* request the control plane has not handled by then may still reach it.
StopWaiting(a) ==
  /\ sched[a].at \in Requested
  /\ orphans' = IF sched[a].at = "wait"
                THEN orphans \cup {<<a, sched[a].claim_set>>}
                ELSE orphans

\* Faulty forms of AckRetry: one attempt too many, and attempts not counted.
AckRetryOnceMore(a) ==
  /\ LoopFree(a)
  /\ StopWaiting(a)
  /\ sched[a].attempt <= MAX_RETRIES
  /\ sched' = [sched EXCEPT ![a] =
       [at |-> "send", claim_set |-> @.claim_set, attempt |-> @.attempt + 1]]
  /\ UNCHANGED <<process, healthy, slot, run, owner, emitted, dropped>>

AckRetryUncounted(a) ==
  /\ LoopFree(a)
  /\ StopWaiting(a)
  /\ sched' = [sched EXCEPT ![a].at = "send"]
  /\ UNCHANGED <<process, healthy, slot, run, owner, emitted, dropped>>

AckRetry(a) ==
  /\ LoopFree(a)
  /\ StopWaiting(a)
  /\ sched[a].attempt < MAX_RETRIES
  /\ sched' = [sched EXCEPT ![a] =
       [at |-> "send", claim_set |-> @.claim_set, attempt |-> @.attempt + 1]]
  /\ UNCHANGED <<process, healthy, slot, run, owner, emitted, dropped>>

\* The last attempt fails: APIRequestError for a 5xx, httpx's error otherwise.
AckGivesUp(a) ==
  /\ LoopFree(a)
  /\ StopWaiting(a)
  /\ sched[a].attempt = MAX_RETRIES
  /\ \E says \in Reports : Drop(a, says)
  /\ UNCHANGED <<process, healthy, slot, run, owner, emitted>>

-----------------------------------------------------------------------------
(* Control plane and network *)

\* Faulty form of Acknowledged: the last acknowledgement wins.
LastAcknowledged(a, cs) == owner' = [owner EXCEPT ![cs] = a]

\* The control plane lists a pending set for the agent that is asking. An
\* attempt whose answer is lost changes nothing, so only the listing that will
\* reach the agent is a step.
ServerLists(a) ==
  /\ sched[a].at = "fetch"
  /\ \E cs \in ClaimSets :
       /\ owner[cs] = Nobody
       /\ sched' = [sched EXCEPT ![a] =
                      [at |-> "listed", claim_set |-> cs, attempt |-> 0]]
  /\ UNCHANGED <<process, healthy, slot, run, owner, orphans, emitted, dropped>>

\* Acknowledgements are handled one at a time.
Acknowledged(a, cs) ==
  owner' = IF owner[cs] = Nobody THEN [owner EXCEPT ![cs] = a] ELSE owner

ServerAck(a) ==
  /\ sched[a].at = "wait"
  /\ LET cs == sched[a].claim_set IN
       /\ Acknowledged(a, cs)
       /\ sched' = [sched EXCEPT ![a].at =
                      IF owner[cs] = Nobody THEN "accepted" ELSE "conflict"]
  /\ UNCHANGED <<process, healthy, slot, run, orphans, emitted, dropped>>

OrphanArrives(a, cs) ==
  /\ <<a, cs>> \in orphans
  /\ orphans' = orphans \ {<<a, cs>>}
  /\ Acknowledged(a, cs)
  /\ UNCHANGED <<process, healthy, slot, sched, run, emitted, dropped>>

-----------------------------------------------------------------------------
(* ScenarioRunnerWorker and ScenarioRunner *)

\* The head of execute_claim_set's loop, or its end and reset_to_idle. The slot
\* is marked running before the first claim, and is running before the others.
NextOf(a, S) ==
  \/ /\ S = {}
     /\ ResetToIdle(a)
     /\ run' = [run EXCEPT ![a] = RunnerAsleep]
     /\ UNCHANGED emitted
  \/ \E c \in S :
     /\ IsFirst(c, S)
     /\ MarkRunning(a)
     /\ run' = [run EXCEPT ![a] = [at |-> "fetch", claim |-> c, todo |-> S \ {c}]]
     /\ Emit(c, "executing")

Start(a) ==
  /\ MayIterate(a)
  /\ run[a].at = "sleep"
  /\ healthy[a]
  /\ IsQueued(a)
  /\ NextOf(a, ClaimsOf[slot[a].claim_set])
  /\ UNCHANGED <<process, healthy, sched, owner, orphans, dropped>>

RunFetched(a) ==
  /\ LoopFree(a)
  /\ run[a].at = "fetch"
  /\ run' = [run EXCEPT ![a].at = "execute"]
  /\ UNCHANGED <<process, healthy, slot, sched, owner, orphans, emitted, dropped>>

ClaimSucceeds(a) ==
  /\ LoopFree(a)
  /\ run[a].at = "execute"
  /\ Emit(run[a].claim, "success")
  /\ run' = [run EXCEPT ![a].at = "pause"]
  /\ UNCHANGED <<process, healthy, slot, sched, owner, orphans, dropped>>

\* Faulty forms of ClaimFails: the mode is ignored, and the slot is not freed.
FailureIgnoresMode(a) ==
  /\ LoopFree(a)
  /\ run[a].at \in {"fetch", "execute"}
  /\ Emit(run[a].claim, "failed")
  /\ run' = [run EXCEPT ![a].at = "pause"]
  /\ UNCHANGED <<process, healthy, slot, sched, owner, orphans, dropped>>

FailureKeepsSlot(a) ==
  /\ LoopFree(a)
  /\ run[a].at \in {"fetch", "execute"}
  /\ Emit(run[a].claim, "failed")
  /\ run' = [run EXCEPT ![a] = IF StopsOnFailure(slot[a].claim_set)
                               THEN RunnerAsleep
                               ELSE [@ EXCEPT !.at = "pause"]]
  /\ UNCHANGED <<process, healthy, slot, sched, owner, orphans, dropped>>

\* Fetching or executing the run raised. In stop_on_failure mode the exception
\* ends the set and handle_iteration_error frees the slot.
ClaimFails(a) ==
  /\ LoopFree(a)
  /\ run[a].at \in {"fetch", "execute"}
  /\ Emit(run[a].claim, "failed")
  /\ IF StopsOnFailure(slot[a].claim_set)
     THEN /\ ResetToIdle(a)
          /\ run' = [run EXCEPT ![a] = RunnerAsleep]
     ELSE /\ run' = [run EXCEPT ![a].at = "pause"]
          /\ UNCHANGED slot
  /\ UNCHANGED <<process, healthy, sched, owner, orphans, dropped>>

\* Faulty form of NextClaim: the loop ends after its first claim.
OnlyFirstClaim(a) ==
  /\ process[a] # "stopped"
  /\ run[a].at = "pause"
  /\ NextOf(a, {})
  /\ UNCHANGED <<process, healthy, sched, owner, orphans, dropped>>

NextClaim(a) ==
  /\ process[a] # "stopped"
  /\ run[a].at = "pause"
  /\ NextOf(a, run[a].todo)
  /\ UNCHANGED <<process, healthy, sched, owner, orphans, dropped>>

-----------------------------------------------------------------------------
(* Process *)

\* The handler of SIGTERM or SIGINT sets the shutdown event.
Signal(a) ==
  /\ MayIterate(a)
  /\ process' = [process EXCEPT ![a] = "terminating"]
  /\ UNCHANGED <<healthy, slot, sched, run, owner, orphans, emitted, dropped>>

\* Whatever the process held in memory is gone; its request is not.
Stop(a) ==
  /\ process' = [process EXCEPT ![a] = "stopped"]
  /\ healthy' = [healthy EXCEPT ![a] = FALSE]
  /\ slot' = [slot EXCEPT ![a] = IdleSlot]
  /\ sched' = [sched EXCEPT ![a] = SchedulerAsleep]
  /\ run' = [run EXCEPT ![a] = RunnerAsleep]
  /\ orphans' = IF sched[a].at = "wait"
                THEN orphans \cup {<<a, sched[a].claim_set>>}
                ELSE orphans
  /\ UNCHANGED <<owner, emitted, dropped>>

\* Faulty form of Cancel: the shutdown waits for the slot to be free.
CancelWhenIdle(a) ==
  /\ LoopFree(a)
  /\ process[a] = "terminating"
  /\ IsIdle(a)
  /\ Stop(a)

\* shutdown_all_workers cancels every worker where it awaits.
Cancel(a) == LoopFree(a) /\ process[a] = "terminating" /\ Stop(a)

\* SIGKILL, an eviction or a lost node, at any instant.
Kill(a) == process[a] # "stopped" /\ Stop(a)

-----------------------------------------------------------------------------

SchedulerStep(a) ==
  \/ FetchReturns(a) \/ FetchReturnsNothing(a)
  \/ SendAck(a) \/ AuthFails(a)
  \/ AckAccepted(a) \/ AckUnreadable(a) \/ AckRefused(a)
  \/ AckRetry(a) \/ AckGivesUp(a)

RunnerStep(a) ==
  \/ RunFetched(a) \/ ClaimSucceeds(a) \/ ClaimFails(a) \/ NextClaim(a)

AgentNext(a) ==
  \/ Heartbeat(a)
  \/ Poll(a) \/ SchedulerStep(a)
  \/ Start(a) \/ RunnerStep(a)
  \/ Signal(a) \/ Cancel(a) \/ Kill(a)

Next ==
  \E a \in Agents :
    \/ AgentNext(a)
    \/ ServerLists(a) \/ ServerAck(a)
    \/ \E cs \in ClaimSets : OrphanArrives(a, cs)

Spec == Init /\ [][Next]_vars

(* Every await of a request ends, by the client's timeout if by nothing else,
   so a scheduler or runner that has started an iteration takes another step
   (a fetch that is never answered ends with nothing);
   execute_resilience_scenario is taken to end. Start needs no more than that
   the runner's timer keeps firing. The event loop runs ready tasks in order,
   so a shutdown that has been requested is not overtaken for ever. Nothing is
   assumed of heartbeats, polls, the control plane, signals or crashes. *)
FairSpec ==
  /\ Spec
  /\ \A a \in Agents :
       /\ WF_vars(SchedulerStep(a))
       /\ WF_vars(RunnerStep(a))
       /\ WF_vars(Start(a))
       /\ SF_vars(Cancel(a))

-----------------------------------------------------------------------------
(* Properties *)

Delivery == INSTANCE ClaimSetDelivery WITH owner <- owner, emitted <- emitted

(* Seen from outside, the agents deliver claim sets as ClaimSetDelivery says:
   every set to one owner, every claim queued, started and ended at most once,
   in order of position, one at a time, none after a failure that stops the
   set, whatever is retried, lost, late or killed. *)
ImplementsDelivery == Delivery!Spec

(* should_execute looks at the slot before the two requests of a poll, and
   enqueue looks again after them: the slot is still idle, so an acknowledged
   set is never refused by its own agent as "slot is busy". *)
SlotFreeWhilePolling ==
  \A a \in Agents : sched[a].at # "sleep" => slot[a].state = "idle"

(* The set in an agent's slot is one whose acknowledgement by that very agent
   the control plane accepted; so no two agents hold the same set. *)
SlotIsOwned ==
  \A a \in Agents, cs \in ClaimSets : slot[a].claim_set = cs => owner[cs] = a

Finished(cs) ==
  \/ \A c \in ClaimsOf[cs] : emitted[c]["success"] + emitted[c]["failed"] > 0
  \/ StopsOnFailure(cs) /\ \E c \in ClaimsOf[cs] : emitted[c]["failed"] > 0

\* The scheduler of a has cs in hand and is acknowledging it.
Acknowledges(a, cs) ==
  sched[a].at \in Acknowledging /\ sched[a].claim_set = cs

(* A set the control plane counts as taken by a live agent is being
   acknowledged by it, is in its slot, has run to its end, or was dropped by
   the scheduler's error handler: there is no other way to lose one. *)
TakenSetsAccountedFor ==
  \A a \in Agents, cs \in ClaimSets :
    owner[cs] = a =>
      \/ process[a] = "stopped"
      \/ Acknowledges(a, cs)
      \/ slot[a].claim_set = cs
      \/ Finished(cs)
      \/ \E says \in Reports : <<a, cs, says>> \in dropped

\* Neither done, nor in the slot of the agent that the control plane gave it to,
\* nor accepted in an answer that is on its way to that agent.
LetGo(cs) ==
  /\ ~Finished(cs)
  /\ \E a \in Agents :
       /\ owner[cs] = a
       /\ slot[a].claim_set # cs
       /\ ~(sched[a].at = "accepted" /\ sched[a].claim_set = cs)

(* A set that its agent has let go of before its end, by an error, a kill, an
   acceptance it was not told of or a late acknowledgement, is never queued and
   runs none of its claims again: no poll, no retry, no restart, of any agent,
   not even one that goes on acknowledging it or finds it in a listing made
   while it was still pending. *)
LetGoForGood ==
  [][\A cs \in ClaimSets : LetGo(cs) =>
       LetGo(cs)' /\ \A c \in ClaimsOf[cs] : emitted'[c] = emitted[c]]_vars

(* An iteration of the scheduler ends: retries are bounded, and no step of the
   other workers can hold it up for ever. *)
PollsEnd == \A a \in Agents : sched[a].at # "sleep" ~> sched[a].at = "sleep"

(* A claim set that was queued leaves the slot again, unless the agent is
   stopped or never stays healthy. *)
QueuedSetsEnd ==
  \A a \in Agents :
    <>[](healthy[a] /\ process[a] = "running")
      => (slot[a].state # "idle" ~> slot[a].state = "idle")

(* A signalled agent stops, even in the middle of a claim set. *)
ShutdownEnds ==
  \A a \in Agents : process[a] = "terminating" ~> process[a] = "stopped"

(* A 409 answers the acknowledgement of a set that another agent took first, as
   the scheduler's log line and the control plane's message say: never the
   retry of an acknowledgement of its own that was accepted. *)
ConflictMeansAnotherAgent ==
  \A a \in Agents :
    sched[a].at = "conflict" => owner[sched[a].claim_set] # a

(* "Some other agent acknowledged the claim set first" is logged only when some
   agent has acknowledged the set. *)
ReportedSetsAreTaken ==
  \A a \in Agents, cs \in ClaimSets :
    <<a, cs, "another_agent">> \in dropped => owner[cs] # Nobody

-----------------------------------------------------------------------------
(* Inductive invariant: what the properties above rest on *)

Untouched(cs) == \A c \in ClaimsOf[cs], e \in EventEnum : emitted[c][e] = 0

Waiting(c) ==
  /\ emitted[c]["queued"] = 1
  /\ emitted[c]["executing"] = 0
  /\ emitted[c]["success"] = 0
  /\ emitted[c]["failed"] = 0

Started(c, ends) ==
  /\ emitted[c]["queued"] = 1
  /\ emitted[c]["executing"] = 1
  /\ emitted[c]["success"] + emitted[c]["failed"] = ends

\* A pending set has not been touched, and an accepted answer that is still
\* under way is for such a set.
AcknowledgedOnce ==
  /\ \A cs \in ClaimSets : owner[cs] = Nobody => Untouched(cs)
  /\ \A a \in Agents :
       /\ sched[a].at \in Acknowledging \cup {"listed"}
            <=> sched[a].claim_set \in ClaimSets
       /\ sched[a].at = "accepted" =>
            owner[sched[a].claim_set] = a /\ Untouched(sched[a].claim_set)

\* The slot and the runner's place in execute_claim_set agree.
SlotMatchesRunner ==
  \A a \in Agents :
    /\ slot[a].state = "idle" <=> slot[a].claim_set = NoClaimSet
    /\ slot[a].state = "running" <=> run[a].at # "sleep"

\* The claims of a running set: those before the current one have ended, the
\* current one has started, those after it wait.
RunningInOrder(cs, r) ==
  /\ r.claim \in ClaimsOf[cs]
  /\ r.todo \subseteq ClaimsOf[cs]
  /\ Started(r.claim, IF r.at = "pause" THEN 1 ELSE 0)
  /\ StopsOnFailure(cs) => emitted[r.claim]["failed"] = 0
  /\ \A c \in r.todo : Before(r.claim, c) /\ Waiting(c)
  /\ \A c \in ClaimsOf[cs] \ (r.todo \cup {r.claim}) :
       /\ Before(c, r.claim)
       /\ Started(c, 1)
       /\ StopsOnFailure(cs) => emitted[c]["failed"] = 0

ProgressOf(a) ==
  /\ slot[a].state = "queued" =>
       \A c \in ClaimsOf[slot[a].claim_set] : Waiting(c)
  /\ slot[a].state = "running" => RunningInOrder(slot[a].claim_set, run[a])

ProgressInOrder == \A a \in Agents : ProgressOf(a)

\* A late acknowledgement of a live agent is one whose set the agent is still
\* acknowledging or has dropped, unless the set is already taken.
OrphansAccountedFor ==
  \A a \in Agents, cs \in ClaimSets :
    <<a, cs>> \in orphans =>
      \/ owner[cs] # Nobody
      \/ process[a] = "stopped"
      \/ Acknowledges(a, cs)
      \/ \E says \in Reports : <<a, cs, says>> \in dropped

(* What holds together in every state reached: each part needs the others to
   survive a step. *)
IInv ==
  /\ TypeOK
  /\ SlotFreeWhilePolling
  /\ SlotIsOwned
  /\ TakenSetsAccountedFor
  /\ AcknowledgedOnce
  /\ SlotMatchesRunner
  /\ ProgressInOrder
  /\ OrphansAccountedFor

=============================================================================
