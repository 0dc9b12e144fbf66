# A TLA+ model of resilops-agent

resilops-agent runs in every cluster as one or more pods. It reports to a
control plane, takes claim sets of resiliency scenarios from its queue and runs
them, and publishes snapshots of namespaces. This directory models what the
agents do together: with each other, with the control plane, with the
Kubernetes API, and with networks and processes that fail.

All paths below are relative to the repository; `agent/` stands for `src/agent/`.

## Inventory

| Component | State | Operations | What makes it correct |
|---|---|---|---|
| Scenario scheduler (`agent/workers/scheduler.py`) | the iteration it is in, the claim set in hand | poll, acknowledge, enqueue, handle an error | acknowledges before it enqueues; never finds the slot busy; ends every iteration |
| Scenario runner (`agent/workers/runner.py`, `agent/handlers/runner.py`) | the claim it runs, the claims to come | start a set, fetch and execute a claim, pause, free the slot | claims once, one at a time, by position; nothing after a failure that stops the set; the slot is always freed |
| Runner and agent state (`agent/handlers/state.py`) | the slot (idle, queued, running; claim set), health | enqueue, mark running, reset, set health | one claim set at a time |
| Heartbeat worker (`agent/workers/heartbeat.py`) | - | send, set health | health gates polling, running and snapshots |
| Control plane client (`agent/clients/base.py`, `agent/clients/control_plane.py`) | attempt counter | request with headers, retries, classification of errors | bounded attempts; a result only for a request that was handled; every request ends |
| Token cache (`agent/clients/token.py`, `agent/schemas/token.py`) | token, lock with its queue | use, queue, refresh, fail | one refresh at a time and only a needed one; an expired token is sent only beyond the margin; no waiter is left |
| Leader election (`agent/core/leader.py`) | `is_leader`; the Lease in Kubernetes | acquire or renew | a granted lease is honoured; no write shortens or steals a running one |
| Snapshot worker (`agent/workers/snapshot.py`, `agent/handlers/snapshot.py`) | sync id, batches left, startup retry counter | sleep, check leadership, discover, publish, report | works only under a grant; reports success only of a complete snapshot; rounds keep coming |
| Worker loop, manager, lifecycle (`agent/core/`) | tasks, shutdown event, threads of the pool | start, signal, cancel, gather | a worker survives errors; nothing starts after the signal; shutdown waits for all and ends |
| Entry point (`agent/entrypoint.py`) | - | build everything, run, join the threads | the process ends |
| Configuration (`agent/schemas/config.py`) | read-only | validate | the bounds of the intervals |
| Telemetry, logging (`agent/handlers/telemetry.py`, `agent/logging.py`) | a rotating file | write a record | - |
| Mock control plane (`mockserver/`) | the queued scenario | acknowledge under a lock | one acknowledgement is accepted |

The workers of one agent are tasks of one event loop: between two awaits a step
is atomic, at every await any other task may run. They interact through the
slot and the health flag, through the token and its lock, and through the pool
of threads in which the calls of the lease, the discoveries and the look-ups of
host names run; with other agents they interact only through the control plane
and the Lease.

What is hard: acknowledgements that are lost, late or retried while other agents
compete for the same set; a check before two awaits and its use after them;
crashes and cancellation at every await; `time.sleep` on the event loop; a lease
that is read, judged and written at three different instants by pods whose
clocks differ; a discovery that outlasts the lease; a token that expires on its
way, or for many requests at once; calls in threads that outlive the task that
awaits them; an interval of hours chosen by a counter of attempts; errors
outside the error handler. `PROJECT.json` lists them as hazards, with the line
where each one bites and the properties that cover it.

## Modules

| Module | What it is |
|---|---|
| `ClaimOrder` | claim sets as data: claims, position, order of arrival, execution mode |
| `ClaimSetDelivery` | abstract specification: what the agents promise for every claim set |
| `ScenarioAgents` | detailed specification of scheduler, runner, slot, heartbeat, shutdown and control plane; implements `ClaimSetDelivery` |
| `RequestContract` | abstract specification: what `request()` promises its caller |
| `AuthorizedRequests` | requests of one agent's workers with attempts, timeouts, the token and its lock; implements `RequestContract` |
| `LeaderLease` | abstract specification: what leader election promises, without calls, versions or errors |
| `KubernetesLease` | leader election of all agents against the API server; implements `LeaderLease` |
| `SnapshotWorkers` | the snapshot workers of all agents, composed with `KubernetesLease` |
| `SnapshotSchedule` | when the snapshot workers of a fleet get to work, with intervals, heartbeats and the lease in time |
| `AgentLifecycle` | one process from the start of its workers to its exit, with its thread pool |
| `FiniteOrders` | lemmas: a finite order has a least element |
| `ScenarioAgents_proofs` | invariants and action property of `ScenarioAgents`, proved |
| `ScenarioAgentsRefinement_proofs` | its refinement of `ClaimSetDelivery`, and what that promises, proved |
| `AuthorizedRequests_proofs` | its invariants, the refinement of `RequestContract`, and what that promises, proved |
| `KubernetesLease_proofs` | its invariants and action properties, the refinement of `LeaderLease`, and what that promises, proved |
| `SnapshotWorkers_proofs`, `SnapshotSchedule_proofs`, `AgentLifecycle_proofs` | their invariants and action properties, proved |
| `MCScenarioAgents`, `MCAuthorizedRequests`, `MCKubernetesLease`, `MCSnapshotWorkers`, `MCSnapshotSchedule`, `MCAgentLifecycle` | instances for TLC |

Each detailed module looks at one question and takes from the others what it
needs. `ScenarioAgents` sees of a request what `RequestContract` leaves of it:
it may be handled once per attempt, and even after the caller was told that it
failed. `SnapshotWorkers` extends `KubernetesLease`. `KubernetesLease` assumes
that a process is inside `acquire_or_renew_lease` once at a time, which
`AgentLifecycle` shows (`LeaseCallsDoNotOverlap`). `SnapshotSchedule` asks for
the lease in one step and without skew; what happens inside that step is the
matter of `KubernetesLease`.

A definition whose comment says "Faulty form of" is not part of a
specification: it is what a plausible bug would make of the action it stands
before, and is used to see that the properties notice it.

### ScenarioAgents and the code

`slot[a]` is `RunnerState`, `healthy[a]` the health flag, `sched[a]` and
`run[a]` say at which await the two workers are and what their local variables
hold, `process[a]` is running, terminating (the shutdown event is set) or
stopped. `owner` is the control plane's record of acknowledgements, `orphans`
holds requests whose client has stopped waiting, `emitted` counts the telemetry
events of each claim. `dropped` is a history variable: what the scheduler's
error handler said of each set it forgot.

Each action is what a worker does from one await to the next. A poll is `Poll`,
`ServerLists` (the control plane's, not the agent's), `FetchReturns` (or
`FetchReturnsNothing`), `SendAck`, then an answer:
`AckAccepted` enqueues, `AckUnreadable` is a 2xx whose body is no JSON,
`AckRefused` is a status that is not retried, `AckRetry` and `AckGivesUp` are
timeouts, broken connections and 5xx, before and at the last attempt.
`ServerAck` and `OrphanArrives` are the control plane handling a request, on
time or late. Between `ServerLists` and `FetchReturns` anything may happen: the
agent goes by the status "pending" of the answer, which may be that of a set
taken meanwhile, even by a late acknowledgement of its own. The runner is `Start`, `RunFetched`, `ClaimSucceeds`,
`ClaimFails`, `NextClaim`; while it is at `"pause"` (`time.sleep(3)`) no other
step of that process is enabled except `NextClaim` and `Kill`. `Enqueue`,
`MarkRunning` and `ResetToIdle` are the operations of `RunnerStateHandler`.
`Signal`, `Cancel` and `Kill` end a process; a restarted pod is another member
of `Agents`, because nothing is persisted.

The acknowledgement is modelled from the control plane's side as
`mockserver/server/app.py` implements it: one at a time, the first is accepted,
the others are answered 409. The mock server serves listing and acknowledgement
under older paths than those of `agent/constants.py`; it is taken for what the
control plane does, not for its interface.

### AuthorizedRequests and the code

A member of `Requests` is one call of `request()` by any worker; `at[r]` says
where it stands: it needs headers, is queued for `_token_lock`, has asked for a
token, has one coming, has been sent, has an answer coming, or is over.
`cached` is `_auth_m2m_token`, `attempt[r]` the loop counter of `request()`,
`ahead[r]` the queue of the lock: who is to have it before `r`. `net` holds
every copy of a request that may still arrive, with the token it carries.

`UsesCachedToken` is the first look at the cache in `get_m2m_token`, `Queues`
the failure of that look, `FindsFreshToken` and `AsksForToken` the second look
under the lock, `TokenReceived` the new token. Its `created_at` is the time of
receipt, or, if the answer of the auth service brings a field of that name, the
issuer's: the schema calls the field internal but lets an answer set it, and
the model has both. `RefreshFails` is `AuthServiceError`, which `request()` does
not retry. `Succeeds`, `Fails`, `Retries` and `GivesUp` are the four ways out of
an attempt; the delay between attempts needs no action of its own. `Cancelled`
is the cancellation of the task, at any await. The services are `Issue`,
`Revoke`, `Arrives` and `Lost`. Time waits for none of them: the 3 s of
`REQUEST_TIMEOUT` hold for connecting, sending and receiving each, and nothing
bounds the way of a copy whose sender has given up. `first` marks a copy made
with a token that its sender had just been given, which `get_m2m_token` returns
without asking whether it has expired; `since` is when a copy was made.

### KubernetesLease and the code

`Call` is `_now`, `ReadReturns` the read and the decision, `BuildNewLease` the
second timestamp taken after a 404, `ServerWrites` the create or replace with
its comparison of versions, `ReturnsTrue` and `ReturnsFalse` set `is_leader`.
`Raises` is any error, wherever the call stands: `is_leader` keeps its value,
and a write that was under way stays in `late` until it lands or its version is
gone. `Restarts` loses the memory of the process but keeps its identity, since
host name and process id are the same after a restart of the container.
`belief[a]` refines `is_leader` by the timestamp of the write that set it.
`Skew[a]` says how far the clock of `a` is ahead; time is discrete and shared, and
a clock is taken not to be set back while the agent runs.

Of all this `LeaderLease` keeps the holder and the renewal time of the lease,
`belief`, and in `granted` the renewals that were made for an agent and that it
has not been told of. Its `Grant` is a write that was accepted, whose writer may
or may not be waiting for the answer; `Lead` is the moment the writer learns of
it, which may be when the lease is over already; `Lose` is an answer that never
comes, and `StepDown` a refusal or a restart. Since `Lead` takes its belief from
`granted`, an agent believes in grants made to it and in no other. Reads,
timestamps, versions and errors are gone; `granted` is mapped to `unreturned`,
the timestamps of the calls that have been accepted and not returned, and the
rest to itself.

### SnapshotWorkers and the code

The module extends `KubernetesLease`; its actions take a step of the lease, of
the worker, or of both when a lease call starts or returns. A worker asks in
`should_execute` ("check"), at the start of `capture_and_publish_snapshot`
("ensure") and before each batch ("batch"). `CheckRaises` is the error that
escapes the loop. `stored[a]` is what the control plane has under the current
sync id; a publication may arrive, arrive twice, or arrive and still be
reported as failed. `Chunks` gives the batches of a shuffled list; the list is
taken to name no namespace twice.

### SnapshotSchedule and the code

Time is counted down: `due[a]` until the worker goes on, `beat[a]` until the
answer to the next heartbeat, `left` until the lease expires. `Sleeps` is
`execution_interval` with its count of attempts. A worker that wakes skips the
round if its agent is not healthy (`SkipsUnhealthy`), dies if the call of the
lease raises (`CheckRaises`), or gets a grant or a refusal; a grant leads to the
next request for the lease, or to the end of the iteration, within `BatchTime`.
`Beat` is a heartbeat, answered or not. `Restarts` is a process that comes back
under its identity or as a new pod. `waiting[a]` and `prompt[a]` are history
variables, for the two properties. `waiting[a]` goes on while the worker of a
healthy agent is dead, so that nothing hides this time; the two properties bound
it for agents whose worker runs, and say so. An agent whose worker died of an
error of the lease call (`agent/core/worker.py:86`, the subject of
`workers_survive`) waits for whatever the others do, and for ever if there are
none.

### AgentLifecycle and the code

`at[w]` is the place of worker `w` in `run_continuously`, `job[w]` the call in a
thread that it awaits, `stray[k]` the threads of the pool whose caller has
gone, `cancelling` the tasks that have been cancelled and have not noticed it.
`Wakes` looks at the event after the sleep, as the loop does; `CallReturns` in
"check" is the answer of `should_execute`, whose error ends the task.
`TimesOut` is the `wait_for` of a discovery or the timeout of httpx around the
look-up of a host name, and has no counterpart for a call of the lease.
`Shutdown` cancels what has not ended, `Completes` is `gather`, `Exits` is the
end of `asyncio.run`, which joins the threads.

## Runs

| Run | Instance | Shows |
|---|---|---|
| `one_set` | 2 agents (symmetric), 1 set of 3 claims in continue mode, 2 of them with one position, 3 attempts | competition for a set: `ImplementsDelivery`, the invariants, `LetGoForGood`, and the inductive invariant |
| `two_sets` | 1 agent, a stopping set of 2 claims and a continuing set of 1, fairness | the same across sets and modes; iterations, queued sets and shutdown end |
| `own_conflict` | as `one_set`, no symmetry | *violated*: a 409 may answer the agent's own accepted acknowledgement |
| `reported_sets` | as `one_set`, no symmetry | *violated*: "some other agent acknowledged" is said of a pending set |
| `requests` | 2 requests, 2 attempts, tokens of 3 ticks with a margin of 1, any delays, clock 1 tick behind, 3 ticks, fairness | refreshes are needed ones, the lock is not lost, an expired token is sent only beyond the margin or as it was received, `ImplementsContract`, every request ends |
| `lease` | 2 agents, clocks 1 tick apart, lease of 2 ticks, 6 ticks of time, 3 writes | the lease is honoured, changes hands only past its end, is never shortened; `OneLeader`, `ImplementsLeaderLease` (nobody believes in a grant that was not its own) |
| `snapshots` | 2 agents, clocks 1 tick apart, lease of 1 tick, 4 ticks, 6 writes, 3 namespaces in batches of 2 | a worker beside another holder has outlived its grant; success is complete |
| `publishes_as_holder` | 2 agents, 1 namespace, 5 writes | *violated*: an agent publishes while another one leads |
| `workers_survive` | 1 agent, 3 namespaces | *violated*: an API error in `should_execute` ends the worker |
| `schedule` | 2 agents (symmetric), startup interval 2 and at most 2 of them, interval 5, heartbeats every 2, lease of 2, batches of 1, delay of 1, waits counted up to 9 | while an agent is healthy and its worker has not died rounds keep coming; the first one is fast |
| `lifecycle` | 3 workers, a pool of 2 threads, fairness | calls of the lease do not overlap, the shutdown waits for all, nothing starts after it; it completes, and the process ends if the threads do |
| `outlives_shutdown` | as `lifecycle` | *violated*: a thread goes on after the shutdown is complete |

Deadlock is checked in `schedule` only. In the other modules the system may
stop: processes exit, sets run out, requests end, and time and writes are
bounded.

### Bounds

Two agents are enough for every race on one set: acknowledgements are handled
one at a time, and a third agent only loses in the same way. Three attempts are
the code's `MAX_RETRIES`. Two agents with two sets, and three agents, exceed
what TLC does in minutes; `two_sets` covers the sequence of sets in one agent,
and the theorems cover all sizes. In `lease`, six ticks and three writes let the
lease be created, pass to the agent whose clock is ahead and pass back.
`Horizon` bounds time and `MaxVersion` the writes of the lease (no call starts
from that version on). In `snapshots`, six writes let one agent complete the
four calls of a snapshot of two batches and another take over in the middle.

In `requests`, two requests are enough for one to hold the lock and one to
queue, and for the second look at the cache to matter; two attempts distinguish
the first, the last and a retry; three ticks see a token issued, used, sent past
its margin and past its end, and replaced. In `schedule` nothing bounds time: all
clocks count down, `MaxWait` is where `waiting` stops counting, above both
bounds, and the state space is finite. The intervals are the smallest with
`RetriesOutlastHeartbeat`, below which `FirstRoundIsFast` says nothing, so that
using one startup retry less is noticed. In `lifecycle`, two threads are fewer than the workers and can be
filled by hung calls of the snapshot worker alone.

### Fairness

`ScenarioAgents`: weak fairness of the scheduler's and of the runner's steps
once an iteration has started, because each of their awaits ends: requests by
httpx's timeout, sleeps by their timer, `execute_resilience_scenario` by
assumption. `Start` is weakly fair because the runner's timer keeps firing.
`Cancel` is strongly fair: the event loop is blocked again and again by the
pause between claims, but it runs its ready tasks in order, so a wakeup that is
due is not overtaken for ever. Nothing is assumed of heartbeats, polls, the
control plane, signals and crashes. `QueuedSetsEnd` is conditional on an agent
that stays up and healthy, since `should_execute` of the runner asks for health.

`AuthorizedRequests`: weak fairness, for each request, of the steps that get it
a token and of those that end an attempt: the event loop runs ready tasks and
httpx ends every wait by its timeout. Nothing is assumed of the services, the
network or the clock; an auth service that never answers is left by
`RefreshFails`.

`AgentLifecycle`: weak fairness of timers, timeouts, cancellations and the
manager. `IterationEnds` is strongly fair because an iteration makes finitely
many calls, though the model does not count them; `PoolStarts` because the queue
of the executor is first in, first out. Calls in threads may hang for ever;
`ProcessExits` and `SnapshotsGoOn` are stated under `CallsEnd`, that none does,
and fail without it. `SnapshotSchedule` has no fairness: its two bounds are
safety properties of a timed model.

## What is proved

All theorems hold for every value of the constants that satisfies the named
assumptions: any finite or infinite set of agents, any claim sets with
non-empty, disjoint, finite sets of claims and distinct places in their list,
any retry limit of at least one, any lease duration, any clocks at most
`MaxSkew` apart, any finite set of namespaces and any batch size, any workers
and any pool. That claims are finite in number (`ClaimsAreFinite`) is used in
one theorem, `NextClaimIsDetermined`; the code has them in a list.

Every property of a passing run that is not a liveness property is a theorem.
Each of the three abstract specifications is used in the same way: the detailed
specification is shown to implement it, the abstract one is shown to keep its
promises by an invariant of its own, and the detailed one then keeps them
without another look at its actions. Where a promise is a property of a run as
well, TLC has checked it directly.

**Scenario path** (`ScenarioAgents_proofs`). The properties are not inductive:
that an accepted answer may be enqueued depends on the set being untouched
(`AcknowledgedOnce`); that a taken set is accounted for depends on late
acknowledgements being accounted for before they arrive
(`OrphansAccountedFor`); that claims start in order depends on the runner's
list being what is left of the set (`ProgressInOrder`), which needs slot and
runner to agree (`SlotMatchesRunner`). `IInv` is the conjunction. From
`Invariance` (`Spec => []IInv`) follow `TypeCorrect`, `SlotIsNeverBusy`,
`MutualExclusion` and `NoSilentLoss`.

`LostIsLost` is about steps: a set that its agent has let go of stays untouched
(`LetGoForGood`). The argument is that such a set is out of everybody's hands
(`OutOfHands`): its agent has neither the slot at it nor an acceptance on its
way. A scheduler, its agent's or another's, may have it in hand once more, from
a listing made before or for the next attempt, but the control plane accepts no
acknowledgement of it any more, and only an acknowledgement that was accepted,
or the slot, changes what was emitted for a set; every action is shown to leave
it alone. So what `own_conflict` loses is lost for good, and
nothing else happens to it. `NextClaimIsDetermined` says that the runner never
stalls on the order of claims: while claims are left, one of them is first.
It is the least element of a finite order, `FiniteOrderHasLeast` of
`FiniteOrders`, which rests on the library's fact that finite sets are well-founded
under inclusion, and so needs no induction (below).

**Refinement** (`ScenarioAgentsRefinement_proofs`). `AgentsImplementDelivery`:
the identity on `owner` and `emitted` maps every step to a step of
`ClaimSetDelivery` or to a stutter; `IInv` supplies the abstract guards.
`DeliveryKeepsPromises` says what that is worth: in every behaviour of
`ClaimSetDelivery` a claim is queued, started and ended once at most
(`AtMostOnce`), has started only when those before it have ended, with success
if the set stops on a failure (`InOrder`), runs alone (`OneAtATime`), moves only
in a set that was given to an agent, and that agent is final (`OwnerIsFinal`).
`OneAtATime` follows from `InOrder`, because of two claims of a set one is before
the other. `AgentsKeepPromises` carries all of it over to `ScenarioAgents`.

**Requests and tokens** (`AuthorizedRequests_proofs`). `IInv` says that the
queue of the lock is an order (`QueueIsOrdered`), so that one request at most is
past it; that the token of a copy was fresh by the agent's clock when its headers
were made, unless it had just been received (`MessagesAreDated`); and that
copies are counted (`CopiesAreCounted`), which bounds what the control plane may
have handled. From it follow `RefreshesNeeded`, `MarginCovers` and
`ContractImplemented`.

`MarginCovers` is `ExpiredOnlyIfSlow` for any delays and any skew. That no
request carries an expired token is not true of the code, and no assumption that
would make it so is made: a request may take 3 s to connect and 3 s to be sent,
a token is on its way for as long, clocks differ, and the margin is 5 s. What is
true is that the margin is what these have to add up to: a copy has an expired
token only if its own way together with what the agent dates the token too late
(`DatedLate`: the way of the token, or the lag of the clock where the issuer's
own date is kept) exceeds the margin, or if the token was used as received. That
holds of every attempt, because each makes its headers anew; a retry with the
headers of the attempt before would break it.

`LockIsNeverLost` says that as long as requests queue for the lock exactly one
of them has it. That two of them do not have it is `QueueIsOrdered`; that one of
them does needs more: a queue whose members wait for each other in a circle, or
without end, is ordered pairwise as well. `QueueIsOrdered` therefore says too
that who is ahead of somebody ahead is ahead, and that the queue is finite,
although `Requests` need not be. The safety half of `EveryRequestEnds` is this
theorem: no request waits for a lock that nobody will give back.

`ContractKeepsPromises` and `RequestsKeepPromises`: a request is handled at most
as often as it was sent (`HandledAtMostSent`), a success means that it was
handled (`OkMeansHandled`), and a caller that has its result is not sent for
again (`ResultIsFinal`).

**Lease** (`KubernetesLease_proofs`). `IInv` says of every write that can still
be accepted, live or late, that it is by the holder and not older than the last
renewal, or newer than the end of the lease (`MayWrite`), and of every grant
that it is still held or over (`GrantStands`). One lemma, `WriteKeepsGrants`,
carries the argument: a taker's timestamp is past the end of the lease, and the
taker's clock is at most `MaxSkew` ahead of the loser's. From it follow
`LeaseIsHonoured`, `TakeoversWait` and `RenewalsLast`.

`CallsImplementElection` maps the steps of the calls to `LeaderLease`: an
accepted write, on time or late, is a `Grant` by `MayWrite`, one that is recorded
in `granted` if its call still waits; `ReturnsTrue` is a `Lead` of what was
recorded, however long its answer took; an error after an accepted write is
`Lose`, a refusal and a restart are `StepDown`; the rest is a stutter. `ElectionHasOneLeader` proves of
`LeaderLease`, with an invariant in which calls do not occur any more, that two
agents never lead at the same time; `NeverTwoLeaders` is the same of the calls.

**Snapshots** (`SnapshotWorkers_proofs`). `WorkersUseTheLease` shows that every
behaviour of the workers is one of `KubernetesLease`, so its invariant holds of
them too; with `WorkersIInv` (a worker works only with a grant; nothing is
forgotten between batches) follow `WorkUnderGrant` and `SuccessMeansComplete`.
`WorkersImplementElection` and `WorkersHaveOneLeader` follow without the
invariant, by composing the two implementations.

**Schedule** (`SnapshotSchedule_proofs`). `WaitIsBounded` relates how long the
fleet has been without a grant to how long each worker still sleeps: a refusal
sends a worker to sleep for the long interval, but only while a lease runs, so
not long after a grant (`Timely`). `PromptUntilHeartbeat` says that before its
first heartbeat a worker has made as many attempts as there was time for. From
it follow `RoundsAreBounded` and `FirstRoundIsBounded`. The latter holds under
`RetriesOutlastHeartbeat`: `heartbeat_interval` and the delay are less than the
time of the startup retries, and no less than the lease. The defaults satisfy it
(30 s of heartbeat against 100 s of retries and 30 s of lease); `AgentConfig`
allows longer heartbeats, and a control plane may be away for longer than the
retries last: then attempts are used up before the agent is healthy, and only
`RoundsAreBounded` bounds the first round, which may take hours. Neither theorem
says anything of an agent whose worker has died. Both
theorems take `BatchTime` and `Delay` for granted: calls of the lease have no
timeout of their own, and `time.sleep` delays the event loop.

**Lifecycle** (`AgentLifecycle_proofs`). A stray call of the lease means that
the snapshot worker is gone, and while the manager stops, every worker that has
not ended is being cancelled. From it follow `LeaseCallsApart`, `ShutdownWaits`
and `NothingStarts`.

**Only model-checked**: the eight liveness properties (`PollsEnd`,
`QueuedSetsEnd`, `ShutdownEnds`, `EveryRequestEnds`, `ShutdownCompletes`,
`IterationsEnd`, `ProcessExits`, `SnapshotsGoOn`), because reasoning about
fairness needs ENABLED, which the proof system does not support; and the five
statements that the code violates, which are no theorems. The library's
induction theorems cannot be instantiated here, so nothing is proved by
induction over data; the one fact that would ask for it, the least element of a
finite order, is proved from well-foundedness instead.

## What the violated runs say

- `own_conflict`: the client retries an acknowledgement that may have been
  accepted (`agent/clients/base.py:101`); the retry is answered 409, and the
  scheduler drops a set the control plane counts as this agent's. Nobody runs
  it. `TakenSetsAccountedFor` shows that this, the other errors after an
  acknowledgement, and the end of the process are the only ways to lose a set.
- `reported_sets`: `handle_iteration_error` takes every `APIRequestError` for a
  conflict (`agent/workers/scheduler.py:75`; line 76 assigns the status code).
- `publishes_as_holder`: a discovery may take 100 s, the lease lasts 30 s, and
  nothing looks at the lease between the two. `WorksUnderItsGrant` is what does
  hold.
- `workers_survive`: `should_execute` of the snapshot worker calls the
  Kubernetes API outside the error handling of the loop.
- `outlives_shutdown`: a cancelled task leaves its thread running, so a call of
  the lease or a discovery goes on after "All background workers have been shut
  down", and a hung one keeps the process from exiting. `ShutdownWaitsForAll`
  and `ProcessExits` are what does hold.

## Not modelled

- Telemetry and logging (`agent/handlers/telemetry.py`, `agent/logging.py`):
  which event is emitted when is part of `ScenarioAgents` and `SnapshotWorkers`;
  what is this code's own beyond that is the layout of a log line. The rotation
  of the file is Python's, and its reading, retrying and shipping Fluent Bit's,
  configured in the Helm chart.
- Configuration: the bounds of the intervals are `AgentConfig` of
  `SnapshotSchedule`; reading the environment and splitting the list of
  namespaces happen once, before any state exists.
- The mock control plane's endpoints other than listing and acknowledgement:
  they return constants or echo their input.
- Repeated requests inside the Kubernetes client library; the contents of
  scenarios (resilience-lib), which are a success or a failure; what discovery
  reads of a cluster.
- Helm chart, images and examples: deployment files and data.

That host names are looked up in the default executor of the event loop, that
this executor serves its queue in order, and that an interpreter joins its
threads are properties of asyncio, taken from its documentation.

## Plan

Done: `ClaimOrder`, `ClaimSetDelivery` and `ScenarioAgents`; `RequestContract`
and `AuthorizedRequests`; `LeaderLease`, `KubernetesLease` and `SnapshotWorkers`;
`SnapshotSchedule`; `AgentLifecycle`; the three refinements, the promises of the
three abstract specifications, and the safety and action properties of all runs,
proved. What could follow, in this order:

1. An abstract specification of `AgentLifecycle` (start, signal, drain, exit)
   and its refinement, so that shutdown is stated without pool and threads.
2. A timed refinement of `SnapshotWorkers`: under a bound on discovery and
   publication below the lease, the publisher is the holder.
3. `ScenarioAgents` over `RequestContract` by an instance per acknowledgement,
   in place of its own attempts and late requests.
