---------------------------- MODULE AgentLifecycle ----------------------------
(***************************************************************************)
(* One agent process from the start of its workers to its exit             *)
(* (entrypoint.py, core/lifecycle.py, core/manager.py, core/worker.py): a  *)
(* signal sets the shutdown event, the lifecycle manager cancels the       *)
(* worker tasks and waits for all of them, and the interpreter waits for   *)
(* the threads of the event loop's executor. Threads cannot be cancelled:  *)
(* one that nobody waits for any more is a stray until its call returns.   *)
(*                                                                         *)
(* The snapshot worker calls the lease and the discovery in threads; the   *)
(* event loop looks host names up in the same pool, for every worker. What *)
(* an iteration does besides is left to the modules of the workers.        *)
(***************************************************************************)
EXTENDS Integers, FiniteSets

CONSTANTS
  Workers,
  Snapshot,  \* the worker of Workers that runs the snapshots
  PoolSize   \* threads of the default executor

ASSUME AgentLifecycleAssumption ==
  /\ Snapshot \in Workers
  /\ IsFiniteSet(Workers)
  /\ PoolSize \in Nat \ {0}

VARIABLES
  phase,       \* of the lifecycle manager
  event,       \* shutdown_event
  at,          \* at[w]: where the task of w stands
  cancelling,  \* tasks whose cancellation has been requested
  job,         \* job[w]: the call in a thread that w awaits
  stray        \* stray[k]: threads in a call of kind k that nobody awaits

vars == <<phase, event, at, cancelling, job, stray>>

Kinds == {"lease", "discovery", "lookup"}

NoJob == [kind |-> "lookup", state |-> "none"]

Jobs == [kind : Kinds, state : {"none", "queued", "running"}]

Ended(w) == at[w] \in {"done", "failed", "cancelled"}

TypeOK ==
  /\ phase \in {"running", "stopping", "complete", "exited"}
  /\ event \in BOOLEAN
  /\ at \in [Workers -> {"new", "sleep", "check", "iterate", "done", "failed", "cancelled"}]
  /\ cancelling \subseteq Workers
  /\ job \in [Workers -> Jobs]
  /\ stray \in [Kinds -> Nat]

\* start_all_workers has created the tasks; none has had its first step.
Init ==
  /\ phase = "running"
  /\ event = FALSE
  /\ at = [w \in Workers |-> "new"]
  /\ cancelling = {}
  /\ job = [w \in Workers |-> NoJob]
  /\ stray = [k \in Kinds |-> 0]

-----------------------------------------------------------------------------
(* The worker loop *)

MayStep(w) == phase # "exited" /\ w \notin cancelling

\* The loop's condition: another round, or the end of the task.
NextRound(w) == at' = [at EXCEPT ![w] = IF event THEN "done" ELSE "sleep"]

Starts(w) ==
  /\ MayStep(w)
  /\ at[w] = "new"
  /\ NextRound(w)
  /\ UNCHANGED <<phase, event, cancelling, job, stray>>

Submits(w, kind) == job' = [job EXCEPT ![w] = [kind |-> kind, state |-> "queued"]]

\* Faulty form of Wakes: the event is not looked at after the sleep.
WakesUnseeing(w) ==
  /\ MayStep(w)
  /\ at[w] = "sleep"
  /\ \/ NextRound(w) /\ UNCHANGED job
     \/ /\ w # Snapshot
        /\ at' = [at EXCEPT ![w] = "iterate"]
        /\ UNCHANGED job
     \/ /\ w = Snapshot
        /\ at' = [at EXCEPT ![w] = "check"]
        /\ Submits(w, "lease")
  /\ UNCHANGED <<phase, event, cancelling, stray>>

\* The sleep is over: the end of the task, or should_execute, which is False,
\* True, or for the snapshot worker of a healthy agent a call of the lease.
Wakes(w) ==
  /\ MayStep(w)
  /\ at[w] = "sleep"
  /\ \/ NextRound(w) /\ UNCHANGED job
     \/ /\ ~event /\ w # Snapshot
        /\ at' = [at EXCEPT ![w] = "iterate"]
        /\ UNCHANGED job
     \/ /\ ~event /\ w = Snapshot
        /\ at' = [at EXCEPT ![w] = "check"]
        /\ Submits(w, "lease")
  /\ UNCHANGED <<phase, event, cancelling, stray>>

\* An iteration calls the lease or the discovery, or sends a request.
CallsThread(w) ==
  /\ MayStep(w)
  /\ at[w] = "iterate" /\ job[w].state = "none"
  /\ \E kind \in IF w = Snapshot THEN Kinds ELSE {"lookup"} : Submits(w, kind)
  /\ UNCHANGED <<phase, event, at, cancelling, stray>>

\* run_iteration and its handler return, or the handler raises.
IterationEnds(w) ==
  /\ MayStep(w)
  /\ at[w] = "iterate" /\ job[w].state = "none"
  /\ NextRound(w) \/ at' = [at EXCEPT ![w] = "failed"]
  /\ UNCHANGED <<phase, event, cancelling, job, stray>>

\* Faulty form of CallReturns: the lease is called again until it answers.
CallReturnsOrRepeats(w) ==
  /\ MayStep(w)
  /\ job[w].state = "running"
  /\ \/ at[w] = "iterate" /\ job' = [job EXCEPT ![w] = NoJob] /\ UNCHANGED at
     \/ at[w] = "check" /\ job' = [job EXCEPT ![w] = NoJob] /\ NextRound(w)
     \/ at[w] = "check" /\ Submits(w, "lease") /\ UNCHANGED at
  /\ UNCHANGED <<phase, event, cancelling, stray>>

\* The thread's call returns or raises, and its task goes on with it. An error
\* of the lease in should_execute is not handled.
CallReturns(w) ==
  /\ MayStep(w)
  /\ job[w].state = "running"
  /\ job' = [job EXCEPT ![w] = NoJob]
  /\ \/ at[w] = "iterate" /\ UNCHANGED at
     \/ /\ at[w] = "check"
        /\ \/ NextRound(w)
           \/ \E next \in {"iterate", "failed"} : at' = [at EXCEPT ![w] = next]
  /\ UNCHANGED <<phase, event, cancelling, stray>>

\* What becomes of the call when its task gives up: it leaves the queue of the
\* pool, or its thread becomes a stray.
Abandons(w) ==
  /\ job' = [job EXCEPT ![w] = NoJob]
  /\ stray' = IF job[w].state = "running"
              THEN [stray EXCEPT ![job[w].kind] = @ + 1] ELSE stray

\* Faulty form of TimesOut: the call of the lease has a timeout, too.
AnyCallTimesOut(w) ==
  /\ MayStep(w)
  /\ at[w] = "iterate" /\ job[w].state # "none"
  /\ Abandons(w)
  /\ UNCHANGED <<phase, event, at, cancelling>>

\* Faulty form of TimesOut: requests have no timeout.
OnlyDiscoveryTimesOut(w) ==
  /\ MayStep(w)
  /\ job[w].state # "none" /\ job[w].kind = "discovery"
  /\ Abandons(w)
  /\ UNCHANGED <<phase, event, at, cancelling>>

\* A discovery has a timeout and so has a request; a call of the lease has none.
TimesOut(w) ==
  /\ MayStep(w)
  /\ job[w].state # "none" /\ job[w].kind # "lease"
  /\ Abandons(w)
  /\ UNCHANGED <<phase, event, at, cancelling>>

\* CancelledError, raised at the await where the task stands.
Cancelled(w) ==
  /\ phase # "exited"
  /\ w \in cancelling
  /\ at' = [at EXCEPT ![w] = "cancelled"]
  /\ cancelling' = cancelling \ {w}
  /\ Abandons(w)
  /\ UNCHANGED <<phase, event>>

-----------------------------------------------------------------------------
(* The threads *)

Strays == stray["lease"] + stray["discovery"] + stray["lookup"]

Busy == Strays + Cardinality({w \in Workers : job[w].state = "running"})

PoolStarts(w) ==
  /\ phase # "exited"
  /\ job[w].state = "queued"
  /\ Busy < PoolSize
  /\ job' = [job EXCEPT ![w].state = "running"]
  /\ UNCHANGED <<phase, event, at, cancelling, stray>>

StrayEnds(k) ==
  /\ phase # "exited"
  /\ stray[k] > 0
  /\ stray' = [stray EXCEPT ![k] = @ - 1]
  /\ UNCHANGED <<phase, event, at, cancelling, job>>

-----------------------------------------------------------------------------
(* The lifecycle *)

\* SIGINT or SIGTERM, once or again.
Signal ==
  /\ phase # "exited"
  /\ event' = TRUE
  /\ UNCHANGED <<phase, at, cancelling, job, stray>>

\* Faulty form of Shutdown: the tasks are left to notice the event.
ShutdownByEvent ==
  /\ phase = "running" /\ event
  /\ phase' = "stopping"
  /\ UNCHANGED <<event, at, cancelling, job, stray>>

\* The lifecycle manager has seen the event and cancels what has not ended.
Shutdown ==
  /\ phase = "running" /\ event
  /\ phase' = "stopping"
  /\ cancelling' = {w \in Workers : ~Ended(w)}
  /\ UNCHANGED <<event, at, job, stray>>

\* Faulty form of Completes: gather raises with the first task that ends badly.
CompletesEarly ==
  /\ phase = "stopping"
  /\ \E w \in Workers : Ended(w)
  /\ phase' = "complete"
  /\ UNCHANGED <<event, at, cancelling, job, stray>>

\* Faulty form of Completes: a task that has failed is waited for as if it ran.
CompletesIfNoneFailed ==
  /\ phase = "stopping"
  /\ \A w \in Workers : at[w] \in {"done", "cancelled"}
  /\ phase' = "complete"
  /\ UNCHANGED <<event, at, cancelling, job, stray>>

\* gather has the results of all tasks, errors included.
Completes ==
  /\ phase = "stopping"
  /\ \A w \in Workers : Ended(w)
  /\ phase' = "complete"
  /\ UNCHANGED <<event, at, cancelling, job, stray>>

\* asyncio.run returns when the threads of the pool have ended.
Exits ==
  /\ phase = "complete"
  /\ Strays = 0
  /\ phase' = "exited"
  /\ UNCHANGED <<event, at, cancelling, job, stray>>

\* Tasks and threads go with the process.
Kill ==
  /\ phase # "exited"
  /\ phase' = "exited"
  /\ at' = [w \in Workers |-> IF Ended(w) THEN at[w] ELSE "cancelled"]
  /\ cancelling' = {}
  /\ job' = [w \in Workers |-> NoJob]
  /\ stray' = [k \in Kinds |-> 0]
  /\ UNCHANGED event

Next ==
  \/ Signal \/ Shutdown \/ Completes \/ Exits \/ Kill
  \/ \E w \in Workers :
       \/ Starts(w) \/ Wakes(w) \/ CallsThread(w) \/ IterationEnds(w)
       \/ CallReturns(w) \/ TimesOut(w) \/ Cancelled(w) \/ PoolStarts(w)
  \/ \E k \in Kinds : StrayEnds(k)

Spec == Init /\ [][Next]_vars

(* Timers fire, the event loop runs the tasks that are ready, a free thread of
   the pool takes the oldest call, and an iteration makes finitely many calls,
   so that it ends if every one of its awaits does. Nothing is assumed of the
   calls in threads. *)
FairSpec ==
  /\ Spec
  /\ WF_vars(Shutdown) /\ WF_vars(Completes) /\ WF_vars(Exits)
  /\ \A w \in Workers :
       /\ WF_vars(Starts(w)) /\ WF_vars(Wakes(w))
       /\ WF_vars(TimesOut(w)) /\ WF_vars(Cancelled(w))
       /\ SF_vars(IterationEnds(w)) /\ SF_vars(PoolStarts(w))

(* The assumption, for the properties that need it, that no call in a thread
   hangs for ever. *)
CallsEnd ==
  /\ \A w \in Workers : WF_vars(CallReturns(w))
  /\ \A k \in Kinds : WF_vars(StrayEnds(k))

-----------------------------------------------------------------------------
(* Properties *)

(* One thread of a process at most is inside acquire_or_renew_lease: the calls
   of should_execute and of the batches follow each other, and one that outlives
   its task has no successor. KubernetesLease rests on it. *)
LeaseCallsDoNotOverlap ==
  LET waiting == {w \in Workers : job[w].kind = "lease" /\ job[w].state # "none"}
  IN  /\ waiting \subseteq {Snapshot}
      /\ stray["lease"] <= 1
      /\ stray["lease"] > 0 => waiting = {}

(* "Shutdown complete" is said when every task has ended, however each of them
   ended, and none of them has a call that a thread could still start. *)
ShutdownWaitsForAll ==
  phase \in {"complete", "exited"} =>
    \A w \in Workers : Ended(w) /\ job[w].state = "none"

(* After the signal a worker that sleeps starts nothing, and once the shutdown
   has begun no worker does: whatever it was doing, its next step is its end. *)
NothingStartsAfterShutdown ==
  [][\A w \in Workers :
       (event /\ at[w] \in {"new", "sleep"}) \/ phase # "running"
         => at'[w] \in {at[w], "done", "cancelled"}]_vars

(* "Cancel running workers and wait for them to finish": nothing a worker has
   begun is going on when the shutdown is complete. *)
NothingOutlivesShutdown == phase = "complete" => Strays = 0

(* A signal brings the shutdown to its end although calls hang in threads. *)
ShutdownCompletes == event ~> phase \in {"complete", "exited"}

(* Threads that hang, and a pool full of them, may fail the requests of the
   other workers, but do not stop their loops. *)
IterationsEnd ==
  \A w \in Workers \ {Snapshot} : at[w] = "iterate" ~> at[w] # "iterate"

(* If no call hangs for ever, the process ends after a signal, and the snapshot
   worker gets through every round, however full the pool is in between. *)
ProcessExits == CallsEnd => (event ~> phase = "exited")

SnapshotsGoOn ==
  CallsEnd =>
    (at[Snapshot] \in {"check", "iterate"} ~> at[Snapshot] \notin {"check", "iterate"})

-----------------------------------------------------------------------------
(* Inductive invariant *)

\* Only the snapshot worker checks the lease, and only a task that has not
\* ended awaits a call or a cancellation.
JobsBelong ==
  \A w \in Workers :
    /\ at[w] = "check" => w = Snapshot /\ job[w].kind = "lease"
    /\ job[w].state # "none" => at[w] \in {"check", "iterate"}
    /\ job[w].kind = "lease" /\ job[w].state # "none" => w = Snapshot
    /\ w \in cancelling => ~Ended(w)

StoppingCancels ==
  /\ phase \in {"stopping", "complete"} => event
  /\ phase = "stopping" => cancelling = {w \in Workers : ~Ended(w)}

(* What the properties rest on: a stray call of the lease means that its worker
   is gone. *)
IInv ==
  /\ TypeOK
  /\ JobsBelong
  /\ StoppingCancels
  /\ stray["lease"] <= 1
  /\ stray["lease"] > 0 => Ended(Snapshot)
  /\ ShutdownWaitsForAll

=============================================================================
