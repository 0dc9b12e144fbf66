--------------------------- MODULE SnapshotSchedule ---------------------------
(***************************************************************************)
(* When the snapshot workers of a fleet get to work (workers/snapshot.py,  *)
(* workers/heartbeat.py, core/worker.py): each sleeps for a short interval *)
(* a few times after its start and for hours afterwards, and lets a round  *)
(* go by when its agent is unhealthy or another agent holds the lease.     *)
(*                                                                         *)
(* Times are counted down by Tick. The lease is judged without skew and    *)
(* asked for in one step; KubernetesLease has the details. waiting and     *)
(* prompt are history variables; waiting is counted up to MaxWait. An      *)
(* error of the lease call ends a worker for good while its agent stays    *)
(* healthy: what the model bounds is the wait of agents whose worker runs. *)
(***************************************************************************)
EXTENDS Integers

CONSTANTS
  Agents,
  Nobody,
  STARTUP_RETRY_LIMIT,
  STARTUP_RETRY_INTERVAL,
  namespace_snapshot_interval,
  heartbeat_interval,
  LeaseDuration,
  BatchTime,     \* bound on the time from a grant to the next request or the end
  Delay,         \* bound on how late the event loop is with whatever is due
  MaxWait        \* bound of the counter waiting, above every wait that is claimed bounded

\* What AgentConfig lets through: its lower bounds, 30 for heartbeats and 10800
\* for snapshots, are above zero and the startup interval.
AgentConfig ==
  /\ heartbeat_interval \in Nat \ {0}
  /\ namespace_snapshot_interval \in Nat
  /\ namespace_snapshot_interval >= STARTUP_RETRY_INTERVAL

\* The longer of a lease and a batch that starts late.
Slack == IF LeaseDuration > BatchTime + Delay THEN LeaseDuration ELSE BatchTime + Delay

ASSUME SnapshotScheduleAssumption ==
  /\ Nobody \notin Agents
  /\ STARTUP_RETRY_LIMIT \in Nat \ {0}
  /\ STARTUP_RETRY_INTERVAL \in Nat \ {0}
  /\ AgentConfig
  /\ LeaseDuration \in Nat /\ BatchTime \in Nat /\ Delay \in Nat
  /\ MaxWait \in Nat /\ MaxWait > namespace_snapshot_interval + Slack + Delay

VARIABLES
  at,         \* at[a]: the worker sleeps, works, or has died
  due,        \* due[a]: time until it goes on, negative when it is late
  attempts,   \* _startup_retry_attempts
  succeeded,  \* _has_succeeded_once
  healthy,    \* is_healthy
  beat,       \* beat[a]: time until the next heartbeat is answered
  holder,
  left,       \* time until the lease expires
  waiting,    \* waiting[a]: how long a has been healthy with no grant to anyone
  prompt      \* prompt[a]: since its start a lost no heartbeat and nobody got the lease

worker == <<at, due, attempts, succeeded>>
lease == <<holder, left>>
vars == <<at, due, attempts, succeeded, healthy, beat, holder, left, waiting, prompt>>

TypeOK ==
  /\ at \in [Agents -> {"sleep", "work", "dead"}]
  /\ due \in [Agents -> Int]
  /\ attempts \in [Agents -> 1 .. STARTUP_RETRY_LIMIT]
  /\ succeeded \in [Agents -> BOOLEAN]
  /\ healthy \in [Agents -> BOOLEAN]
  /\ beat \in [Agents -> Int]
  /\ holder \in Agents \cup {Nobody}
  /\ left \in Nat
  /\ waiting \in [Agents -> 0 .. MaxWait]
  /\ prompt \in [Agents -> BOOLEAN]

\* Every worker sleeps first, and the health of its agent is unknown.
Init ==
  /\ at = [a \in Agents |-> "sleep"]
  /\ due = [a \in Agents |-> STARTUP_RETRY_INTERVAL]
  /\ attempts = [a \in Agents |-> 1]
  /\ succeeded = [a \in Agents |-> FALSE]
  /\ healthy = [a \in Agents |-> FALSE]
  /\ beat = [a \in Agents |-> heartbeat_interval]
  /\ holder = Nobody
  /\ left = 0
  /\ waiting = [a \in Agents |-> 0]
  /\ prompt = [a \in Agents |-> TRUE]

-----------------------------------------------------------------------------

Longer(wait) == IF wait < MaxWait THEN wait + 1 ELSE wait

Tick ==
  /\ \A a \in Agents : due[a] > -Delay \/ at[a] = "dead"
  /\ \A a \in Agents : beat[a] > -Delay
  /\ due' = [a \in Agents |-> IF at[a] = "dead" THEN due[a] ELSE due[a] - 1]
  /\ beat' = [a \in Agents |-> beat[a] - 1]
  /\ left' = IF left > 0 THEN left - 1 ELSE 0
  /\ waiting' = [a \in Agents |-> IF healthy[a] THEN Longer(waiting[a]) ELSE 0]
  /\ UNCHANGED <<at, attempts, succeeded, healthy, holder, prompt>>

\* Faulty form of StartsFast: one short interval less.
StartsFastOnceLess(a, done) == ~done /\ attempts[a] + 1 < STARTUP_RETRY_LIMIT

\* execution_interval, with the count of the attempts it makes.
StartsFast(a, done) == ~done /\ attempts[a] < STARTUP_RETRY_LIMIT

Sleeps(a, done) ==
  /\ at' = [at EXCEPT ![a] = "sleep"]
  /\ succeeded' = [succeeded EXCEPT ![a] = done]
  /\ IF StartsFast(a, done)
     THEN /\ attempts' = [attempts EXCEPT ![a] = @ + 1]
          /\ due' = [due EXCEPT ![a] = STARTUP_RETRY_INTERVAL]
     ELSE /\ due' = [due EXCEPT ![a] = namespace_snapshot_interval]
          /\ UNCHANGED attempts

Beat(a) ==
  /\ beat[a] <= 0
  /\ beat' = [beat EXCEPT ![a] = heartbeat_interval]
  /\ \E ok \in BOOLEAN :
       /\ healthy' = [healthy EXCEPT ![a] = ok]
       /\ waiting' = IF ok THEN waiting ELSE [waiting EXCEPT ![a] = 0]
       /\ prompt' = [prompt EXCEPT ![a] = @ /\ ok]
  /\ UNCHANGED <<worker, lease>>

-----------------------------------------------------------------------------
(* A round of the worker *)

\* Faulty form of MayLead: a lease outlives its holder.
MayLeadIfNew(a) == holder \in {a, Nobody}

MayLead(a) == holder = a \/ left = 0

\* The lease is taken or renewed, and whatever comes next takes at most BatchTime.
Granted(a) ==
  /\ MayLead(a)
  /\ holder' = a
  /\ left' = LeaseDuration
  /\ at' = [at EXCEPT ![a] = "work"]
  /\ due' = [due EXCEPT ![a] = BatchTime]
  /\ waiting' = [b \in Agents |-> 0]
  /\ prompt' = [b \in Agents |-> FALSE]
  /\ UNCHANGED <<attempts, succeeded, healthy, beat>>

Refused(a) ==
  /\ ~MayLead(a)
  /\ Sleeps(a, succeeded[a])
  /\ UNCHANGED <<healthy, beat, lease, waiting, prompt>>

Wakes(a) == at[a] = "sleep" /\ due[a] <= 0

SkipsUnhealthy(a) ==
  /\ Wakes(a)
  /\ ~healthy[a]
  /\ Sleeps(a, succeeded[a])
  /\ UNCHANGED <<healthy, beat, lease, waiting, prompt>>

Checks(a) ==
  /\ Wakes(a)
  /\ healthy[a]
  /\ Granted(a) \/ Refused(a)

\* An error of the lease call in should_execute ends the task; the agent goes
\* on and stays healthy.
CheckRaises(a) ==
  /\ Wakes(a)
  /\ healthy[a]
  /\ at' = [at EXCEPT ![a] = "dead"]
  /\ UNCHANGED <<due, attempts, succeeded, healthy, beat, lease, waiting, prompt>>

\* _ensure_leadership, at the start of the iteration and before every batch.
EnsureLeadership(a) ==
  /\ at[a] = "work"
  /\ Granted(a) \/ Refused(a)

\* handle_iteration_success or handle_iteration_error
IterationEnds(a) ==
  /\ at[a] = "work"
  /\ \E ok \in BOOLEAN : Sleeps(a, succeeded[a] \/ ok)
  /\ UNCHANGED <<healthy, beat, lease, waiting, prompt>>

\* The process comes back under its identity or, in a new pod, under another.
Restarts(a) ==
  /\ holder' \in IF holder = a THEN {a, Nobody} ELSE {holder}
  /\ at' = [at EXCEPT ![a] = "sleep"]
  /\ due' = [due EXCEPT ![a] = STARTUP_RETRY_INTERVAL]
  /\ attempts' = [attempts EXCEPT ![a] = 1]
  /\ succeeded' = [succeeded EXCEPT ![a] = FALSE]
  /\ healthy' = [healthy EXCEPT ![a] = FALSE]
  /\ beat' = [beat EXCEPT ![a] = heartbeat_interval]
  /\ waiting' = [waiting EXCEPT ![a] = 0]
  /\ prompt' = [prompt EXCEPT ![a] = TRUE]
  /\ UNCHANGED left

Next ==
  \/ Tick
  \/ \E a \in Agents :
       \/ Beat(a) \/ SkipsUnhealthy(a) \/ Checks(a) \/ CheckRaises(a)
       \/ EnsureLeadership(a) \/ IterationEnds(a) \/ Restarts(a)

Spec == Init /\ [][Next]_vars

-----------------------------------------------------------------------------
(* Properties *)

(* While an agent is healthy and its snapshot worker runs, whatever happens to
   the others, the fleet is never without a round for longer than the
   interval, the lease or batch before it, and a delay: such a worker lets a
   round go by for hours only when another one has just got the lease. A
   healthy agent whose worker died of an error of the lease call is outside
   the bound; when every worker has, the fleet waits for ever. *)
RoundsKeepComing ==
  \A a \in Agents :
    at[a] # "dead" => waiting[a] <= namespace_snapshot_interval + Slack + Delay

\* The startup retries go on past the first heartbeat, and no lease from
\* before the start does.
RetriesOutlastHeartbeat ==
  /\ heartbeat_interval + Delay < STARTUP_RETRY_LIMIT * STARTUP_RETRY_INTERVAL
  /\ LeaseDuration <= heartbeat_interval

(* An agent that starts when nobody else leads, and whose heartbeats are
   answered, gets to its first round a startup interval after the first
   heartbeat, unless its worker dies of an error of that round's lease call:
   with intervals as RetriesOutlastHeartbeat has them, the attempts it spends
   while its health is unknown do not use up the startup retries. With a longer
   heartbeat interval or a lease left by another agent they may, and then only
   RoundsKeepComing bounds the wait. *)
FirstRoundIsFast ==
  RetriesOutlastHeartbeat =>
    \A a \in Agents :
      prompt[a] /\ healthy[a] /\ at[a] # "dead" =>
        waiting[a] <= STARTUP_RETRY_INTERVAL + Delay

-----------------------------------------------------------------------------
(* Inductive invariant *)

\* Nothing is later than Delay, and the lease remembers the latest grant.
Timely ==
  /\ \A a \in Agents : at[a] # "dead" => due[a] >= -Delay
  /\ \A a \in Agents : beat[a] >= -Delay
  /\ \A a \in Agents : left > 0 => waiting[a] + left <= LeaseDuration

WaitIsBounded ==
  \A a \in Agents :
    /\ at[a] = "work" => waiting[a] + due[a] <= BatchTime
    /\ at[a] = "sleep" => waiting[a] + due[a] <= namespace_snapshot_interval + Slack
    /\ ~healthy[a] => waiting[a] = 0

\* Before the first heartbeat the attempts made are those there was time for.
PromptUntilHeartbeat ==
  \A a \in Agents : prompt[a] /\ ~healthy[a] =>
    /\ at[a] = "sleep" /\ ~succeeded[a]
    /\ due[a] <= STARTUP_RETRY_INTERVAL
    /\ attempts[a] * STARTUP_RETRY_INTERVAL - due[a] <= heartbeat_interval - beat[a]
    /\ left > 0 => left <= beat[a]

PromptSinceHeartbeat ==
  \A a \in Agents : prompt[a] /\ healthy[a] =>
    /\ at[a] \in {"sleep", "dead"}
    /\ at[a] = "sleep" => left = 0 /\ waiting[a] + due[a] <= STARTUP_RETRY_INTERVAL

(* What the properties rest on: how far each worker is from its next round. *)
IInv ==
  /\ TypeOK
  /\ Timely
  /\ WaitIsBounded
  /\ RetriesOutlastHeartbeat => PromptUntilHeartbeat /\ PromptSinceHeartbeat

=============================================================================
