------------------------ MODULE AgentLifecycle_proofs ------------------------
(***************************************************************************)
(* AgentLifecycle for any workers and any size of the pool: IInv is        *)
(* inductive, and the safety properties follow.                            *)
(***************************************************************************)
EXTENDS AgentLifecycle, TLAPS

USE AgentLifecycleAssumption

Places == {"new", "sleep", "check", "iterate", "done", "failed", "cancelled"}

-----------------------------------------------------------------------------

LEMMA NoJobIsAJob == NoJob \in Jobs /\ NoJob.state = "none" /\ NoJob.kind # "lease"
  BY DEF NoJob, Jobs, Kinds

LEMMA InitIInv == Init => IInv
<1> SUFFICES ASSUME Init PROVE IInv
  OBVIOUS
<1>1. \A w \in Workers : job[w] = NoJob /\ at[w] = "new"
  BY DEF Init
<1>2. TypeOK
  BY NoJobIsAJob DEF Init, TypeOK
<1>3. JobsBelong
  BY <1>1, NoJobIsAJob DEF Init, JobsBelong
<1>4. stray["lease"] = 0
  BY DEF Init, Kinds
<1> QED
  BY <1>2, <1>3, <1>4 DEF Init, IInv, StoppingCancels, ShutdownWaitsForAll

(* A task goes from one place to another and keeps, gets or loses a call;
   neither the threads nor the lifecycle take part. *)
LEMMA TaskMoves ==
  ASSUME IInv, NEW w \in Workers, MayStep(w), ~Ended(w), NEW p \in Places,
         NEW j \in Jobs,
         at' = [at EXCEPT ![w] = p], job' = [job EXCEPT ![w] = j],
         p = "check" => w = Snapshot /\ j.kind = "lease",
         j.state # "none" => p \in {"check", "iterate"},
         j.kind = "lease" /\ j.state # "none" => w = Snapshot,
         UNCHANGED <<phase, event, cancelling, stray>>
  PROVE  IInv'
<1> USE DEF IInv
<1>1. /\ at' \in [Workers -> Places] /\ at'[w] = p
      /\ job' \in [Workers -> Jobs] /\ job'[w] = j
      /\ \A v \in Workers : v # w => at'[v] = at[v] /\ job'[v] = job[v]
  BY DEF TypeOK, Places
<1>2. TypeOK'
  BY <1>1 DEF TypeOK, Places
<1>3. phase = "running"
  BY DEF MayStep, StoppingCancels, ShutdownWaitsForAll, TypeOK
<1>4. JobsBelong'
  <2> SUFFICES ASSUME NEW v \in Workers
               PROVE  (/\ at[v] = "check" => v = Snapshot /\ job[v].kind = "lease"
                       /\ job[v].state # "none" => at[v] \in {"check", "iterate"}
                       /\ job[v].kind = "lease" /\ job[v].state # "none" => v = Snapshot
                       /\ v \in cancelling => ~Ended(v))'
    BY DEF JobsBelong
  <2>1. CASE v = w
    BY <1>1, <2>1 DEF MayStep
  <2>2. CASE v # w
    BY <1>1, <2>2 DEF JobsBelong, Ended
  <2> QED
    BY <2>1, <2>2
<1>5. StoppingCancels' /\ ShutdownWaitsForAll'
  BY <1>3 DEF StoppingCancels, ShutdownWaitsForAll
<1>6. stray["lease"] > 0 => Ended(Snapshot)'
  BY <1>1 DEF Ended
<1> QED
  BY <1>2, <1>4, <1>5, <1>6

(* A task that keeps its place changes its call. *)
LEMMA JobChanges ==
  ASSUME IInv, NEW w \in Workers, MayStep(w), ~Ended(w), NEW j \in Jobs,
         job' = [job EXCEPT ![w] = j],
         at[w] = "check" => j.kind = "lease",
         j.state # "none" => at[w] \in {"check", "iterate"},
         j.kind = "lease" /\ j.state # "none" => w = Snapshot,
         UNCHANGED <<phase, event, at, cancelling, stray>>
  PROVE  IInv'
<1>1. at' = [at EXCEPT ![w] = at[w]] /\ at[w] \in Places
  BY DEF IInv, TypeOK, Places
<1>2. at[w] = "check" => w = Snapshot
  BY DEF IInv, JobsBelong
<1> QED
  BY <1>1, <1>2, TaskMoves

LEMMA StartsKeepsIInv ==
  ASSUME IInv, NEW w \in Workers, Starts(w)
  PROVE  IInv'
<1>1. job' = [job EXCEPT ![w] = job[w]] /\ job[w] \in Jobs /\ job[w].state = "none"
  BY DEF Starts, IInv, TypeOK, JobsBelong, Jobs
<1>2. PICK p \in {"done", "sleep"} : at' = [at EXCEPT ![w] = p]
  BY DEF Starts, NextRound
<1> QED
  BY <1>1, <1>2, TaskMoves DEF Starts, Ended, Places

LEMMA WakesKeepsIInv ==
  ASSUME IInv, NEW w \in Workers, Wakes(w)
  PROVE  IInv'
<1>1. job[w] \in Jobs /\ job[w].state = "none" /\ job = [job EXCEPT ![w] = job[w]]
  BY DEF Wakes, IInv, TypeOK, JobsBelong
<1>2. ASSUME NEW p \in {"done", "sleep", "iterate"},
             at' = [at EXCEPT ![w] = p], UNCHANGED job
      PROVE  IInv'
  BY <1>1, <1>2, TaskMoves DEF Wakes, Ended, Places
<1>3. CASE /\ w = Snapshot
           /\ at' = [at EXCEPT ![w] = "check"]
           /\ Submits(w, "lease")
  <2> DEFINE j == [kind |-> "lease", state |-> "queued"]
  <2>1. j \in Jobs /\ job' = [job EXCEPT ![w] = j]
    BY <1>3 DEF Submits, Jobs, Kinds
  <2> QED
    BY <1>3, <2>1, TaskMoves DEF Wakes, Ended, Places
<1> QED
  BY <1>2, <1>3 DEF Wakes, NextRound

LEMMA CallsThreadKeepsIInv ==
  ASSUME IInv, NEW w \in Workers, CallsThread(w)
  PROVE  IInv'
<1>1. PICK kind \in IF w = Snapshot THEN Kinds ELSE {"lookup"} : Submits(w, kind)
  BY DEF CallsThread
<1> DEFINE j == [kind |-> kind, state |-> "queued"]
<1>2. j \in Jobs /\ job' = [job EXCEPT ![w] = j] /\ (kind = "lease" => w = Snapshot)
  BY <1>1 DEF Submits, Jobs, Kinds
<1> QED
  BY <1>2, JobChanges DEF CallsThread, Ended

LEMMA IterationEndsKeepsIInv ==
  ASSUME IInv, NEW w \in Workers, IterationEnds(w)
  PROVE  IInv'
<1>1. job' = [job EXCEPT ![w] = job[w]] /\ job[w] \in Jobs /\ job[w].state = "none"
  BY DEF IterationEnds, IInv, TypeOK
<1>2. PICK p \in {"done", "sleep", "failed"} : at' = [at EXCEPT ![w] = p]
  BY DEF IterationEnds, NextRound
<1> QED
  BY <1>1, <1>2, TaskMoves DEF IterationEnds, Ended, Places

LEMMA CallReturnsKeepsIInv ==
  ASSUME IInv, NEW w \in Workers, CallReturns(w)
  PROVE  IInv'
<1>1. ~Ended(w)
  BY DEF CallReturns, Ended
<1>2. CASE at[w] = "iterate" /\ UNCHANGED at
  BY <1>1, <1>2, NoJobIsAJob, JobChanges DEF CallReturns
<1>3. ASSUME NEW p \in {"done", "sleep", "iterate", "failed"}, at' = [at EXCEPT ![w] = p]
      PROVE  IInv'
  BY <1>1, <1>3, NoJobIsAJob, TaskMoves DEF CallReturns, Places
<1> QED
  BY <1>2, <1>3 DEF CallReturns, NextRound

(* A call that times out is not one of the lease, so no lease call is left. *)
LEMMA TimesOutKeepsIInv ==
  ASSUME IInv, NEW w \in Workers, TimesOut(w)
  PROVE  IInv'
<1> USE DEF IInv
<1>1. /\ job' \in [Workers -> Jobs] /\ job'[w] = NoJob
      /\ \A v \in Workers : v # w => job'[v] = job[v]
  BY NoJobIsAJob DEF TimesOut, Abandons, TypeOK
<1>2. job[w].kind \in Kinds \ {"lease"} /\ at[w] = "iterate"
  BY DEF TimesOut, JobsBelong, TypeOK, Jobs
<1>3. stray' \in [Kinds -> Nat] /\ stray'["lease"] = stray["lease"]
  BY <1>2 DEF TimesOut, Abandons, TypeOK, Kinds
<1>4. TypeOK'
  BY <1>1, <1>3 DEF TypeOK, TimesOut
<1>5. JobsBelong'
  <2> SUFFICES ASSUME NEW v \in Workers
               PROVE  (/\ at[v] = "check" => v = Snapshot /\ job[v].kind = "lease"
                       /\ job[v].state # "none" => at[v] \in {"check", "iterate"}
                       /\ job[v].kind = "lease" /\ job[v].state # "none" => v = Snapshot
                       /\ v \in cancelling => ~Ended(v))'
    BY DEF JobsBelong
  <2>1. CASE v = w
    BY <1>1, <1>2, <2>1, NoJobIsAJob DEF TimesOut, Ended
  <2>2. CASE v # w
    BY <1>1, <2>2 DEF JobsBelong, Ended, TimesOut
  <2> QED
    BY <2>1, <2>2
<1>6. ShutdownWaitsForAll'
  BY <1>1, NoJobIsAJob DEF ShutdownWaitsForAll, TimesOut, Ended
<1> QED
  BY <1>3, <1>4, <1>5, <1>6 DEF TimesOut, StoppingCancels, Ended

(* The first call of the lease that becomes a stray is also the last. *)
LEMMA CancelledKeepsIInv ==
  ASSUME IInv, NEW w \in Workers, Cancelled(w)
  PROVE  IInv'
<1> USE DEF IInv
<1>1. /\ job' \in [Workers -> Jobs] /\ job'[w] = NoJob
      /\ \A v \in Workers : v # w => job'[v] = job[v]
  BY NoJobIsAJob DEF Cancelled, Abandons, TypeOK
<1>2. /\ at' \in [Workers -> Places] /\ at'[w] = "cancelled"
      /\ \A v \in Workers : v # w => at'[v] = at[v]
  BY DEF Cancelled, TypeOK, Places
<1>3. job[w] \in Jobs /\ ~Ended(w)
  BY DEF TypeOK, JobsBelong, Cancelled
<1>4. stray' \in [Kinds -> Nat]
  BY <1>3 DEF Cancelled, Abandons, TypeOK, Jobs
<1>5. TypeOK'
  BY <1>1, <1>2, <1>4 DEF TypeOK, Cancelled, Places
<1>6. JobsBelong'
  <2> SUFFICES ASSUME NEW v \in Workers
               PROVE  (/\ at[v] = "check" => v = Snapshot /\ job[v].kind = "lease"
                       /\ job[v].state # "none" => at[v] \in {"check", "iterate"}
                       /\ job[v].kind = "lease" /\ job[v].state # "none" => v = Snapshot
                       /\ v \in cancelling => ~Ended(v))'
    BY DEF JobsBelong
  <2>1. CASE v = w
    BY <1>1, <1>2, <2>1, NoJobIsAJob DEF Cancelled
  <2>2. CASE v # w
    BY <1>1, <1>2, <2>2 DEF JobsBelong, Ended, Cancelled
  <2> QED
    BY <2>1, <2>2
<1>7. StoppingCancels'
  <2>1. \A v \in Workers : Ended(v)' <=> Ended(v) \/ v = w
    BY <1>2 DEF Ended
  <2> QED
    BY <2>1 DEF StoppingCancels, Cancelled
<1>8. ShutdownWaitsForAll'
  BY <1>1, <1>2, NoJobIsAJob DEF ShutdownWaitsForAll, Cancelled, Ended
<1>9. stray'["lease"] <= 1 /\ (stray'["lease"] > 0 => Ended(Snapshot)')
  <2>1. CASE job[w].kind = "lease" /\ job[w].state = "running"
    <3>1. w = Snapshot
      BY <2>1 DEF JobsBelong
    <3>2. stray["lease"] = 0
      BY <1>3, <3>1 DEF TypeOK, Kinds
    <3>3. stray'["lease"] = 1
      BY <2>1, <3>2 DEF Cancelled, Abandons, TypeOK, Kinds
    <3> QED
      BY <1>2, <3>1, <3>3 DEF Ended
  <2>2. CASE ~(job[w].kind = "lease" /\ job[w].state = "running")
    <3>1. stray'["lease"] = stray["lease"]
      BY <1>3, <2>2 DEF Cancelled, Abandons, TypeOK, Kinds, Jobs
    <3> QED
      BY <1>2, <3>1 DEF Ended
  <2> QED
    BY <2>1, <2>2
<1> QED
  BY <1>5, <1>6, <1>7, <1>8, <1>9

LEMMA PoolStartsKeepsIInv ==
  ASSUME IInv, NEW w \in Workers, PoolStarts(w)
  PROVE  IInv'
<1> USE DEF IInv
<1>1. job[w] \in Jobs /\ job[w].state = "queued"
  BY DEF TypeOK, PoolStarts
<1> DEFINE j == [kind |-> job[w].kind, state |-> "running"]
<1>2. /\ job' \in [Workers -> Jobs] /\ job'[w] = j
      /\ \A v \in Workers : v # w => job'[v] = job[v]
  BY <1>1 DEF PoolStarts, TypeOK, Jobs
<1>3. TypeOK'
  BY <1>2 DEF TypeOK, PoolStarts
<1>4. JobsBelong'
  <2> SUFFICES ASSUME NEW v \in Workers
               PROVE  (/\ at[v] = "check" => v = Snapshot /\ job[v].kind = "lease"
                       /\ job[v].state # "none" => at[v] \in {"check", "iterate"}
                       /\ job[v].kind = "lease" /\ job[v].state # "none" => v = Snapshot
                       /\ v \in cancelling => ~Ended(v))'
    BY DEF JobsBelong
  <2>1. job'[v].kind = job[v].kind /\ (job'[v].state # "none" => job[v].state # "none")
    BY <1>1, <1>2
  <2>2. UNCHANGED <<at, cancelling>>
    BY DEF PoolStarts
  <2> QED
    BY <2>1, <2>2 DEF JobsBelong, Ended
<1>5. ShutdownWaitsForAll'
  BY <1>1, <1>2 DEF ShutdownWaitsForAll, PoolStarts, Ended
<1> QED
  BY <1>3, <1>4, <1>5 DEF PoolStarts, StoppingCancels, Ended

LEMMA StrayEndsKeepsIInv ==
  ASSUME IInv, NEW k \in Kinds, StrayEnds(k)
  PROVE  IInv'
<1> USE DEF IInv
<1>1. stray' \in [Kinds -> Nat] /\ stray'["lease"] <= stray["lease"] /\ stray["lease"] \in Nat
  BY DEF StrayEnds, TypeOK, Kinds
<1>2. stray'["lease"] \in Nat
  BY <1>1 DEF Kinds
<1> QED
  BY <1>1, <1>2 DEF StrayEnds, TypeOK, JobsBelong, StoppingCancels, ShutdownWaitsForAll, Ended

LEMMA LifecycleKeepsIInv ==
  ASSUME IInv, Signal \/ Shutdown \/ Completes \/ Exits
  PROVE  IInv'
<1> USE DEF IInv
<1>1. CASE Signal
  BY <1>1 DEF Signal, TypeOK, JobsBelong, StoppingCancels, ShutdownWaitsForAll, Ended
<1>2. CASE Shutdown
  BY <1>2 DEF Shutdown, TypeOK, JobsBelong, StoppingCancels, ShutdownWaitsForAll, Ended
<1>3. CASE Completes
  <2>1. \A w \in Workers : job[w].state = "none"
    BY <1>3 DEF Completes, JobsBelong, Ended, TypeOK, Jobs
  <2> QED
    BY <1>3, <2>1 DEF Completes, TypeOK, JobsBelong, StoppingCancels, ShutdownWaitsForAll, Ended
<1>4. CASE Exits
  BY <1>4 DEF Exits, TypeOK, JobsBelong, StoppingCancels, ShutdownWaitsForAll, Ended
<1> QED
  BY <1>1, <1>2, <1>3, <1>4

LEMMA KillKeepsIInv == IInv /\ Kill => IInv'
<1> SUFFICES ASSUME IInv, Kill PROVE IInv'
  OBVIOUS
<1> USE DEF IInv
<1>1. \A w \in Workers : at'[w] \in {"done", "failed", "cancelled"} /\ job'[w] = NoJob
  BY DEF Kill, Ended
<1>2. TypeOK'
  BY NoJobIsAJob DEF Kill, TypeOK, Ended
<1>3. stray'["lease"] = 0
  BY DEF Kill, Kinds
<1> QED
  BY <1>1, <1>2, <1>3, NoJobIsAJob
  DEF Kill, JobsBelong, StoppingCancels, ShutdownWaitsForAll, Ended

-----------------------------------------------------------------------------
(* Every step *)

LEMMA NextIInv == IInv /\ [Next]_vars => IInv'
<1> SUFFICES ASSUME IInv, [Next]_vars PROVE IInv'
  OBVIOUS
<1>1. CASE Signal \/ Shutdown \/ Completes \/ Exits \/ Kill
  BY <1>1, LifecycleKeepsIInv, KillKeepsIInv
<1>2. ASSUME NEW w \in Workers,
             \/ Starts(w) \/ Wakes(w) \/ CallsThread(w) \/ IterationEnds(w)
             \/ CallReturns(w) \/ TimesOut(w) \/ Cancelled(w) \/ PoolStarts(w)
      PROVE  IInv'
  BY <1>2, StartsKeepsIInv, WakesKeepsIInv, CallsThreadKeepsIInv, IterationEndsKeepsIInv,
     CallReturnsKeepsIInv, TimesOutKeepsIInv, CancelledKeepsIInv, PoolStartsKeepsIInv
<1>3. ASSUME NEW k \in Kinds, StrayEnds(k) PROVE IInv'
  BY <1>3, StrayEndsKeepsIInv
<1>4. CASE UNCHANGED vars
  BY <1>4 DEF vars, IInv, TypeOK, JobsBelong, StoppingCancels, ShutdownWaitsForAll, Ended
<1> QED
  BY <1>1, <1>2, <1>3, <1>4 DEF Next

(* The inductive invariant holds in every reachable state. *)
THEOREM Invariance == Spec => []IInv
<1> QED
  BY InitIInv, NextIInv, PTL DEF Spec

(* One call of the lease at a time in a process, stray ones included. *)
THEOREM LeaseCallsApart == Spec => []LeaseCallsDoNotOverlap
<1>1. IInv => LeaseCallsDoNotOverlap
  BY DEF IInv, JobsBelong, LeaseCallsDoNotOverlap, Ended
<1> QED
  BY <1>1, Invariance, PTL

(* The shutdown is complete when every task is. *)
THEOREM ShutdownWaits == Spec => []ShutdownWaitsForAll
<1>1. IInv => ShutdownWaitsForAll
  BY DEF IInv
<1> QED
  BY <1>1, Invariance, PTL

(* What a worker may do in one step after the signal. *)
LEMMA TaskStep ==
  ASSUME IInv, [Next]_vars, NEW w \in Workers
  PROVE  \/ at'[w] \in {at[w], "done", "cancelled"}
         \/ MayStep(w) /\ ~Ended(w) /\ at[w] \notin {"new", "sleep"}
         \/ ~event /\ phase = "running"
<1> USE DEF IInv
<1>1. at[w] \in Places
  BY DEF TypeOK, Places
<1>2. ASSUME NEW v \in Workers,
             \/ Starts(v) \/ Wakes(v) \/ CallsThread(v) \/ IterationEnds(v)
             \/ CallReturns(v) \/ TimesOut(v) \/ Cancelled(v) \/ PoolStarts(v)
      PROVE  \/ at'[w] \in {at[w], "done", "cancelled"}
             \/ MayStep(w) /\ ~Ended(w) /\ at[w] \notin {"new", "sleep"}
             \/ ~event /\ phase = "running"
  <2>1. CASE v # w
    <3>1. at'[w] = at[w]
      BY <1>2, <2>1 DEF TypeOK, Starts, Wakes, CallsThread, IterationEnds, CallReturns,
         TimesOut, Cancelled, PoolStarts, NextRound
    <3> QED
      BY <3>1
  <2>2. CASE v = w /\ (Starts(w) \/ Wakes(w))
    <3>1. ~Ended(w) /\ MayStep(w)
      BY <2>2 DEF Starts, Wakes, Ended
    <3>2. event => at'[w] \in {"done"}
      BY <2>2 DEF Starts, Wakes, NextRound, TypeOK
    <3>3. ~event => phase = "running"
      BY <3>1 DEF MayStep, StoppingCancels, TypeOK, ShutdownWaitsForAll
    <3> QED
      BY <3>2, <3>3 DEF TypeOK
  <2>3. CASE v = w /\ (CallsThread(w) \/ TimesOut(w) \/ PoolStarts(w))
    BY <2>3 DEF CallsThread, TimesOut, PoolStarts
  <2>4. CASE v = w /\ (IterationEnds(w) \/ CallReturns(w))
    <3>1. MayStep(w)
      BY <2>4 DEF IterationEnds, CallReturns
    <3>2. at[w] \in {"check", "iterate"}
      BY <2>4 DEF IterationEnds, CallReturns
    <3> QED
      BY <3>1, <3>2 DEF Ended
  <2>5. CASE v = w /\ Cancelled(w)
    BY <2>5 DEF Cancelled, TypeOK
  <2> QED
    BY <1>2, <2>1, <2>2, <2>3, <2>4, <2>5
<1>3. CASE Signal \/ Shutdown \/ Completes \/ Exits \/ UNCHANGED vars
  BY <1>3 DEF Signal, Shutdown, Completes, Exits, vars
<1>4. CASE Kill
  BY <1>4 DEF Kill
<1>5. ASSUME NEW k \in Kinds, StrayEnds(k) PROVE at'[w] = at[w]
  BY <1>5 DEF StrayEnds
<1> QED
  BY <1>2, <1>3, <1>4, <1>5 DEF Next

(* A signal or a shutdown leaves a worker nothing but its end. *)
THEOREM NothingStarts == Spec => NothingStartsAfterShutdown
<1>1. IInv /\ [Next]_vars =>
        [\A w \in Workers :
           (event /\ at[w] \in {"new", "sleep"}) \/ phase # "running"
             => at'[w] \in {at[w], "done", "cancelled"}]_vars
  <2> SUFFICES ASSUME IInv, [Next]_vars, NEW w \in Workers,
                      (event /\ at[w] \in {"new", "sleep"}) \/ phase # "running"
               PROVE  at'[w] \in {at[w], "done", "cancelled"}
    OBVIOUS
  <2>1. phase # "running" /\ MayStep(w) => Ended(w)
    BY DEF IInv, TypeOK, StoppingCancels, ShutdownWaitsForAll, MayStep
  <2> QED
    BY <2>1, TaskStep
<1> QED
  BY <1>1, Invariance, PTL DEF Spec, NothingStartsAfterShutdown
=============================================================================
