----------------------- MODULE SnapshotSchedule_proofs -----------------------
(***************************************************************************)
(* SnapshotSchedule for any fleet and any intervals: IInv is inductive,    *)
(* and bounds how long the fleet goes without a round.                     *)
(***************************************************************************)
EXTENDS SnapshotSchedule, TLAPS

USE SnapshotScheduleAssumption DEF AgentConfig

-----------------------------------------------------------------------------
(* Arithmetic *)

LEMMA SlackBounds ==
  /\ Slack \in Nat
  /\ LeaseDuration <= Slack
  /\ BatchTime + Delay <= Slack
  BY DEF Slack

LEMMA OneMoreAttempt ==
  ASSUME NEW k \in Nat
  PROVE  /\ k * STARTUP_RETRY_INTERVAL \in Nat
         /\ (k + 1) * STARTUP_RETRY_INTERVAL
              = k * STARTUP_RETRY_INTERVAL + STARTUP_RETRY_INTERVAL
  OBVIOUS

-----------------------------------------------------------------------------
(* The invariant holds at first and at every step *)

LEMMA InitIInv == Init => IInv
<1> SUFFICES ASSUME Init PROVE IInv
  OBVIOUS
<1>1. TypeOK
  BY DEF Init, TypeOK
<1>2. Timely
  BY DEF Init, Timely
<1>3. WaitIsBounded
  <2>1. 0 + STARTUP_RETRY_INTERVAL <= namespace_snapshot_interval + Slack
    BY SlackBounds
  <2>2. \A a \in Agents :
          at[a] = "sleep" /\ due[a] = STARTUP_RETRY_INTERVAL /\ waiting[a] = 0
    BY DEF Init
  <2> QED
    BY <2>1, <2>2 DEF WaitIsBounded
<1>4. PromptUntilHeartbeat
  BY DEF Init, PromptUntilHeartbeat
<1>5. PromptSinceHeartbeat
  BY DEF Init, PromptSinceHeartbeat
<1> QED
  BY <1>1, <1>2, <1>3, <1>4, <1>5 DEF IInv

LEMMA TickIInv == IInv /\ Tick => IInv'
<1> SUFFICES ASSUME IInv, Tick PROVE IInv'
  OBVIOUS
<1> USE DEF IInv
<1>1. TypeOK'
  BY DEF TypeOK, Tick, Longer
<1>2. Timely'
  BY DEF TypeOK, Timely, Tick, Longer
<1>3. WaitIsBounded'
  BY SlackBounds DEF TypeOK, Timely, WaitIsBounded, Tick, Longer
<1>4. ASSUME RetriesOutlastHeartbeat PROVE PromptUntilHeartbeat'
  <2> SUFFICES ASSUME NEW a \in Agents, prompt[a], ~healthy[a]
               PROVE  /\ at'[a] = "sleep" /\ ~succeeded'[a]
                      /\ due'[a] <= STARTUP_RETRY_INTERVAL
                      /\ attempts'[a] * STARTUP_RETRY_INTERVAL - due'[a]
                           <= heartbeat_interval - beat'[a]
                      /\ left' > 0 => left' <= beat'[a]
    BY DEF Tick, PromptUntilHeartbeat
  <2>1. attempts[a] * STARTUP_RETRY_INTERVAL \in Nat
    BY OneMoreAttempt DEF TypeOK
  <2>2. due'[a] = due[a] - 1 /\ beat'[a] = beat[a] - 1 /\ attempts' = attempts
    BY <1>4 DEF TypeOK, PromptUntilHeartbeat, Tick
  <2>3. attempts[a] * STARTUP_RETRY_INTERVAL - due[a] <= heartbeat_interval - beat[a]
    BY <1>4 DEF PromptUntilHeartbeat
  <2>4. attempts'[a] * STARTUP_RETRY_INTERVAL - due'[a] <= heartbeat_interval - beat'[a]
    BY <2>1, <2>2, <2>3 DEF TypeOK
  <2> QED
    BY <1>4, <2>2, <2>4 DEF TypeOK, PromptUntilHeartbeat, Tick
<1>5. ASSUME RetriesOutlastHeartbeat PROVE PromptSinceHeartbeat'
  BY <1>5 DEF TypeOK, PromptSinceHeartbeat, Tick, Longer
<1> QED
  BY <1>1, <1>2, <1>3, <1>4, <1>5 DEF RetriesOutlastHeartbeat

(* A heartbeat that fails ends the wait and the prompt start; the first one
   that is answered finds the worker on a startup interval and no lease held. *)
LEMMA BeatIInv == ASSUME IInv, NEW a \in Agents, Beat(a) PROVE IInv'
<1> USE DEF IInv
<1> PICK ok \in BOOLEAN :
      /\ healthy' = [healthy EXCEPT ![a] = ok]
      /\ waiting' = IF ok THEN waiting ELSE [waiting EXCEPT ![a] = 0]
      /\ prompt' = [prompt EXCEPT ![a] = @ /\ ok]
  BY DEF Beat
<1>1. /\ beat[a] <= 0
      /\ beat' = [beat EXCEPT ![a] = heartbeat_interval]
      /\ UNCHANGED <<at, due, attempts, succeeded, holder, left>>
  BY DEF Beat, worker, lease
<1>2. /\ waiting' \in [Agents -> 0 .. MaxWait]
      /\ \A b \in Agents : waiting'[b] = IF b = a /\ ~ok THEN 0 ELSE waiting[b]
  BY DEF TypeOK
<1>3. /\ prompt' \in [Agents -> BOOLEAN]
      /\ healthy' \in [Agents -> BOOLEAN]
      /\ prompt'[a] => prompt[a] /\ ok
      /\ healthy'[a] = ok
      /\ \A b \in Agents : b # a => prompt'[b] = prompt[b] /\ healthy'[b] = healthy[b]
  BY DEF TypeOK
<1>4. TypeOK'
  BY <1>1, <1>2, <1>3 DEF TypeOK
<1>5. Timely'
  BY <1>1, <1>2 DEF TypeOK, Timely
<1>6. WaitIsBounded'
  BY <1>1, <1>2, <1>3, SlackBounds DEF TypeOK, WaitIsBounded
<1>7. ASSUME RetriesOutlastHeartbeat PROVE PromptUntilHeartbeat'
  BY <1>1, <1>3, <1>7 DEF TypeOK, PromptUntilHeartbeat
<1>8. ASSUME RetriesOutlastHeartbeat PROVE PromptSinceHeartbeat'
  <2> SUFFICES ASSUME NEW b \in Agents, prompt'[b], healthy'[b]
               PROVE  /\ at[b] \in {"sleep", "dead"}
                      /\ at[b] = "sleep" =>
                           left = 0 /\ waiting'[b] + due[b] <= STARTUP_RETRY_INTERVAL
    BY <1>1 DEF PromptSinceHeartbeat
  <2>1. CASE b = a /\ ~healthy[a]
    BY <1>1, <1>2, <1>3, <1>8, <2>1 DEF TypeOK, PromptUntilHeartbeat, WaitIsBounded
  <2>2. CASE b # a \/ healthy[a]
    BY <1>1, <1>2, <1>3, <1>8, <2>2 DEF TypeOK, PromptSinceHeartbeat
  <2> QED
    BY <2>1, <2>2
<1> QED
  BY <1>4, <1>5, <1>6, <1>7, <1>8 DEF RetriesOutlastHeartbeat

LEMMA GrantedIInv == ASSUME IInv, NEW a \in Agents, Granted(a) PROVE IInv'
<1> USE DEF IInv
<1>1. TypeOK'
  BY DEF TypeOK, Granted
<1>2. Timely'
  BY DEF TypeOK, Timely, Granted
<1>3. WaitIsBounded'
  BY SlackBounds DEF TypeOK, WaitIsBounded, Granted
<1>4. PromptUntilHeartbeat' /\ PromptSinceHeartbeat'
  BY DEF PromptUntilHeartbeat, PromptSinceHeartbeat, Granted
<1> QED
  BY <1>1, <1>2, <1>3, <1>4

(* Going to sleep: the wait before it is within the slack. A worker that has
   been prompt does so only before its first heartbeat, and then it has a
   startup retry left: the attempts so far took no more time than there was. *)
LEMMA SleepsIInv ==
  ASSUME IInv, NEW a \in Agents, NEW done \in BOOLEAN, Sleeps(a, done),
         UNCHANGED <<healthy, beat, lease, waiting, prompt>>,
         at[a] # "dead",
         waiting[a] <= Slack,
         RetriesOutlastHeartbeat /\ prompt[a] =>
           due[a] <= 0 /\ ~healthy[a] /\ ~done
  PROVE  IInv'
<1> USE DEF IInv
<1>1. /\ at' \in [Agents -> {"sleep", "work", "dead"}] /\ at'[a] = "sleep"
      /\ succeeded' \in [Agents -> BOOLEAN] /\ succeeded'[a] = done
      /\ due' \in [Agents -> Int]
      /\ attempts' \in [Agents -> 1 .. STARTUP_RETRY_LIMIT]
      /\ \A b \in Agents : b # a =>
           /\ at'[b] = at[b] /\ succeeded'[b] = succeeded[b]
           /\ due'[b] = due[b] /\ attempts'[b] = attempts[b]
  BY DEF TypeOK, Sleeps, StartsFast
<1>2. due'[a] \in 0 .. namespace_snapshot_interval
  BY DEF TypeOK, Sleeps
<1>3. UNCHANGED <<healthy, beat, holder, left, waiting, prompt>>
  BY DEF lease
<1>4. TypeOK'
  BY <1>1, <1>3 DEF TypeOK
<1>5. Timely'
  BY <1>1, <1>2, <1>3 DEF TypeOK, Timely
<1>6. WaitIsBounded'
  BY <1>1, <1>2, <1>3, SlackBounds DEF TypeOK, WaitIsBounded
<1>7. ASSUME RetriesOutlastHeartbeat PROVE PromptUntilHeartbeat'
  <2>1. ASSUME prompt[a]
        PROVE  /\ due'[a] = STARTUP_RETRY_INTERVAL
               /\ attempts'[a] = attempts[a] + 1
               /\ attempts[a] * STARTUP_RETRY_INTERVAL <= heartbeat_interval - beat[a]
    <3>1. attempts[a] \in Nat /\ attempts[a] * STARTUP_RETRY_INTERVAL \in Nat
      BY OneMoreAttempt DEF TypeOK
    <3>2. attempts[a] * STARTUP_RETRY_INTERVAL - due[a] <= heartbeat_interval - beat[a]
      BY <1>7, <2>1 DEF PromptUntilHeartbeat
    <3>3. attempts[a] * STARTUP_RETRY_INTERVAL <= heartbeat_interval - beat[a]
      BY <1>7, <2>1, <3>1, <3>2 DEF TypeOK
    <3>4. beat[a] >= -Delay
      BY DEF Timely
    <3>5. attempts[a] # STARTUP_RETRY_LIMIT
      BY <1>7, <3>1, <3>3, <3>4 DEF RetriesOutlastHeartbeat, TypeOK
    <3>6. StartsFast(a, done)
      BY <1>7, <2>1, <3>5 DEF StartsFast, TypeOK
    <3> QED
      BY <3>3, <3>6 DEF Sleeps, TypeOK
  <2>2. ASSUME prompt[a]
        PROVE  attempts'[a] * STARTUP_RETRY_INTERVAL - due'[a] <= heartbeat_interval - beat[a]
    <3>1. attempts[a] \in Nat
      BY DEF TypeOK
    <3>2. /\ attempts'[a] * STARTUP_RETRY_INTERVAL
               = attempts[a] * STARTUP_RETRY_INTERVAL + STARTUP_RETRY_INTERVAL
          /\ attempts[a] * STARTUP_RETRY_INTERVAL \in Nat
      BY <2>1, <2>2, <3>1, OneMoreAttempt
    <3> QED
      BY <2>1, <2>2, <3>2 DEF TypeOK
  <2> QED
    BY <1>1, <1>3, <1>7, <2>1, <2>2 DEF PromptUntilHeartbeat
<1>8. ASSUME RetriesOutlastHeartbeat PROVE PromptSinceHeartbeat'
  BY <1>1, <1>3, <1>8 DEF PromptSinceHeartbeat
<1> QED
  BY <1>4, <1>5, <1>6, <1>7, <1>8 DEF RetriesOutlastHeartbeat

(* A refusal means that another agent got the lease within its duration. *)
LEMMA RefusedIInv ==
  ASSUME IInv, NEW a \in Agents, Refused(a), (Wakes(a) /\ healthy[a]) \/ at[a] = "work"
  PROVE  IInv'
<1> USE DEF IInv
<1>1. left > 0 /\ waiting[a] <= LeaseDuration
  BY DEF Refused, MayLead, TypeOK, Timely
<1>2. ~(RetriesOutlastHeartbeat /\ prompt[a])
  BY <1>1 DEF PromptSinceHeartbeat, PromptUntilHeartbeat, Wakes, TypeOK
<1>3. at[a] # "dead" /\ waiting[a] <= Slack
  BY <1>1, SlackBounds DEF Wakes, TypeOK
<1>4. /\ Sleeps(a, succeeded[a]) /\ succeeded[a] \in BOOLEAN
      /\ UNCHANGED <<healthy, beat, lease, waiting, prompt>>
  BY DEF Refused, TypeOK
<1> QED
  BY <1>2, <1>3, <1>4, SleepsIInv

LEMMA RestartsIInv == ASSUME IInv, NEW a \in Agents, Restarts(a) PROVE IInv'
<1> USE DEF IInv
<1>1. TypeOK'
  BY DEF TypeOK, Restarts
<1>2. Timely'
  BY DEF TypeOK, Timely, Restarts
<1>3. WaitIsBounded'
  BY SlackBounds DEF TypeOK, WaitIsBounded, Restarts
<1>4. ASSUME RetriesOutlastHeartbeat PROVE PromptUntilHeartbeat'
  <2>1. left <= LeaseDuration
    BY DEF TypeOK, Timely
  <2> QED
    BY <1>4, <2>1 DEF TypeOK, PromptUntilHeartbeat, RetriesOutlastHeartbeat, Restarts
<1>5. ASSUME RetriesOutlastHeartbeat PROVE PromptSinceHeartbeat'
  BY <1>5 DEF TypeOK, PromptSinceHeartbeat, Restarts
<1> QED
  BY <1>1, <1>2, <1>3, <1>4, <1>5 DEF RetriesOutlastHeartbeat

LEMMA CheckRaisesIInv == ASSUME IInv, NEW a \in Agents, CheckRaises(a) PROVE IInv'
<1> USE DEF IInv
<1>1. /\ at' = [at EXCEPT ![a] = "dead"]
      /\ healthy[a]
      /\ UNCHANGED <<due, attempts, succeeded, healthy, beat, holder, left, waiting, prompt>>
  BY DEF CheckRaises, lease
<1>2. TypeOK' /\ Timely' /\ WaitIsBounded'
  BY <1>1 DEF TypeOK, Timely, WaitIsBounded
<1>3. ASSUME RetriesOutlastHeartbeat PROVE PromptUntilHeartbeat' /\ PromptSinceHeartbeat'
  BY <1>1, <1>3 DEF TypeOK, PromptUntilHeartbeat, PromptSinceHeartbeat
<1> QED
  BY <1>2, <1>3 DEF RetriesOutlastHeartbeat

LEMMA NextIInv == IInv /\ [Next]_vars => IInv'
<1> SUFFICES ASSUME IInv, [Next]_vars PROVE IInv'
  OBVIOUS
<1>1. CASE Tick
  BY <1>1, TickIInv
<1>2. ASSUME NEW a \in Agents, Beat(a) PROVE IInv'
  BY <1>2, BeatIInv
<1>3. ASSUME NEW a \in Agents, SkipsUnhealthy(a) PROVE IInv'
  <2>1. /\ Sleeps(a, succeeded[a]) /\ succeeded[a] \in BOOLEAN
        /\ UNCHANGED <<healthy, beat, lease, waiting, prompt>>
        /\ at[a] # "dead" /\ due[a] <= 0 /\ ~healthy[a]
    BY <1>3 DEF SkipsUnhealthy, Wakes, IInv, TypeOK
  <2>2. waiting[a] <= Slack
    BY <2>1, SlackBounds DEF IInv, WaitIsBounded
  <2>3. RetriesOutlastHeartbeat /\ prompt[a] => ~succeeded[a]
    BY <2>1 DEF IInv, PromptUntilHeartbeat
  <2> QED
    BY <2>1, <2>2, <2>3, SleepsIInv
<1>4. ASSUME NEW a \in Agents, Checks(a) \/ EnsureLeadership(a) PROVE IInv'
  BY <1>4, GrantedIInv, RefusedIInv DEF Checks, EnsureLeadership
<1>5. ASSUME NEW a \in Agents, CheckRaises(a) PROVE IInv'
  BY <1>5, CheckRaisesIInv
<1>6. ASSUME NEW a \in Agents, IterationEnds(a) PROVE IInv'
  <2>1. PICK ok \in BOOLEAN : Sleeps(a, succeeded[a] \/ ok)
    BY <1>6 DEF IterationEnds
  <2>2. /\ UNCHANGED <<healthy, beat, lease, waiting, prompt>>
        /\ at[a] = "work"
        /\ (succeeded[a] \/ ok) \in BOOLEAN
    BY <1>6 DEF IterationEnds, IInv, TypeOK
  <2>3. waiting[a] <= Slack
    BY <2>2, SlackBounds DEF IInv, TypeOK, Timely, WaitIsBounded
  <2>4. ~(RetriesOutlastHeartbeat /\ prompt[a])
    BY <2>2 DEF IInv, TypeOK, PromptUntilHeartbeat, PromptSinceHeartbeat
  <2> QED
    BY <2>1, <2>2, <2>3, <2>4, SleepsIInv
<1>7. ASSUME NEW a \in Agents, Restarts(a) PROVE IInv'
  BY <1>7, RestartsIInv
<1>8. CASE UNCHANGED vars
  BY <1>8 DEF vars, IInv, TypeOK, Timely, WaitIsBounded, PromptUntilHeartbeat,
     PromptSinceHeartbeat
<1> QED
  BY <1>1, <1>2, <1>3, <1>4, <1>5, <1>6, <1>7, <1>8 DEF Next

-----------------------------------------------------------------------------

(* The inductive invariant of the schedule holds of every behaviour. *)
THEOREM Invariance == Spec => []IInv
  BY InitIInv, NextIInv, PTL DEF Spec

(* No healthy agent whose worker has not died sees the fleet without a round
   for much longer than the interval. *)
THEOREM RoundsAreBounded == Spec => []RoundsKeepComing
<1>1. IInv => RoundsKeepComing
  <2> SUFFICES ASSUME IInv, NEW a \in Agents, at[a] # "dead"
               PROVE  waiting[a] <= namespace_snapshot_interval + Slack + Delay
    BY DEF RoundsKeepComing
  <2> QED
    BY SlackBounds DEF IInv, TypeOK, Timely, WaitIsBounded
<1> QED
  BY <1>1, Invariance, PTL

(* An agent that starts alone and with an answered heartbeat has its first
   round within a startup interval, unless its worker dies. *)
THEOREM FirstRoundIsBounded == Spec => []FirstRoundIsFast
<1>1. IInv => FirstRoundIsFast
  <2> SUFFICES ASSUME IInv, RetriesOutlastHeartbeat,
                      NEW a \in Agents, prompt[a], healthy[a], at[a] # "dead"
               PROVE  waiting[a] <= STARTUP_RETRY_INTERVAL + Delay
    BY DEF FirstRoundIsFast
  <2>1. at[a] = "sleep"
    BY DEF IInv, PromptSinceHeartbeat
  <2> QED
    BY <2>1 DEF IInv, TypeOK, Timely, PromptSinceHeartbeat
<1> QED
  BY <1>1, Invariance, PTL

=============================================================================
