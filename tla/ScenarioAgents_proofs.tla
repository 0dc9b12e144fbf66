------------------------ MODULE ScenarioAgents_proofs ------------------------
(***************************************************************************)
(* Proofs about ScenarioAgents for every set of agents, claim sets and     *)
(* claims, every order and mode, and every retry limit.                    *)
(***************************************************************************)
EXTENDS ScenarioAgents, FiniteOrders, TLAPS

USE ClaimOrderAssumption, ScenarioAgentsAssumption
USE DEF SetHealth, IsIdle, IsQueued, Enqueue, MarkRunning, ResetToIdle

-----------------------------------------------------------------------------
(* What the telemetry operators do to the counters *)

LEMMA EmitCounts ==
  ASSUME TypeOK, NEW c \in Claims, NEW e \in EventEnum, Emit(c, e)
  PROVE  /\ emitted' \in [Claims -> [EventEnum -> Nat]]
         /\ emitted'[c][e] = emitted[c][e] + 1
         /\ \A d \in Claims, f \in EventEnum :
              d # c \/ f # e => emitted'[d][f] = emitted[d][f]
  BY DEF TypeOK, Emit

LEMMA QueueCounts ==
  ASSUME TypeOK, NEW cs \in ClaimSets,
         emitted' = [c \in Claims |->
           IF c \in ClaimsOf[cs] THEN [emitted[c] EXCEPT !["queued"] = @ + 1]
                                 ELSE emitted[c]]
  PROVE  /\ emitted' \in [Claims -> [EventEnum -> Nat]]
         /\ \A c \in ClaimsOf[cs] :
              /\ emitted'[c]["queued"] = emitted[c]["queued"] + 1
              /\ \A f \in EventEnum \ {"queued"} : emitted'[c][f] = emitted[c][f]
         /\ \A c \in Claims \ ClaimsOf[cs] : emitted'[c] = emitted[c]
  BY DEF TypeOK, EventEnum

-----------------------------------------------------------------------------
(* What an update of one agent's record does *)

LEMMA SchedulerBecomes ==
  ASSUME TypeOK, NEW a \in Agents, NEW r \in SchedulerStates,
         sched' = [sched EXCEPT ![a] = r]
  PROVE  /\ sched' \in [Agents -> SchedulerStates]
         /\ sched'[a] = r
         /\ \A b \in Agents \ {a} : sched'[b] = sched[b]
  BY DEF TypeOK

LEMMA SchedulerMovesTo ==
  ASSUME TypeOK, NEW a \in Agents, NEW x \in SchedulerPlaces,
         sched' = [sched EXCEPT ![a].at = x]
  PROVE  /\ sched' \in [Agents -> SchedulerStates]
         /\ sched'[a].at = x
         /\ sched'[a].claim_set = sched[a].claim_set
         /\ \A b \in Agents \ {a} : sched'[b] = sched[b]
  <1>1. sched[a] \in SchedulerStates
    BY DEF TypeOK
  <1>2. sched' = [sched EXCEPT ![a] = [sched[a] EXCEPT !.at = x]]
    OBVIOUS
  <1>3. [sched[a] EXCEPT !.at = x] \in SchedulerStates
    BY <1>1 DEF SchedulerStates
  <1>4. /\ [sched[a] EXCEPT !.at = x].at = x
        /\ [sched[a] EXCEPT !.at = x].claim_set = sched[a].claim_set
    BY <1>1 DEF SchedulerStates
  <1> QED
    BY <1>2, <1>3, <1>4, SchedulerBecomes

LEMMA SlotBecomes ==
  ASSUME TypeOK, NEW a \in Agents, NEW r \in SlotStates,
         slot' = [slot EXCEPT ![a] = r]
  PROVE  /\ slot' \in [Agents -> SlotStates]
         /\ slot'[a] = r
         /\ \A b \in Agents \ {a} : slot'[b] = slot[b]
  BY DEF TypeOK

LEMMA RunnerBecomes ==
  ASSUME TypeOK, NEW a \in Agents, NEW r \in RunnerStates,
         run' = [run EXCEPT ![a] = r]
  PROVE  /\ run' \in [Agents -> RunnerStates]
         /\ run'[a] = r
         /\ \A b \in Agents \ {a} : run'[b] = run[b]
  BY DEF TypeOK

LEMMA RunnerMovesTo ==
  ASSUME TypeOK, NEW a \in Agents, NEW x \in {"sleep", "fetch", "execute", "pause"},
         run' = [run EXCEPT ![a].at = x]
  PROVE  /\ run' \in [Agents -> RunnerStates]
         /\ run'[a].at = x
         /\ run'[a].claim = run[a].claim
         /\ run'[a].todo = run[a].todo
         /\ \A b \in Agents \ {a} : run'[b] = run[b]
  <1>1. run[a] \in RunnerStates
    BY DEF TypeOK
  <1>2. run' = [run EXCEPT ![a] = [run[a] EXCEPT !.at = x]]
    OBVIOUS
  <1>3. [run[a] EXCEPT !.at = x] \in RunnerStates
    BY <1>1 DEF RunnerStates
  <1>4. /\ [run[a] EXCEPT !.at = x].at = x
        /\ [run[a] EXCEPT !.at = x].claim = run[a].claim
        /\ [run[a] EXCEPT !.at = x].todo = run[a].todo
    BY <1>1 DEF RunnerStates
  <1> QED
    BY <1>2, <1>3, <1>4, RunnerBecomes

LEMMA AsleepAndIdle ==
  /\ SchedulerAsleep \in SchedulerStates
  /\ SchedulerAsleep.at = "sleep"
  /\ SchedulerAsleep.claim_set = NoClaimSet
  /\ RunnerAsleep \in RunnerStates
  /\ RunnerAsleep.at = "sleep"
  /\ IdleSlot \in SlotStates
  /\ IdleSlot.state = "idle"
  /\ IdleSlot.claim_set = NoClaimSet
  BY DEF SchedulerAsleep, SchedulerStates, SchedulerPlaces, RunnerAsleep,
         RunnerStates, IdleSlot, SlotStates, RunnerStatus

-----------------------------------------------------------------------------
(* The invariant holds initially *)

LEMMA InitIInv == Init => IInv
  <1> SUFFICES ASSUME Init PROVE IInv
    OBVIOUS
  <1>1. TypeOK
    BY DEF Init, TypeOK, IdleSlot, SchedulerAsleep, RunnerAsleep, RunnerStatus,
           SlotStates, SchedulerStates, SchedulerPlaces, RunnerStates
  <1>2. SlotFreeWhilePolling /\ SlotIsOwned /\ TakenSetsAccountedFor
    BY DEF Init, SlotFreeWhilePolling, SlotIsOwned, TakenSetsAccountedFor,
           IdleSlot, SchedulerAsleep
  <1>3. AcknowledgedOnce
    BY DEF Init, AcknowledgedOnce, Untouched, SchedulerAsleep, Acknowledging, Requested
  <1>4. SlotMatchesRunner /\ ProgressInOrder /\ OrphansAccountedFor
    BY DEF Init, SlotMatchesRunner, ProgressInOrder, ProgressOf, OrphansAccountedFor,
           IdleSlot, RunnerAsleep
  <1> QED
    BY <1>1, <1>2, <1>3, <1>4 DEF IInv

-----------------------------------------------------------------------------
(* Steps that leave the slot, the runner and the counters alone *)

LEMMA HeartbeatKeepsIInv ==
  ASSUME IInv, NEW a \in Agents, Heartbeat(a)
  PROVE  IInv'
  <1> USE DEF Heartbeat
  <1>1. TypeOK'
    BY DEF IInv, TypeOK
  <1>2. SlotFreeWhilePolling' /\ SlotIsOwned' /\ TakenSetsAccountedFor'
    BY DEF IInv, SlotFreeWhilePolling, SlotIsOwned, TakenSetsAccountedFor, Acknowledges, Finished
  <1>3. AcknowledgedOnce' /\ SlotMatchesRunner' /\ ProgressInOrder' /\ OrphansAccountedFor'
    BY DEF IInv, AcknowledgedOnce, Untouched, SlotMatchesRunner, ProgressInOrder,
           ProgressOf, RunningInOrder, Waiting, Started, OrphansAccountedFor,
           Acknowledges
  <1> QED
    BY <1>1, <1>2, <1>3 DEF IInv

\* A step of the scheduler, or the listing it waits for, after which it still
\* acknowledges the claim set it was acknowledging, if any.
LEMMA SchedulerAwaits ==
  ASSUME IInv, NEW a \in Agents,
         \/ Poll(a) \/ ServerLists(a) \/ FetchReturns(a)
         \/ FetchReturnsNothing(a) \/ SendAck(a)
  PROVE  /\ sched' \in [Agents -> SchedulerStates]
         /\ \A b \in Agents \ {a} : sched'[b] = sched[b]
         /\ slot[a].state = "idle"
         /\ sched'[a].at # "accepted"
         /\ sched'[a].at \in Acknowledging \cup {"listed"}
              <=> sched'[a].claim_set \in ClaimSets
         /\ sched[a].at \in Acknowledging =>
              /\ sched'[a].at \in Acknowledging
              /\ sched'[a].claim_set = sched[a].claim_set
         /\ UNCHANGED <<process, healthy, slot, run, owner, orphans, emitted, dropped>>
  <1>1. /\ TypeOK /\ sched[a] \in SchedulerStates
        /\ sched[a].at # "sleep" => slot[a].state = "idle"
        /\ sched[a].at \in Acknowledging \cup {"listed"}
             <=> sched[a].claim_set \in ClaimSets
    BY DEF IInv, TypeOK, SlotFreeWhilePolling, AcknowledgedOnce
  <1>2. CASE Poll(a)
    <2>1. sched' = [sched EXCEPT ![a].at = "fetch"] /\ sched[a].at = "sleep"
      BY <1>2 DEF Poll
    <2>2. /\ sched' \in [Agents -> SchedulerStates]
          /\ sched'[a].at = "fetch"
          /\ sched'[a].claim_set = sched[a].claim_set
          /\ \A b \in Agents \ {a} : sched'[b] = sched[b]
      <3>1. "fetch" \in SchedulerPlaces
        BY DEF SchedulerPlaces
      <3> QED
        BY <1>1, <2>1, <3>1, SchedulerMovesTo
    <2> QED
      BY <1>1, <1>2, <2>1, <2>2 DEF Poll, Acknowledging, Requested
  <1>3. CASE FetchReturns(a)
    <2>1. /\ sched' = [sched EXCEPT ![a] =
               [at |-> "send", claim_set |-> sched[a].claim_set, attempt |-> 1]]
          /\ sched[a].at = "listed"
      BY <1>3 DEF FetchReturns
    <2>2. [at |-> "send", claim_set |-> sched[a].claim_set, attempt |-> 1]
            \in SchedulerStates
      BY <1>1, ScenarioAgentsAssumption
      DEF SchedulerStates, SchedulerPlaces, Acknowledging
    <2>3. /\ sched' \in [Agents -> SchedulerStates]
          /\ sched'[a].at = "send"
          /\ sched'[a].claim_set = sched[a].claim_set
          /\ \A b \in Agents \ {a} : sched'[b] = sched[b]
      BY <1>1, <2>1, <2>2, SchedulerBecomes
    <2> QED
      BY <1>1, <1>3, <2>1, <2>3 DEF FetchReturns, Acknowledging, Requested
  <1>4. CASE FetchReturnsNothing(a)
    BY <1>1, <1>4, SchedulerBecomes, AsleepAndIdle
    DEF FetchReturnsNothing, Acknowledging, Requested
  <1>5. CASE SendAck(a)
    <2>1. sched' = [sched EXCEPT ![a].at = "wait"] /\ sched[a].at = "send"
      BY <1>5 DEF SendAck
    <2>2. /\ sched' \in [Agents -> SchedulerStates]
          /\ sched'[a].at = "wait"
          /\ sched'[a].claim_set = sched[a].claim_set
          /\ \A b \in Agents \ {a} : sched'[b] = sched[b]
      <3>1. "wait" \in SchedulerPlaces
        BY DEF SchedulerPlaces, Acknowledging, Requested
      <3> QED
        BY <1>1, <2>1, <3>1, SchedulerMovesTo
    <2> QED
      BY <1>1, <1>5, <2>1, <2>2 DEF SendAck, Acknowledging, Requested
  <1>6. CASE ServerLists(a)
    <2>1. PICK cs \in ClaimSets :
            sched' = [sched EXCEPT ![a] =
                        [at |-> "listed", claim_set |-> cs, attempt |-> 0]]
      BY <1>6 DEF ServerLists
    <2>2. [at |-> "listed", claim_set |-> cs, attempt |-> 0] \in SchedulerStates
      BY ScenarioAgentsAssumption DEF SchedulerStates, SchedulerPlaces
    <2> QED
      BY <1>1, <1>6, <2>1, <2>2, SchedulerBecomes DEF ServerLists, Acknowledging, Requested
  <1> QED
    BY <1>2, <1>3, <1>4, <1>5, <1>6

LEMMA SchedulerAwaitsKeepsIInv ==
  ASSUME IInv, NEW a \in Agents,
         \/ Poll(a) \/ ServerLists(a) \/ FetchReturns(a)
         \/ FetchReturnsNothing(a) \/ SendAck(a)
  PROVE  IInv'
  <1>1. /\ sched' \in [Agents -> SchedulerStates]
        /\ \A b \in Agents \ {a} : sched'[b] = sched[b]
        /\ slot[a].state = "idle"
        /\ sched'[a].at # "accepted"
        /\ sched'[a].at \in Acknowledging \cup {"listed"}
             <=> sched'[a].claim_set \in ClaimSets
        /\ sched[a].at \in Acknowledging =>
             /\ sched'[a].at \in Acknowledging
             /\ sched'[a].claim_set = sched[a].claim_set
        /\ UNCHANGED <<process, healthy, slot, run, owner, orphans, emitted, dropped>>
    BY SchedulerAwaits
  <1>2. TypeOK'
    BY <1>1 DEF IInv, TypeOK
  <1>3. SlotFreeWhilePolling' /\ SlotIsOwned'
    BY <1>1 DEF IInv, SlotFreeWhilePolling, SlotIsOwned
  <1>4. TakenSetsAccountedFor' /\ OrphansAccountedFor'
    <2>1. \A b \in Agents, ds \in ClaimSets : Acknowledges(b, ds) => Acknowledges(b, ds)'
      BY <1>1 DEF Acknowledges
    <2>2. TakenSetsAccountedFor'
      BY <1>1, <2>1 DEF IInv, TakenSetsAccountedFor, Finished
    <2>3. OrphansAccountedFor'
      BY <1>1, <2>1 DEF IInv, OrphansAccountedFor
    <2> QED
      BY <2>2, <2>3
  <1>5. AcknowledgedOnce'
    BY <1>1 DEF IInv, AcknowledgedOnce, Untouched
  <1>6. SlotMatchesRunner' /\ ProgressInOrder'
    BY <1>1 DEF IInv, SlotMatchesRunner, ProgressInOrder, ProgressOf, RunningInOrder, Waiting, Started
  <1> QED
    BY <1>2, <1>3, <1>4, <1>5, <1>6 DEF IInv

-----------------------------------------------------------------------------
(* Steps that end an iteration of the scheduler with an error *)

LEMMA DropKeepsIInv ==
  ASSUME IInv, NEW a \in Agents, sched[a].at \in Acknowledging,
         NEW says \in Reports, Drop(a, says),
         \/ UNCHANGED orphans
         \/ orphans' = orphans \cup {<<a, sched[a].claim_set>>},
         UNCHANGED <<process, healthy, slot, run, owner, emitted>>
  PROVE  IInv'
  <1> DEFINE cs == sched[a].claim_set
  <1>1. TypeOK /\ cs \in ClaimSets
    BY DEF IInv, AcknowledgedOnce
  <1>2. /\ sched' \in [Agents -> SchedulerStates]
        /\ sched'[a] = SchedulerAsleep
        /\ \A b \in Agents \ {a} : sched'[b] = sched[b]
    BY <1>1, SchedulerBecomes, AsleepAndIdle DEF Drop
  <1>3. dropped' = dropped \cup {<<a, cs, says>>}
    BY DEF Drop
  <1>4. orphans' \subseteq orphans \cup {<<a, cs>>}
    OBVIOUS
  <1> HIDE DEF cs
  <1>5. TypeOK'
    BY <1>1, <1>2, <1>3, <1>4 DEF TypeOK
  <1>6. SlotFreeWhilePolling' /\ SlotIsOwned'
    BY <1>2, AsleepAndIdle DEF IInv, SlotFreeWhilePolling, SlotIsOwned
  <1>7. TakenSetsAccountedFor' /\ OrphansAccountedFor'
    <2>1. \A ds \in ClaimSets : Acknowledges(a, ds) =>
             \E m \in Reports : <<a, ds, m>> \in dropped'
      BY <1>3 DEF cs, Acknowledges
    <2>2. dropped \subseteq dropped'
      BY <1>3
    <2>3. \A ds \in ClaimSets : <<a, ds>> \in orphans' =>
             <<a, ds>> \in orphans \/ Acknowledges(a, ds)
      BY <1>4 DEF cs, Acknowledges
    <2>4. \A b \in Agents \ {a}, ds \in ClaimSets :
             <<b, ds>> \in orphans' => <<b, ds>> \in orphans
      BY <1>4
    <2>5. \A b \in Agents, ds \in ClaimSets :
             Acknowledges(b, ds) =>
               \/ Acknowledges(b, ds)'
               \/ \E m \in Reports : <<b, ds, m>> \in dropped'
      BY <1>2, <2>1 DEF Acknowledges
    <2>6. \A b \in Agents, ds \in ClaimSets :
             (\E m \in Reports : <<b, ds, m>> \in dropped) =>
               \E m \in Reports : <<b, ds, m>> \in dropped'
      BY <2>2
    <2>7. TakenSetsAccountedFor'
      BY <2>5, <2>6 DEF IInv, TakenSetsAccountedFor, Finished
    <2>8. OrphansAccountedFor'
      BY <2>1, <2>3, <2>4, <2>5, <2>6 DEF IInv, OrphansAccountedFor
    <2> QED
      BY <2>7, <2>8
  <1>8. AcknowledgedOnce'
    BY <1>2, AsleepAndIdle DEF IInv, AcknowledgedOnce, Untouched, Acknowledging, Requested
  <1>9. SlotMatchesRunner' /\ ProgressInOrder'
    BY DEF IInv, SlotMatchesRunner, ProgressInOrder, ProgressOf, RunningInOrder, Waiting, Started
  <1> QED
    BY <1>5, <1>6, <1>7, <1>8, <1>9 DEF IInv

LEMMA ErrorKeepsIInv ==
  ASSUME IInv, NEW a \in Agents,
         AuthFails(a) \/ AckUnreadable(a) \/ AckRefused(a) \/ AckGivesUp(a)
  PROVE  IInv'
  <1>1. "another_agent" \in Reports /\ "error" \in Reports
    BY DEF Reports
  <1>2. CASE AuthFails(a)
    <2>1. sched[a].at \in Acknowledging
      BY <1>2 DEF AuthFails, Acknowledging
    <2> QED
      BY <1>1, <1>2, <2>1, DropKeepsIInv DEF AuthFails
  <1>3. CASE AckRefused(a)
    <2>1. sched[a].at \in Acknowledging
      BY <1>3 DEF AckRefused, Acknowledging, Requested
    <2> QED
      BY <1>1, <1>3, <2>1, DropKeepsIInv DEF AckRefused
  <1>4. CASE AckGivesUp(a)
    <2>1. sched[a].at \in Acknowledging
      BY <1>4 DEF AckGivesUp, StopWaiting, Acknowledging
    <2>2. PICK says \in Reports : Drop(a, says)
      BY <1>4 DEF AckGivesUp
    <2> QED
      BY <1>4, <2>1, <2>2, DropKeepsIInv DEF AckGivesUp, StopWaiting
  <1>5. CASE AckUnreadable(a)
    <2>1. sched[a].at \in Acknowledging
      BY <1>5 DEF AckUnreadable, Acknowledging, Requested
    <2> QED
      BY <1>1, <1>5, <2>1, DropKeepsIInv DEF AckUnreadable
  <1> QED
    BY <1>2, <1>3, <1>4, <1>5

LEMMA AckRetryKeepsIInv ==
  ASSUME IInv, NEW a \in Agents, AckRetry(a)
  PROVE  IInv'
  <1> DEFINE cs == sched[a].claim_set
             r == [at |-> "send", claim_set |-> cs, attempt |-> sched[a].attempt + 1]
  <1>1. /\ TypeOK
        /\ sched[a] \in SchedulerStates
        /\ sched[a].at \in Acknowledging
        /\ cs \in ClaimSets
    BY DEF IInv, TypeOK, AcknowledgedOnce, AckRetry, StopWaiting, Acknowledging
  <1>2. sched' = [sched EXCEPT ![a] = r]
    BY <1>1 DEF AckRetry, SchedulerStates
  <1>3. r \in SchedulerStates
    BY <1>1 DEF AckRetry, SchedulerStates, SchedulerPlaces, Acknowledging
  <1>4. /\ sched' \in [Agents -> SchedulerStates]
        /\ sched'[a].at = "send"
        /\ sched'[a].claim_set = cs
        /\ \A b \in Agents \ {a} : sched'[b] = sched[b]
    BY <1>1, <1>2, <1>3, SchedulerBecomes
  <1>5. orphans' \subseteq orphans \cup {<<a, cs>>}
    BY DEF AckRetry, StopWaiting
  <1>6. UNCHANGED <<process, healthy, slot, run, owner, emitted, dropped>>
    BY DEF AckRetry
  <1> HIDE DEF r
  <1>7. TypeOK'
    BY <1>1, <1>4, <1>5, <1>6 DEF TypeOK
  <1>8. SlotFreeWhilePolling' /\ SlotIsOwned'
    BY <1>1, <1>4, <1>6 DEF IInv, SlotFreeWhilePolling, SlotIsOwned, Acknowledging, Requested
  <1>9. TakenSetsAccountedFor' /\ OrphansAccountedFor'
    <2>1. \A b \in Agents, ds \in ClaimSets : Acknowledges(b, ds) => Acknowledges(b, ds)'
      BY <1>4 DEF Acknowledges, Acknowledging
    <2>2. \A b \in Agents, ds \in ClaimSets :
             <<b, ds>> \in orphans' => <<b, ds>> \in orphans \/ Acknowledges(b, ds)
      BY <1>1, <1>5 DEF Acknowledges
    <2> QED
      BY <1>6, <2>1, <2>2 DEF IInv, TakenSetsAccountedFor, OrphansAccountedFor, Finished
  <1>10. AcknowledgedOnce'
    BY <1>1, <1>4, <1>6 DEF IInv, AcknowledgedOnce, Untouched, Acknowledging
  <1>11. SlotMatchesRunner' /\ ProgressInOrder'
    BY <1>6 DEF IInv, SlotMatchesRunner, ProgressInOrder, ProgressOf, RunningInOrder, Waiting, Started
  <1> QED
    BY <1>7, <1>8, <1>9, <1>10, <1>11 DEF IInv

-----------------------------------------------------------------------------
(* Steps of the control plane *)

LEMMA AcknowledgedOwner ==
  ASSUME TypeOK, NEW a \in Agents, NEW cs \in ClaimSets, Acknowledged(a, cs)
  PROVE  /\ owner' \in [ClaimSets -> Agents \cup {Nobody}]
         /\ owner[cs] = Nobody => owner'[cs] = a
         /\ \A ds \in ClaimSets :
              owner'[ds] = owner[ds] \/ (owner[ds] = Nobody /\ ds = cs /\ owner'[ds] = a)
  <1>1. owner \in [ClaimSets -> Agents \cup {Nobody}]
    BY DEF TypeOK
  <1>2. CASE owner[cs] = Nobody
    <2>1. owner' = [owner EXCEPT ![cs] = a]
      BY <1>2 DEF Acknowledged
    <2> QED
      BY <1>1, <1>2, <2>1
  <1>3. CASE owner[cs] # Nobody
    <2>1. owner' = owner
      BY <1>3 DEF Acknowledged
    <2> QED
      BY <1>1, <1>3, <2>1
  <1> QED
    BY <1>2, <1>3

LEMMA ServerAckKeepsIInv ==
  ASSUME IInv, NEW a \in Agents, ServerAck(a)
  PROVE  IInv'
  <1> DEFINE cs == sched[a].claim_set
             x == IF owner[cs] = Nobody THEN "accepted" ELSE "conflict"
  <1>1. /\ TypeOK
        /\ sched[a].at \in Acknowledging
        /\ sched[a].at = "wait"
        /\ cs \in ClaimSets
    BY DEF IInv, AcknowledgedOnce, ServerAck, Acknowledging, Requested
  <1>2. sched' = [sched EXCEPT ![a].at = x] /\ Acknowledged(a, cs)
    BY DEF ServerAck
  <1>3. /\ x \in SchedulerPlaces
        /\ x \in Acknowledging
        /\ x # "sleep"
        /\ x = "accepted" => owner[cs] = Nobody
    BY DEF SchedulerPlaces, Acknowledging, Requested
  <1>4. UNCHANGED <<process, healthy, slot, run, orphans, emitted, dropped>>
    BY DEF ServerAck
  <1> HIDE DEF x
  <1>5. /\ sched' \in [Agents -> SchedulerStates]
        /\ sched'[a].at = x
        /\ sched'[a].claim_set = cs
        /\ \A b \in Agents \ {a} : sched'[b] = sched[b]
    BY <1>1, <1>2, <1>3, SchedulerMovesTo
  <1>6. /\ owner' \in [ClaimSets -> Agents \cup {Nobody}]
        /\ owner[cs] = Nobody => owner'[cs] = a
        /\ \A ds \in ClaimSets :
             owner'[ds] = owner[ds] \/ (owner[ds] = Nobody /\ ds = cs /\ owner'[ds] = a)
    BY <1>1, <1>2, AcknowledgedOwner
  <1>7. TypeOK'
    BY <1>1, <1>4, <1>5, <1>6 DEF TypeOK
  <1>8. SlotFreeWhilePolling'
    BY <1>1, <1>4, <1>5 DEF IInv, SlotFreeWhilePolling
  <1>9. SlotIsOwned'
    BY <1>4, <1>6 DEF IInv, SlotIsOwned
  <1>10. TakenSetsAccountedFor' /\ OrphansAccountedFor'
    <2>1. \A b \in Agents, ds \in ClaimSets : Acknowledges(b, ds) => Acknowledges(b, ds)'
      BY <1>1, <1>3, <1>5 DEF Acknowledges
    <2>2. TakenSetsAccountedFor'
      <3>1. \A ds \in ClaimSets : ds = cs => Acknowledges(a, ds)'
        BY <1>1, <1>3, <1>5 DEF Acknowledges
      <3>2. \A b \in Agents, ds \in ClaimSets : owner'[ds] = b =>
               owner[ds] = b \/ (b = a /\ ds = cs)
        BY <1>6
      <3>3. \A ds \in ClaimSets : Finished(ds)' <=> Finished(ds)
        BY <1>4 DEF Finished
      <3>4. TakenSetsAccountedFor
        BY DEF IInv
      <3>5. ASSUME NEW b \in Agents, NEW ds \in ClaimSets, owner'[ds] = b
            PROVE  \/ process[b] = "stopped"
                   \/ Acknowledges(b, ds)'
                   \/ slot[b].claim_set = ds
                   \/ Finished(ds)
                   \/ \E says \in Reports : <<b, ds, says>> \in dropped
        <4>1. CASE owner[ds] = b
          BY <2>1, <3>4, <4>1 DEF TakenSetsAccountedFor
        <4>2. CASE b = a /\ ds = cs
          BY <3>1, <4>2
        <4> QED
          BY <3>2, <3>5, <4>1, <4>2
      <3> QED
        BY <1>4, <3>3, <3>5 DEF TakenSetsAccountedFor
    <2>3. OrphansAccountedFor'
      BY <1>1, <1>4, <1>6, <2>1 DEF IInv, OrphansAccountedFor
    <2> QED
      BY <2>2, <2>3
  <1>11. AcknowledgedOnce'
    <2>1. \A ds \in ClaimSets : Untouched(ds)' <=> Untouched(ds)
      BY <1>4 DEF Untouched
    <2>2. \A ds \in ClaimSets : owner'[ds] = Nobody => Untouched(ds)'
      BY <1>1, <1>6, <2>1 DEF IInv, AcknowledgedOnce
    <2>3. \A b \in Agents :
             sched'[b].at \in Acknowledging \cup {"listed"}
               <=> sched'[b].claim_set \in ClaimSets
      BY <1>1, <1>3, <1>5 DEF IInv, AcknowledgedOnce
    <2>4. \A b \in Agents, ds \in ClaimSets :
             sched'[b].at = "accepted" /\ sched'[b].claim_set = ds =>
               owner'[ds] = b /\ Untouched(ds)'
      <3> SUFFICES ASSUME NEW b \in Agents, NEW ds \in ClaimSets,
                          sched'[b].at = "accepted", sched'[b].claim_set = ds
                   PROVE  owner'[ds] = b /\ Untouched(ds)'
        OBVIOUS
      <3>1. CASE b = a
        BY <1>1, <1>3, <1>5, <1>6, <2>1, <3>1 DEF IInv, AcknowledgedOnce
      <3>2. CASE b # a
        <4>1. owner[ds] = b /\ Untouched(ds)
          BY <1>5, <3>2 DEF IInv, AcknowledgedOnce
        <4> QED
          BY <1>6, <2>1, <4>1
      <3> QED
        BY <3>1, <3>2
    <2>5. \A b \in Agents : sched'[b].at = "accepted" => sched'[b].at \in Acknowledging
      BY DEF Acknowledging, Requested
    <2> QED
      BY <2>2, <2>3, <2>4, <2>5 DEF AcknowledgedOnce
  <1>12. SlotMatchesRunner' /\ ProgressInOrder'
    BY <1>4 DEF IInv, SlotMatchesRunner, ProgressInOrder, ProgressOf, RunningInOrder, Waiting, Started
  <1> QED
    BY <1>7, <1>8, <1>9, <1>10, <1>11, <1>12 DEF IInv

LEMMA OrphanArrivesKeepsIInv ==
  ASSUME IInv, NEW a \in Agents, NEW cs \in ClaimSets, OrphanArrives(a, cs)
  PROVE  IInv'
  <1>1. /\ TypeOK
        /\ <<a, cs>> \in orphans
        /\ orphans' \subseteq orphans
        /\ UNCHANGED <<process, healthy, slot, sched, run, emitted, dropped>>
    BY DEF IInv, OrphanArrives
  <1>2. /\ owner' \in [ClaimSets -> Agents \cup {Nobody}]
        /\ \A ds \in ClaimSets :
             owner'[ds] = owner[ds] \/ (owner[ds] = Nobody /\ ds = cs /\ owner'[ds] = a)
    BY <1>1, AcknowledgedOwner DEF OrphanArrives
  <1>3. TypeOK'
    BY <1>1, <1>2 DEF TypeOK
  <1>4. SlotFreeWhilePolling' /\ SlotIsOwned'
    BY <1>1, <1>2 DEF IInv, SlotFreeWhilePolling, SlotIsOwned
  <1>5. TakenSetsAccountedFor' /\ OrphansAccountedFor'
    BY <1>1, <1>2 DEF IInv, TakenSetsAccountedFor, OrphansAccountedFor, Acknowledges,
        Finished
  <1>6. AcknowledgedOnce'
    <2>1. \A ds \in ClaimSets : Untouched(ds)' <=> Untouched(ds)
      BY <1>1 DEF Untouched
    <2>2. \A b \in Agents : sched[b].at = "accepted" => sched[b].claim_set \in ClaimSets
      BY DEF IInv, AcknowledgedOnce, Acknowledging, Requested
    <2> QED
      BY <1>1, <1>2, <2>1, <2>2 DEF IInv, AcknowledgedOnce
  <1>7. SlotMatchesRunner' /\ ProgressInOrder'
    BY <1>1 DEF IInv, SlotMatchesRunner, ProgressInOrder, ProgressOf, RunningInOrder, Waiting, Started
  <1> QED
    BY <1>3, <1>4, <1>5, <1>6, <1>7 DEF IInv

-----------------------------------------------------------------------------
(* Steps that count events: only the claims of one set, owned by the agent   *)
(* that steps, are touched, and no other agent holds a claim of that set.    *)

LEMMA OnlyOwnSetMoves ==
  ASSUME IInv, NEW a \in Agents, NEW cs \in ClaimSets, owner[cs] = a,
         \A c \in Claims \ ClaimsOf[cs] : emitted'[c] = emitted[c],
         \A b \in Agents \ {a} : slot'[b] = slot[b] /\ run'[b] = run[b]
  PROVE  /\ \A ds \in ClaimSets \ {cs} : Untouched(ds) => Untouched(ds)'
         /\ \A ds \in ClaimSets \ {cs} : Finished(ds) => Finished(ds)'
         /\ \A b \in Agents \ {a} : ProgressOf(b)'
  <1>1. \A ds \in ClaimSets \ {cs} : \A c \in ClaimsOf[ds] : emitted'[c] = emitted[c]
    BY DEF ClaimOrderAssumption
  <1>2. \A ds \in ClaimSets \ {cs} : Untouched(ds) => Untouched(ds)'
    BY <1>1 DEF Untouched
  <1>3. \A ds \in ClaimSets \ {cs} : Finished(ds) => Finished(ds)'
    BY <1>1 DEF Finished
  <1>4. ASSUME NEW b \in Agents \ {a}
        PROVE  ProgressOf(b)'
    <2>1. CASE slot[b].state = "idle"
      BY <2>1 DEF ProgressOf
    <2>2. CASE slot[b].state # "idle"
      <3>1. slot[b].claim_set \in ClaimSets \ {cs}
        <4>1. slot[b].claim_set \in ClaimSets \cup {NoClaimSet}
          BY DEF IInv, TypeOK, SlotStates
        <4>2. slot[b].claim_set \in ClaimSets
          BY <2>2, <4>1 DEF IInv, SlotMatchesRunner
        <4> QED
          BY <4>2 DEF IInv, SlotIsOwned
      <3>2. \A c \in ClaimsOf[slot[b].claim_set] : emitted'[c] = emitted[c]
        BY <1>1, <3>1
      <3>3. ProgressOf(b)
        BY DEF IInv, ProgressInOrder
      <3>4. /\ \A c \in ClaimsOf[slot[b].claim_set] : Waiting(c)' <=> Waiting(c)
            /\ \A c \in ClaimsOf[slot[b].claim_set], n \in {0, 1} :
                 Started(c, n)' <=> Started(c, n)
        BY <3>2 DEF Waiting, Started
      <3>5. CASE slot[b].state = "queued"
        BY <3>3, <3>4, <3>5 DEF ProgressOf
      <3>6. CASE slot[b].state = "running"
        BY <3>2, <3>3, <3>4, <3>6 DEF ProgressOf, RunningInOrder
      <3> QED
        BY <3>5, <3>6 DEF ProgressOf
    <2> QED
      BY <2>1, <2>2
  <1> QED
    BY <1>2, <1>3, <1>4

\* What a step of the runner has to show for itself.
LEMMA RunnerRule ==
  ASSUME IInv, NEW a \in Agents, NEW cs \in ClaimSets,
         slot[a].claim_set = cs,
         UNCHANGED <<process, healthy, sched, owner, orphans, dropped>>,
         slot' \in [Agents -> SlotStates],
         run' \in [Agents -> RunnerStates],
         emitted' \in [Claims -> [EventEnum -> Nat]],
         \A c \in Claims \ ClaimsOf[cs] : emitted'[c] = emitted[c],
         \A b \in Agents \ {a} : slot'[b] = slot[b] /\ run'[b] = run[b],
         \/ slot'[a].state # "idle" /\ slot'[a].claim_set = cs
         \/ slot'[a] = IdleSlot /\ Finished(cs)',
         slot'[a].state = "running" <=> run'[a].at # "sleep",
         ProgressOf(a)'
  PROVE  IInv'
  <1>1. /\ owner[cs] = a
        /\ slot[a].state # "idle"
        /\ sched[a].at = "sleep"
    BY DEF IInv, SlotIsOwned, SlotMatchesRunner, SlotFreeWhilePolling
  <1>2. /\ \A ds \in ClaimSets \ {cs} : Untouched(ds) => Untouched(ds)'
        /\ \A ds \in ClaimSets \ {cs} : Finished(ds) => Finished(ds)'
        /\ \A b \in Agents \ {a} : ProgressOf(b)'
    BY <1>1, OnlyOwnSetMoves
  <1>3. TypeOK'
    BY DEF IInv, TypeOK
  <1>4. SlotFreeWhilePolling'
    BY <1>1 DEF IInv, SlotFreeWhilePolling
  <1>5. SlotIsOwned'
    BY <1>1, AsleepAndIdle DEF IInv, SlotIsOwned
  <1>6. TakenSetsAccountedFor'
    <2>1. \A ds \in ClaimSets : Finished(ds) =>
             Finished(ds)' \/ slot'[a].claim_set = ds
      BY <1>2
    <2>2. \A b \in Agents, ds \in ClaimSets : slot[b].claim_set = ds =>
             slot'[b].claim_set = ds \/ Finished(ds)'
      OBVIOUS
    <2>3. \A b \in Agents : b # a => owner[cs] # b
      BY <1>1
    <2> QED
      BY <1>1, <1>2, <2>1, <2>2, <2>3 DEF IInv, TakenSetsAccountedFor, Acknowledges
  <1>7. AcknowledgedOnce'
    <2>1. \A b \in Agents :
             sched[b].at \in Acknowledging \cup {"listed"}
               <=> sched[b].claim_set \in ClaimSets
      BY DEF IInv, AcknowledgedOnce
    <2>2. \A ds \in ClaimSets : owner[ds] = Nobody => Untouched(ds)'
      BY <1>1, <1>2 DEF IInv, AcknowledgedOnce
    <2>3. \A b \in Agents, ds \in ClaimSets :
             sched[b].at = "accepted" /\ sched[b].claim_set = ds =>
               owner[ds] = b /\ Untouched(ds)'
      BY <1>1, <1>2 DEF IInv, AcknowledgedOnce
    <2>4. \A b \in Agents : sched[b].at = "accepted" => sched[b].at \in Acknowledging
      BY DEF Acknowledging, Requested
    <2> QED
      BY <2>1, <2>2, <2>3, <2>4 DEF AcknowledgedOnce
  <1>8. SlotMatchesRunner'
    BY AsleepAndIdle DEF IInv, SlotMatchesRunner
  <1>9. ProgressInOrder'
    BY <1>2 DEF ProgressInOrder
  <1>10. OrphansAccountedFor'
    BY DEF IInv, OrphansAccountedFor, Acknowledges
  <1> QED
    BY <1>3, <1>4, <1>5, <1>6, <1>7, <1>8, <1>9, <1>10 DEF IInv

\* What the slot of an agent says of the set in it.
LEMMA InTheSlot ==
  ASSUME IInv, NEW a \in Agents, slot[a].state # "idle"
  PROVE  /\ slot[a].claim_set \in ClaimSets
         /\ owner[slot[a].claim_set] = a
         /\ ClaimsOf[slot[a].claim_set] \subseteq Claims
  <1>1. slot[a].claim_set \in ClaimSets \cup {NoClaimSet}
    BY DEF IInv, TypeOK, SlotStates
  <1>2. slot[a].claim_set \in ClaimSets
    BY <1>1 DEF IInv, SlotMatchesRunner
  <1> QED
    BY <1>2 DEF IInv, SlotIsOwned, ClaimOrderAssumption

\* The claim under way is current, and the ones after it and before it are where
\* they should be.
LEMMA Current ==
  ASSUME IInv, NEW a \in Agents, run[a].at # "sleep"
  PROVE  /\ slot[a].state = "running"
         /\ slot[a].claim_set \in ClaimSets
         /\ owner[slot[a].claim_set] = a
         /\ ClaimsOf[slot[a].claim_set] \subseteq Claims
         /\ run[a].claim \in ClaimsOf[slot[a].claim_set]
         /\ RunningInOrder(slot[a].claim_set, run[a])
  <1>1. slot[a].state = "running"
    BY DEF IInv, SlotMatchesRunner
  <1>2. RunningInOrder(slot[a].claim_set, run[a])
    BY <1>1 DEF IInv, ProgressInOrder, ProgressOf
  <1> QED
    BY <1>1, <1>2, InTheSlot DEF RunningInOrder

LEMMA RunFetchedKeepsIInv ==
  ASSUME IInv, NEW a \in Agents, RunFetched(a)
  PROVE  IInv'
  <1> DEFINE cs == slot[a].claim_set
  <1>1. TypeOK /\ run[a].at = "fetch"
    BY DEF IInv, RunFetched
  <1>2. /\ slot[a].state = "running"
        /\ cs \in ClaimSets
        /\ RunningInOrder(cs, run[a])
    BY <1>1, Current
  <1>3. /\ run' \in [Agents -> RunnerStates]
        /\ run'[a].at = "execute"
        /\ run'[a].claim = run[a].claim
        /\ run'[a].todo = run[a].todo
        /\ \A b \in Agents \ {a} : run'[b] = run[b]
    BY <1>1, RunnerMovesTo DEF RunFetched
  <1>4. UNCHANGED <<process, healthy, slot, sched, owner, orphans, emitted, dropped>>
    BY DEF RunFetched
  <1>5. ProgressOf(a)'
    <2>1. RunningInOrder(cs, run[a])'
      BY <1>1, <1>2, <1>3, <1>4 DEF RunningInOrder, Waiting, Started
    <2> QED
      BY <1>2, <1>4, <2>1 DEF ProgressOf
  <1> QED
    BY <1>1, <1>2, <1>3, <1>4, <1>5, RunnerRule DEF TypeOK

\* The current claim ends and the runner pauses, its claim counted once more.
LEMMA PauseKeepsIInv ==
  ASSUME IInv, NEW a \in Agents, run[a].at \in {"fetch", "execute"},
         NEW e \in {"success", "failed"}, Emit(run[a].claim, e),
         e = "failed" => ~StopsOnFailure(slot[a].claim_set),
         run' = [run EXCEPT ![a].at = "pause"],
         UNCHANGED <<process, healthy, slot, sched, owner, orphans, dropped>>
  PROVE  IInv'
  <1> DEFINE cs == slot[a].claim_set
             c == run[a].claim
  <1>1. /\ TypeOK
        /\ slot[a].state = "running"
        /\ cs \in ClaimSets
        /\ c \in ClaimsOf[cs]
        /\ c \in Claims
        /\ ClaimsOf[cs] \subseteq Claims
        /\ RunningInOrder(cs, run[a])
    BY Current DEF IInv
  <1>2. /\ run' \in [Agents -> RunnerStates]
        /\ run'[a].at = "pause"
        /\ run'[a].claim = c
        /\ run'[a].todo = run[a].todo
        /\ \A b \in Agents \ {a} : run'[b] = run[b]
    BY <1>1, RunnerMovesTo
  <1>3. e \in EventEnum
    BY DEF EventEnum
  <1>4. /\ emitted' \in [Claims -> [EventEnum -> Nat]]
        /\ emitted'[c][e] = emitted[c][e] + 1
        /\ \A d \in Claims, f \in EventEnum :
             d # c \/ f # e => emitted'[d][f] = emitted[d][f]
    BY <1>1, <1>3, EmitCounts
  <1>5. \A d \in Claims \ {c} : emitted'[d] = emitted[d]
    BY <1>1, <1>4 DEF TypeOK
  <1>6. Started(c, 1)' /\ (StopsOnFailure(cs) => emitted'[c]["failed"] = 0)
    <2>1. Started(c, 0) /\ (StopsOnFailure(cs) => emitted[c]["failed"] = 0)
      BY <1>1 DEF RunningInOrder
    <2>2. \A f \in EventEnum : emitted[c][f] \in Nat
      BY <1>1 DEF TypeOK
    <2> QED
      BY <1>1, <1>2, <1>4, <2>1, <2>2 DEF Started, EventEnum
  <1>7. ProgressOf(a)'
    <2>1. RunningInOrder(cs, run[a])'
      <3>1. /\ run[a].todo \subseteq ClaimsOf[cs]
            /\ \A d \in run[a].todo : Before(c, d) /\ Waiting(d)
            /\ \A d \in ClaimsOf[cs] \ (run[a].todo \cup {c}) :
                 /\ Before(d, c)
                 /\ Started(d, 1)
                 /\ StopsOnFailure(cs) => emitted[d]["failed"] = 0
        BY <1>1 DEF RunningInOrder
      <3>2. c \notin run[a].todo
        BY <1>1, <1>3, <3>1 DEF RunningInOrder, Started, Waiting
      <3> QED
        BY <1>1, <1>2, <1>5, <1>6, <3>1, <3>2 DEF RunningInOrder, Started, Waiting
    <2> QED
      BY <1>1, <2>1 DEF ProgressOf
  <1>8. /\ slot' \in [Agents -> SlotStates]
        /\ slot'[a].state = "running"
        /\ slot'[a].claim_set = cs
        /\ run'[a].at # "sleep"
        /\ \A b \in Agents \ {a} : slot'[b] = slot[b] /\ run'[b] = run[b]
    BY <1>1, <1>2 DEF TypeOK
  <1>9. \A d \in Claims \ ClaimsOf[cs] : emitted'[d] = emitted[d]
    BY <1>1, <1>5
  <1> QED
    BY <1>1, <1>2, <1>4, <1>7, <1>8, <1>9, RunnerRule

LEMMA ClaimSucceedsKeepsIInv ==
  ASSUME IInv, NEW a \in Agents, ClaimSucceeds(a)
  PROVE  IInv'
  BY PauseKeepsIInv DEF ClaimSucceeds

LEMMA ClaimFailsKeepsIInv ==
  ASSUME IInv, NEW a \in Agents, ClaimFails(a)
  PROVE  IInv'
  <1>0. PICK cs \in ClaimSets, c \in Claims :
          cs = slot[a].claim_set /\ c = run[a].claim /\ c \in ClaimsOf[cs]
    BY Current DEF ClaimFails
  <1>1. CASE ~StopsOnFailure(cs)
    BY <1>0, <1>1, PauseKeepsIInv DEF ClaimFails
  <1>2. CASE StopsOnFailure(cs)
    <2>1. /\ slot' = [slot EXCEPT ![a] = IdleSlot]
          /\ run' = [run EXCEPT ![a] = RunnerAsleep]
          /\ Emit(c, "failed")
          /\ run[a].at # "sleep"
          /\ UNCHANGED <<process, healthy, sched, owner, orphans, dropped>>
      BY <1>0, <1>2 DEF ClaimFails
    <2>2. TypeOK /\ c \in ClaimsOf[cs]
      BY <1>0 DEF IInv
    <2>3. /\ slot' \in [Agents -> SlotStates]
          /\ slot'[a] = IdleSlot
          /\ \A b \in Agents \ {a} : slot'[b] = slot[b]
      BY <2>1, <2>2, AsleepAndIdle, SlotBecomes
    <2>4. /\ run' \in [Agents -> RunnerStates]
          /\ run'[a] = RunnerAsleep
          /\ \A b \in Agents \ {a} : run'[b] = run[b]
      BY <2>1, <2>2, AsleepAndIdle, RunnerBecomes
    <2>5. /\ emitted' \in [Claims -> [EventEnum -> Nat]]
          /\ emitted'[c]["failed"] = emitted[c]["failed"] + 1
          /\ \A d \in Claims, f \in EventEnum :
               d # c \/ f # "failed" => emitted'[d][f] = emitted[d][f]
      BY <2>1, <2>2, EmitCounts DEF EventEnum
    <2>6. \A d \in Claims \ {c} : emitted'[d] = emitted[d]
      BY <2>2, <2>5 DEF TypeOK
    <2>7. Finished(cs)'
      <3>1. emitted[c]["failed"] \in Nat
        BY <2>2 DEF TypeOK, EventEnum
      <3>2. emitted'[c]["failed"] > 0
        BY <2>5, <3>1
      <3>3. \E d \in ClaimsOf[cs] : emitted'[d]["failed"] > 0
        BY <2>2, <3>2
      <3>4. \A ds \in ClaimSets : StopsOnFailure(ds) /\
               (\E d \in ClaimsOf[ds] : emitted'[d]["failed"] > 0) => Finished(ds)'
        BY DEF Finished
      <3> QED
        BY <1>2, <2>2, <3>3, <3>4
    <2>8. ProgressOf(a)'
      BY <2>3, AsleepAndIdle DEF ProgressOf
    <2> QED
      BY <1>0, <2>1, <2>2, <2>3, <2>4, <2>5, <2>6, <2>7, <2>8, AsleepAndIdle, RunnerRule
  <1> QED
    BY <1>1, <1>2

LEMMA BeforeIsTransitive ==
  ASSUME NEW c \in Claims, NEW d \in Claims, NEW e \in Claims, Before(c, d), Before(d, e)
  PROVE  Before(c, e)
  <1>1. /\ Position[c] \in Int /\ Position[d] \in Int /\ Position[e] \in Int
        /\ Listed[c] \in Nat /\ Listed[d] \in Nat /\ Listed[e] \in Nat
    BY DEF ClaimOrderAssumption
  <1> QED
    BY <1>1 DEF Before

\* S is what is left of the set cs: the rest of it has ended and comes before S.
LEMMA NextOfKeepsIInv ==
  ASSUME IInv, NEW a \in Agents, NEW cs \in ClaimSets, NEW S \in SUBSET ClaimsOf[cs],
         slot[a].claim_set = cs, slot[a].state # "idle",
         \A c \in S : Waiting(c),
         \A d \in ClaimsOf[cs] \ S :
           /\ \A c \in S : Before(d, c)
           /\ Started(d, 1)
           /\ StopsOnFailure(cs) => emitted[d]["failed"] = 0,
         NextOf(a, S),
         UNCHANGED <<process, healthy, sched, owner, orphans, dropped>>
  PROVE  IInv'
  <1>1. TypeOK /\ ClaimsOf[cs] \subseteq Claims
    BY DEF IInv, ClaimOrderAssumption
  <1>2. CASE S = {}
    <2>1. /\ slot' = [slot EXCEPT ![a] = IdleSlot]
          /\ run' = [run EXCEPT ![a] = RunnerAsleep]
          /\ UNCHANGED emitted
      BY <1>2 DEF NextOf
    <2>2. /\ slot' \in [Agents -> SlotStates]
          /\ slot'[a] = IdleSlot
          /\ \A b \in Agents \ {a} : slot'[b] = slot[b]
      BY <1>1, <2>1, AsleepAndIdle, SlotBecomes
    <2>3. /\ run' \in [Agents -> RunnerStates]
          /\ run'[a] = RunnerAsleep
          /\ \A b \in Agents \ {a} : run'[b] = run[b]
      BY <1>1, <2>1, AsleepAndIdle, RunnerBecomes
    <2>4. Finished(cs)'
      BY <1>2, <2>1 DEF Finished, Started
    <2>5. ProgressOf(a)'
      BY <2>2, AsleepAndIdle DEF ProgressOf
    <2>6. emitted' \in [Claims -> [EventEnum -> Nat]]
      BY <1>1, <2>1 DEF TypeOK
    <2> QED
      BY <2>1, <2>2, <2>3, <2>4, <2>5, <2>6, AsleepAndIdle, RunnerRule
  <1>3. CASE S # {}
    <2>1. PICK c \in S :
            /\ IsFirst(c, S)
            /\ slot' = [slot EXCEPT ![a].state = "running"]
            /\ run' = [run EXCEPT ![a] =
                         [at |-> "fetch", claim |-> c, todo |-> S \ {c}]]
            /\ Emit(c, "executing")
      BY <1>3 DEF NextOf
    <2>2. /\ slot' \in [Agents -> SlotStates]
          /\ slot'[a].state = "running"
          /\ slot'[a].claim_set = cs
          /\ \A b \in Agents \ {a} : slot'[b] = slot[b]
      <3> DEFINE r == [state |-> "running", claim_set |-> cs]
      <3>1. slot[a] \in SlotStates
        BY <1>1 DEF TypeOK
      <3>2. slot' = [slot EXCEPT ![a] = [slot[a] EXCEPT !.state = "running"]]
        BY <2>1
      <3>3. [slot[a] EXCEPT !.state = "running"] = r
        BY <3>1 DEF SlotStates
      <3>4. slot' = [slot EXCEPT ![a] = r]
        BY <3>2, <3>3
      <3>5. r \in SlotStates /\ r.state = "running" /\ r.claim_set = cs
        BY DEF SlotStates, RunnerStatus
      <3> HIDE DEF r
      <3> QED
        BY <1>1, <3>4, <3>5, SlotBecomes
    <2>3. /\ run' \in [Agents -> RunnerStates]
          /\ run'[a].at = "fetch"
          /\ run'[a].claim = c
          /\ run'[a].todo = S \ {c}
          /\ \A b \in Agents \ {a} : run'[b] = run[b]
      <3> DEFINE r == [at |-> "fetch", claim |-> c, todo |-> S \ {c}]
      <3>1. r \in RunnerStates
        BY <1>1 DEF RunnerStates
      <3> QED
        BY <1>1, <2>1, <3>1, RunnerBecomes
    <2>4. c \in Claims /\ "executing" \in EventEnum
      BY <1>1 DEF EventEnum
    <2>5. /\ emitted' \in [Claims -> [EventEnum -> Nat]]
          /\ emitted'[c]["executing"] = emitted[c]["executing"] + 1
          /\ \A d \in Claims, f \in EventEnum :
               d # c \/ f # "executing" => emitted'[d][f] = emitted[d][f]
      BY <1>1, <2>1, <2>4, EmitCounts
    <2>6. \A d \in Claims \ {c} : emitted'[d] = emitted[d]
      BY <1>1, <2>4, <2>5 DEF TypeOK
    <2>7. Started(c, 0)' /\ emitted'[c]["failed"] = 0
      <3>1. Waiting(c)
        OBVIOUS
      <3> QED
        BY <2>4, <2>5, <3>1 DEF Waiting, Started, EventEnum
    <2>8. ProgressOf(a)'
      <3>1. RunningInOrder(cs, run[a])'
        <4>1. \A d \in S \ {c} : Before(c, d) /\ Waiting(d)'
          BY <1>1, <2>1, <2>6 DEF IsFirst, Waiting
        <4>2. \A d \in ClaimsOf[cs] \ S :
                 /\ Before(d, c)
                 /\ Started(d, 1)'
                 /\ StopsOnFailure(cs) => emitted'[d]["failed"] = 0
          BY <1>1, <2>6 DEF Started
        <4>3. ClaimsOf[cs] \ ((S \ {c}) \cup {c}) = ClaimsOf[cs] \ S
          OBVIOUS
        <4> QED
          BY <2>3, <2>7, <4>1, <4>2, <4>3 DEF RunningInOrder
      <3> QED
        BY <2>2, <3>1 DEF ProgressOf
    <2>9. \A d \in Claims \ ClaimsOf[cs] : emitted'[d] = emitted[d]
      BY <2>6
    <2> QED
      BY <2>2, <2>3, <2>5, <2>8, <2>9, RunnerRule
  <1> QED
    BY <1>2, <1>3

LEMMA StartKeepsIInv ==
  ASSUME IInv, NEW a \in Agents, Start(a)
  PROVE  IInv'
  <1>1. PICK cs \in ClaimSets : cs = slot[a].claim_set
    BY InTheSlot DEF Start
  <1>2. \A c \in ClaimsOf[cs] : Waiting(c)
    BY <1>1 DEF IInv, ProgressInOrder, ProgressOf, Start
  <1> QED
    BY <1>1, <1>2, NextOfKeepsIInv DEF Start

\* After a claim has ended, the rest of the set comes after all that has ended.
LEMMA RestOfTheSet ==
  ASSUME IInv, NEW a \in Agents, run[a].at = "pause"
  PROVE  \E cs \in ClaimSets : \E S \in SUBSET ClaimsOf[cs] :
           /\ cs = slot[a].claim_set
           /\ S = run[a].todo
           /\ \A c \in S : Waiting(c)
           /\ \A d \in ClaimsOf[cs] \ S :
                /\ \A c \in S : Before(d, c)
                /\ Started(d, 1)
                /\ StopsOnFailure(cs) => emitted[d]["failed"] = 0
  <1>1. PICK cs \in ClaimSets : cs = slot[a].claim_set
    BY Current
  <1>2. PICK c \in ClaimsOf[cs], S \in SUBSET ClaimsOf[cs] :
          c = run[a].claim /\ S = run[a].todo
    BY <1>1, Current DEF RunningInOrder
  <1>3. /\ Started(c, 1)
        /\ StopsOnFailure(cs) => emitted[c]["failed"] = 0
        /\ \A d \in S : Before(c, d) /\ Waiting(d)
        /\ \A d \in ClaimsOf[cs] \ (S \cup {c}) :
             /\ Before(d, c)
             /\ Started(d, 1)
             /\ StopsOnFailure(cs) => emitted[d]["failed"] = 0
    BY <1>1, <1>2, Current DEF RunningInOrder
  <1>4. ClaimsOf[cs] \subseteq Claims
    BY DEF ClaimOrderAssumption
  <1>5. \A d \in ClaimsOf[cs] \ S :
           /\ \A e \in S : Before(d, e)
           /\ Started(d, 1)
           /\ StopsOnFailure(cs) => emitted[d]["failed"] = 0
    <2> SUFFICES ASSUME NEW d \in ClaimsOf[cs] \ S
                 PROVE  /\ \A e \in S : Before(d, e)
                        /\ Started(d, 1)
                        /\ StopsOnFailure(cs) => emitted[d]["failed"] = 0
      OBVIOUS
    <2>1. CASE d = c
      BY <1>3, <2>1
    <2>2. CASE d # c
      BY <1>3, <1>4, <2>2, BeforeIsTransitive
    <2> QED
      BY <2>1, <2>2
  <1> QED
    BY <1>1, <1>2, <1>3, <1>5

LEMMA NextClaimKeepsIInv ==
  ASSUME IInv, NEW a \in Agents, NextClaim(a)
  PROVE  IInv'
  <1>1. PICK cs \in ClaimSets : \E S \in SUBSET ClaimsOf[cs] :
          /\ cs = slot[a].claim_set
          /\ S = run[a].todo
          /\ \A c \in S : Waiting(c)
          /\ \A d \in ClaimsOf[cs] \ S :
               /\ \A c \in S : Before(d, c)
               /\ Started(d, 1)
               /\ StopsOnFailure(cs) => emitted[d]["failed"] = 0
    BY RestOfTheSet DEF NextClaim
  <1>2. PICK S \in SUBSET ClaimsOf[cs] :
          /\ cs = slot[a].claim_set
          /\ S = run[a].todo
          /\ \A c \in S : Waiting(c)
          /\ \A d \in ClaimsOf[cs] \ S :
               /\ \A c \in S : Before(d, c)
               /\ Started(d, 1)
               /\ StopsOnFailure(cs) => emitted[d]["failed"] = 0
    BY <1>1
  <1>3. slot[a].state # "idle"
    BY Current DEF NextClaim
  <1> QED
    BY <1>2, <1>3, NextOfKeepsIInv DEF NextClaim

-----------------------------------------------------------------------------
(* The accepted acknowledgement *)

LEMMA AckAcceptedEnqueues ==
  ASSUME IInv, NEW a \in Agents, AckAccepted(a)
  PROVE  /\ slot[a].state = "idle"
         /\ sched[a].claim_set \in ClaimSets
         /\ owner[sched[a].claim_set] = a
         /\ Untouched(sched[a].claim_set)
         /\ slot' = [slot EXCEPT ![a] =
                       [state |-> "queued", claim_set |-> sched[a].claim_set]]
         /\ sched' = [sched EXCEPT ![a] = SchedulerAsleep]
         /\ emitted' = [c \in Claims |->
              IF c \in ClaimsOf[sched[a].claim_set]
              THEN [emitted[c] EXCEPT !["queued"] = @ + 1]
              ELSE emitted[c]]
         /\ UNCHANGED <<process, healthy, run, owner, orphans, dropped>>
  <1>1. slot[a].state = "idle"
    BY DEF IInv, SlotFreeWhilePolling, AckAccepted
  <1>2. /\ sched[a].claim_set \in ClaimSets
        /\ owner[sched[a].claim_set] = a
        /\ Untouched(sched[a].claim_set)
    BY DEF IInv, AcknowledgedOnce, AckAccepted, Acknowledging, Requested
  <1> QED
    BY <1>1, <1>2 DEF AckAccepted

LEMMA AckAcceptedKeepsIInv ==
  ASSUME IInv, NEW a \in Agents, AckAccepted(a)
  PROVE  IInv'
  <1>1. PICK cs \in ClaimSets :
          /\ cs = sched[a].claim_set
          /\ owner[cs] = a
          /\ Untouched(cs)
          /\ slot' = [slot EXCEPT ![a] = [state |-> "queued", claim_set |-> cs]]
          /\ sched' = [sched EXCEPT ![a] = SchedulerAsleep]
          /\ emitted' = [c \in Claims |->
               IF c \in ClaimsOf[cs] THEN [emitted[c] EXCEPT !["queued"] = @ + 1]
                                     ELSE emitted[c]]
          /\ UNCHANGED <<process, healthy, run, owner, orphans, dropped>>
    BY AckAcceptedEnqueues
  <1>2. TypeOK /\ slot[a].state = "idle" /\ run[a].at = "sleep"
    BY AckAcceptedEnqueues DEF IInv, SlotMatchesRunner
  <1>3. /\ slot' \in [Agents -> SlotStates]
        /\ slot'[a].state = "queued"
        /\ slot'[a].claim_set = cs
        /\ \A b \in Agents \ {a} : slot'[b] = slot[b]
    <2> DEFINE r == [state |-> "queued", claim_set |-> cs]
    <2>1. r \in SlotStates
      BY DEF SlotStates, RunnerStatus
    <2> QED
      BY <1>1, <1>2, <2>1, SlotBecomes
  <1>4. /\ sched' \in [Agents -> SchedulerStates]
        /\ sched'[a] = SchedulerAsleep
        /\ \A b \in Agents \ {a} : sched'[b] = sched[b]
    BY <1>1, <1>2, AsleepAndIdle, SchedulerBecomes
  <1>5. /\ emitted' \in [Claims -> [EventEnum -> Nat]]
        /\ \A c \in ClaimsOf[cs] :
             /\ emitted'[c]["queued"] = emitted[c]["queued"] + 1
             /\ \A f \in EventEnum \ {"queued"} : emitted'[c][f] = emitted[c][f]
        /\ \A c \in Claims \ ClaimsOf[cs] : emitted'[c] = emitted[c]
    BY <1>1, <1>2, QueueCounts
  <1>6. /\ \A ds \in ClaimSets \ {cs} : Untouched(ds) => Untouched(ds)'
        /\ \A ds \in ClaimSets \ {cs} : Finished(ds) => Finished(ds)'
        /\ \A b \in Agents \ {a} : ProgressOf(b)'
    BY <1>1, <1>3, <1>5, OnlyOwnSetMoves
  <1>7. TypeOK'
    BY <1>1, <1>2, <1>3, <1>4, <1>5 DEF TypeOK
  <1>8. SlotFreeWhilePolling'
    BY <1>3, <1>4, AsleepAndIdle DEF IInv, SlotFreeWhilePolling
  <1>9. SlotIsOwned'
    BY <1>1, <1>3 DEF IInv, SlotIsOwned
  <1>10. TakenSetsAccountedFor'
    <2>1. \A b \in Agents, ds \in ClaimSets : owner[ds] = b /\ ds # cs =>
             \/ process[b] = "stopped"
             \/ Acknowledges(b, ds)'
             \/ slot'[b].claim_set = ds
             \/ Finished(ds)'
             \/ \E says \in Reports : <<b, ds, says>> \in dropped
      <3> SUFFICES ASSUME NEW b \in Agents, NEW ds \in ClaimSets, owner[ds] = b, ds # cs
                   PROVE  \/ process[b] = "stopped"
                          \/ Acknowledges(b, ds)'
                          \/ slot'[b].claim_set = ds
                          \/ Finished(ds)'
                          \/ \E says \in Reports : <<b, ds, says>> \in dropped
        OBVIOUS
      <3>1. \/ process[b] = "stopped"
            \/ Acknowledges(b, ds)
            \/ slot[b].claim_set = ds
            \/ Finished(ds)
            \/ \E says \in Reports : <<b, ds, says>> \in dropped
        BY DEF IInv, TakenSetsAccountedFor
      <3>2. slot[a].claim_set = NoClaimSet
        BY <1>2 DEF IInv, SlotMatchesRunner
      <3> QED
        BY <1>1, <1>3, <1>4, <1>6, <3>1, <3>2 DEF Acknowledges
    <2> QED
      BY <1>1, <1>3, <2>1 DEF TakenSetsAccountedFor
  <1>11. AcknowledgedOnce'
    <2>1. \A b \in Agents :
             sched'[b].at \in Acknowledging \cup {"listed"}
               <=> sched'[b].claim_set \in ClaimSets
      BY <1>4, AsleepAndIdle DEF IInv, AcknowledgedOnce, Acknowledging, Requested
    <2>2. \A ds \in ClaimSets : owner[ds] = Nobody => Untouched(ds)'
      BY <1>1, <1>6 DEF IInv, AcknowledgedOnce
    <2>3. \A b \in Agents, ds \in ClaimSets :
             sched'[b].at = "accepted" /\ sched'[b].claim_set = ds =>
               owner[ds] = b /\ Untouched(ds)'
      BY <1>1, <1>4, <1>6, AsleepAndIdle DEF IInv, AcknowledgedOnce
    <2>4. \A b \in Agents : sched'[b].at = "accepted" => sched'[b].at \in Acknowledging
      BY DEF Acknowledging, Requested
    <2> QED
      BY <1>1, <2>1, <2>2, <2>3, <2>4 DEF AcknowledgedOnce
  <1>12. SlotMatchesRunner'
    BY <1>1, <1>2, <1>3 DEF IInv, SlotMatchesRunner
  <1>13. ProgressInOrder'
    <2>1. \A c \in ClaimsOf[cs] : Waiting(c)'
      <3> SUFFICES ASSUME NEW c \in ClaimsOf[cs] PROVE Waiting(c)'
        OBVIOUS
      <3>1. \A f \in EventEnum : emitted[c][f] = 0
        BY <1>1 DEF Untouched
      <3> QED
        BY <1>5, <3>1 DEF Waiting, EventEnum
    <2>2. ProgressOf(a)'
      BY <1>3, <2>1 DEF ProgressOf
    <2> QED
      BY <1>6, <2>2 DEF ProgressInOrder
  <1>14. OrphansAccountedFor'
    BY <1>1, <1>4 DEF IInv, OrphansAccountedFor, Acknowledges
  <1> QED
    BY <1>7, <1>8, <1>9, <1>10, <1>11, <1>12, <1>13, <1>14 DEF IInv

-----------------------------------------------------------------------------
(* Steps of the process *)

LEMMA SignalKeepsIInv ==
  ASSUME IInv, NEW a \in Agents, Signal(a)
  PROVE  IInv'
  <1>1. /\ process' = [process EXCEPT ![a] = "terminating"]
        /\ process[a] = "running"
        /\ UNCHANGED <<healthy, slot, sched, run, owner, orphans, emitted, dropped>>
    BY DEF Signal, MayIterate
  <1>2. TypeOK'
    BY <1>1 DEF IInv, TypeOK
  <1>3. \A b \in Agents : process[b] = "stopped" => process'[b] = "stopped"
    BY <1>1 DEF IInv, TypeOK
  <1>4. SlotFreeWhilePolling' /\ SlotIsOwned'
    BY <1>1 DEF IInv, SlotFreeWhilePolling, SlotIsOwned
  <1>5. TakenSetsAccountedFor' /\ OrphansAccountedFor'
    BY <1>1, <1>3 DEF IInv, TakenSetsAccountedFor, OrphansAccountedFor, Acknowledges,
        Finished
  <1>6. AcknowledgedOnce' /\ SlotMatchesRunner' /\ ProgressInOrder'
    BY <1>1 DEF IInv, AcknowledgedOnce, Untouched, SlotMatchesRunner, ProgressInOrder,
       ProgressOf, RunningInOrder, Waiting, Started
  <1> QED
    BY <1>2, <1>4, <1>5, <1>6 DEF IInv

LEMMA StopKeepsIInv ==
  ASSUME IInv, NEW a \in Agents, Stop(a)
  PROVE  IInv'
  <1>1. TypeOK
    BY DEF IInv
  <1>2. /\ process' \in [Agents -> {"running", "terminating", "stopped"}]
        /\ healthy' \in [Agents -> BOOLEAN]
        /\ process'[a] = "stopped"
        /\ \A b \in Agents \ {a} : process'[b] = process[b]
        /\ UNCHANGED <<owner, emitted, dropped>>
    BY <1>1 DEF Stop, TypeOK
  <1>3. /\ slot' \in [Agents -> SlotStates]
        /\ slot'[a] = IdleSlot
        /\ \A b \in Agents \ {a} : slot'[b] = slot[b]
    BY <1>1, AsleepAndIdle, SlotBecomes DEF Stop
  <1>4. /\ sched' \in [Agents -> SchedulerStates]
        /\ sched'[a] = SchedulerAsleep
        /\ \A b \in Agents \ {a} : sched'[b] = sched[b]
    BY <1>1, AsleepAndIdle, SchedulerBecomes DEF Stop
  <1>5. /\ run' \in [Agents -> RunnerStates]
        /\ run'[a] = RunnerAsleep
        /\ \A b \in Agents \ {a} : run'[b] = run[b]
    BY <1>1, AsleepAndIdle, RunnerBecomes DEF Stop
  <1>6. /\ orphans' \in SUBSET (Agents \X ClaimSets)
        /\ \A b \in Agents \ {a}, ds \in ClaimSets :
             <<b, ds>> \in orphans' => <<b, ds>> \in orphans
    <2>1. sched[a].at = "wait" => sched[a].claim_set \in ClaimSets
      BY DEF IInv, AcknowledgedOnce, Acknowledging, Requested
    <2>2. orphans \subseteq Agents \X ClaimSets
      BY <1>1 DEF TypeOK
    <2> QED
      BY <2>1, <2>2 DEF Stop
  <1>7. TypeOK'
    BY <1>1, <1>2, <1>3, <1>4, <1>5, <1>6 DEF TypeOK
  <1>8. SlotFreeWhilePolling'
    BY <1>3, <1>4, AsleepAndIdle DEF IInv, SlotFreeWhilePolling
  <1>9. SlotIsOwned'
    BY <1>2, <1>3, AsleepAndIdle DEF IInv, SlotIsOwned
  <1>10. TakenSetsAccountedFor' /\ OrphansAccountedFor'
    <2>1. TakenSetsAccountedFor'
      BY <1>2, <1>3, <1>4 DEF IInv, TakenSetsAccountedFor, Acknowledges, Finished
    <2>2. OrphansAccountedFor'
      BY <1>2, <1>4, <1>6 DEF IInv, OrphansAccountedFor, Acknowledges
    <2> QED
      BY <2>1, <2>2
  <1>11. AcknowledgedOnce'
    BY <1>2, <1>4, AsleepAndIdle
    DEF IInv, AcknowledgedOnce, Untouched, Acknowledging, Requested
  <1>12. SlotMatchesRunner'
    BY <1>3, <1>5, AsleepAndIdle DEF IInv, SlotMatchesRunner
  <1>13. ProgressInOrder'
    <2>1. ProgressOf(a)'
      BY <1>3, AsleepAndIdle DEF ProgressOf
    <2>2. \A b \in Agents \ {a} : ProgressOf(b)'
      BY <1>2, <1>3, <1>5
      DEF IInv, ProgressInOrder, ProgressOf, RunningInOrder, Waiting, Started
    <2> QED
      BY <2>1, <2>2 DEF ProgressInOrder
  <1> QED
    BY <1>7, <1>8, <1>9, <1>10, <1>11, <1>12, <1>13 DEF IInv

-----------------------------------------------------------------------------
(* The theorems *)

LEMMA NextKeepsIInv == IInv /\ [Next]_vars => IInv'
  <1> SUFFICES ASSUME IInv, [Next]_vars PROVE IInv'
    OBVIOUS
  <1>1. ASSUME NEW a \in Agents, AgentNext(a) PROVE IInv'
    <2>1. CASE Heartbeat(a)
      BY <2>1, HeartbeatKeepsIInv
    <2>2. CASE \/ Poll(a) \/ FetchReturns(a)
               \/ FetchReturnsNothing(a) \/ SendAck(a)
      BY <2>2, SchedulerAwaitsKeepsIInv
    <2>3. CASE AckAccepted(a)
      BY <2>3, AckAcceptedKeepsIInv
    <2>4. CASE AuthFails(a) \/ AckUnreadable(a) \/ AckRefused(a) \/ AckGivesUp(a)
      BY <2>4, ErrorKeepsIInv
    <2>5. CASE AckRetry(a)
      BY <2>5, AckRetryKeepsIInv
    <2>6. CASE Start(a)
      BY <2>6, StartKeepsIInv
    <2>7. CASE RunFetched(a)
      BY <2>7, RunFetchedKeepsIInv
    <2>8. CASE ClaimSucceeds(a)
      BY <2>8, ClaimSucceedsKeepsIInv
    <2>9. CASE ClaimFails(a)
      BY <2>9, ClaimFailsKeepsIInv
    <2>10. CASE NextClaim(a)
      BY <2>10, NextClaimKeepsIInv
    <2>11. CASE Signal(a)
      BY <2>11, SignalKeepsIInv
    <2>12. CASE Cancel(a) \/ Kill(a)
      BY <2>12, StopKeepsIInv DEF Cancel, Kill
    <2> QED
      BY <1>1, <2>1, <2>2, <2>3, <2>4, <2>5, <2>6, <2>7, <2>8, <2>9, <2>10, <2>11, <2>12
      DEF AgentNext, SchedulerStep, RunnerStep
  <1>2. ASSUME NEW a \in Agents, ServerLists(a) \/ ServerAck(a) PROVE IInv'
    BY <1>2, SchedulerAwaitsKeepsIInv, ServerAckKeepsIInv
  <1>3. ASSUME NEW a \in Agents, NEW cs \in ClaimSets, OrphanArrives(a, cs) PROVE IInv'
    BY <1>3, OrphanArrivesKeepsIInv
  <1>4. CASE UNCHANGED vars
    <2> USE <1>4 DEF vars
    <2>1. TypeOK'
      BY DEF IInv, TypeOK
    <2>2. SlotFreeWhilePolling' /\ SlotIsOwned' /\ TakenSetsAccountedFor'
      BY DEF IInv, SlotFreeWhilePolling, SlotIsOwned, TakenSetsAccountedFor, Acknowledges, Finished
    <2>3. AcknowledgedOnce' /\ SlotMatchesRunner' /\ ProgressInOrder' /\ OrphansAccountedFor'
      BY DEF IInv, AcknowledgedOnce, Untouched, SlotMatchesRunner, ProgressInOrder,
         ProgressOf, RunningInOrder, Waiting, Started, OrphansAccountedFor,
           Acknowledges
    <2> QED
      BY <2>1, <2>2, <2>3 DEF IInv
  <1> QED
    BY <1>1, <1>2, <1>3, <1>4 DEF Next

(* The inductive invariant holds in every state reached. *)
THEOREM Invariance == Spec => []IInv
  BY InitIInv, NextKeepsIInv, PTL DEF Spec

(* Every variable keeps its type: in particular no acknowledgement is tried
   more than MAX_RETRIES times (BaseAPIClient.request). *)
THEOREM TypeCorrect == Spec => []TypeOK
  <1>1. IInv => TypeOK
    BY DEF IInv
  <1> QED
    BY Invariance, <1>1, PTL

(* The slot is still idle when enqueue looks at it again, however many awaits
   passed since should_execute looked: "slot is busy" is never raised. *)
THEOREM SlotIsNeverBusy == Spec => []SlotFreeWhilePolling
  <1>1. IInv => SlotFreeWhilePolling
    BY DEF IInv
  <1> QED
    BY Invariance, <1>1, PTL

(* A claim set is in one slot at most, that of the agent whose acknowledgement
   was accepted, whatever is retried, lost, late or killed. *)
THEOREM MutualExclusion == Spec => []SlotIsOwned
  <1>1. IInv => SlotIsOwned
    BY DEF IInv
  <1> QED
    BY Invariance, <1>1, PTL

(* A live agent loses a claim set it has acknowledged only through the error
   handler of the scheduler. *)
THEOREM NoSilentLoss == Spec => []TakenSetsAccountedFor
  <1>1. IInv => TakenSetsAccountedFor
    BY DEF IInv
  <1> QED
    BY Invariance, <1>1, PTL

-----------------------------------------------------------------------------
(* Sets that were let go of *)

\* The control plane has given cs to a, but neither is it in the slot of a nor
\* is an accepted answer for it on its way to a.
OutOfHands(a, cs) ==
  /\ owner[cs] = a
  /\ slot[a].claim_set # cs
  /\ ~(sched[a].at = "accepted" /\ sched[a].claim_set = cs)

\* What no step may do to such a set.
LeftAlone(a, cs) ==
  OutOfHands(a, cs)' /\ \A c \in ClaimsOf[cs] : emitted'[c] = emitted[c]

\* The only set a runner counts events of is the one in its slot.
LEMMA RunnerLeavesAlone ==
  ASSUME IInv, NEW a \in Agents, NEW cs \in ClaimSets, OutOfHands(a, cs),
         NEW b \in Agents, Start(b) \/ RunnerStep(b)
  PROVE  LeftAlone(a, cs)
  <1>1. TypeOK /\ UNCHANGED <<sched, owner>>
    BY DEF IInv, Start, RunnerStep, RunFetched, ClaimSucceeds, ClaimFails, NextClaim
  <1>2. PICK ds \in ClaimSets : ds = slot[b].claim_set /\ owner[ds] = b
    <2>1. slot[b].state # "idle"
      BY Current DEF Start, RunnerStep, RunFetched, ClaimSucceeds, ClaimFails, NextClaim
    <2> QED
      BY <2>1, InTheSlot
  <1>3. ClaimsOf[ds] \subseteq Claims /\ ClaimsOf[cs] \subseteq Claims
    BY DEF ClaimOrderAssumption
  <1>4. ClaimsOf[ds] \cap ClaimsOf[cs] = {}
    BY <1>2 DEF ClaimOrderAssumption, OutOfHands
  <1>5. /\ \/ UNCHANGED emitted
           \/ \E c \in ClaimsOf[ds], e \in EventEnum : Emit(c, e)
        /\ \/ UNCHANGED slot
           \/ slot' = [slot EXCEPT ![b] = IdleSlot]
           \/ slot' = [slot EXCEPT ![b].state = "running"]
    <2>1. CASE Start(b)
      BY <1>2, <2>1 DEF Start, NextOf, IsFirst, EventEnum
    <2>2. CASE NextClaim(b)
      <3>1. run[b].todo \subseteq ClaimsOf[ds]
        BY <1>2, <2>2, Current DEF NextClaim, RunningInOrder
      <3> QED
        BY <2>2, <3>1 DEF NextClaim, NextOf, IsFirst, EventEnum
    <2>3. CASE RunFetched(b)
      BY <2>3 DEF RunFetched
    <2>4. CASE ClaimSucceeds(b) \/ ClaimFails(b)
      <3>1. run[b].claim \in ClaimsOf[ds]
        BY <1>2, <2>4, Current DEF ClaimSucceeds, ClaimFails
      <3> QED
        BY <2>4, <3>1 DEF ClaimSucceeds, ClaimFails, EventEnum
    <2> QED
      BY <2>1, <2>2, <2>3, <2>4 DEF RunnerStep
  <1>6. \A c \in ClaimsOf[cs] : emitted'[c] = emitted[c]
    BY <1>1, <1>3, <1>4, <1>5 DEF TypeOK, Emit
  <1>7. slot'[a].claim_set \in {slot[a].claim_set, NoClaimSet}
    <2>1. slot \in [Agents -> SlotStates] /\ slot[b] \in SlotStates
      BY <1>1 DEF TypeOK
    <2>2. CASE slot' = [slot EXCEPT ![b] = IdleSlot]
      BY <2>1, <2>2, AsleepAndIdle
    <2>3. CASE slot' = [slot EXCEPT ![b].state = "running"]
      <3>1. [slot[b] EXCEPT !.state = "running"].claim_set = slot[b].claim_set
        BY <2>1 DEF SlotStates
      <3>2. slot'[a] \in {slot[a], [slot[b] EXCEPT !.state = "running"]}
        BY <2>1, <2>3
      <3>3. a # b => slot'[a] = slot[a]
        BY <2>1, <2>3
      <3> QED
        BY <3>1, <3>2, <3>3
    <2> QED
      BY <1>5, <2>2, <2>3
  <1> QED
    BY <1>1, <1>6, <1>7 DEF OutOfHands, LeftAlone

\* A scheduler may take such a set in hand once more, from an old listing or for
\* the next attempt, but no step of its own makes the answer an acceptance.
LEMMA SchedulerLeavesAlone ==
  ASSUME IInv, NEW a \in Agents, NEW cs \in ClaimSets, OutOfHands(a, cs),
         NEW b \in Agents, Poll(b) \/ ServerLists(b) \/ SchedulerStep(b)
  PROVE  LeftAlone(a, cs)
  <1>1. TypeOK /\ UNCHANGED owner
    BY DEF IInv, ServerLists, Poll, SchedulerStep, FetchReturns, FetchReturnsNothing,
       SendAck, AuthFails, AckAccepted, AckUnreadable, AckRefused, AckRetry, AckGivesUp
  <1>2. CASE AckAccepted(b)
    <2>1. PICK ds \in ClaimSets :
            /\ ds = sched[b].claim_set
            /\ sched[b].at = "accepted"
            /\ owner[ds] = b
            /\ slot' = [slot EXCEPT ![b] = [state |-> "queued", claim_set |-> ds]]
            /\ sched' = [sched EXCEPT ![b] = SchedulerAsleep]
            /\ emitted' = [c \in Claims |->
                 IF c \in ClaimsOf[ds] THEN [emitted[c] EXCEPT !["queued"] = @ + 1]
                                       ELSE emitted[c]]
      BY <1>2, AckAcceptedEnqueues DEF AckAccepted
    <2>2. ds # cs
      BY <2>1 DEF OutOfHands
    <2>3. \A c \in ClaimsOf[cs] : c \in Claims \ ClaimsOf[ds]
      BY <2>2 DEF ClaimOrderAssumption
    <2>4. \A c \in ClaimsOf[cs] : emitted'[c] = emitted[c]
      BY <2>1, <2>3
    <2>5. /\ sched'[a] \in {sched[a], SchedulerAsleep}
          /\ slot'[a].claim_set \in {slot[a].claim_set, ds}
      BY <1>1, <2>1, AsleepAndIdle DEF TypeOK
    <2> QED
      BY <1>1, <2>2, <2>4, <2>5, AsleepAndIdle DEF OutOfHands, LeftAlone
  <1>3. CASE ~AckAccepted(b)
    <2>1. UNCHANGED <<slot, emitted>>
      BY <1>3 DEF Poll, ServerLists, SchedulerStep, FetchReturns, FetchReturnsNothing,
         SendAck, AuthFails, AckUnreadable, AckRefused, AckRetry, AckGivesUp
    <2>2. \/ \E x \in {"fetch", "wait"} : sched' = [sched EXCEPT ![b].at = x]
          \/ sched' = [sched EXCEPT ![b] = SchedulerAsleep]
          \/ \E x \in {"listed", "send"} : \E ds, n :
               sched' = [sched EXCEPT ![b] = [at |-> x, claim_set |-> ds, attempt |-> n]]
      <3>1. CASE ServerLists(b)
        BY <3>1 DEF ServerLists
      <3>2. CASE FetchReturns(b) \/ AckRetry(b)
        BY <3>2 DEF FetchReturns, AckRetry
      <3> QED
        BY <1>3, <3>1, <3>2 DEF Poll, SchedulerStep, FetchReturnsNothing, SendAck,
           AuthFails, AckUnreadable, AckRefused, AckGivesUp, Drop
    <2>3. sched \in [Agents -> SchedulerStates] /\ sched[b] \in SchedulerStates
      BY <1>1 DEF TypeOK
    <2>4. /\ \A d \in Agents \ {b} : sched'[d] = sched[d]
          /\ sched'[b].at # "accepted"
      <3>1. CASE \E x \in {"fetch", "wait"} : sched' = [sched EXCEPT ![b].at = x]
        <4>1. PICK x \in {"fetch", "wait"} : sched' = [sched EXCEPT ![b].at = x]
          BY <3>1
        <4>2. x \in SchedulerPlaces
          BY DEF SchedulerPlaces, Acknowledging, Requested
        <4> QED
          BY <1>1, <4>1, <4>2, SchedulerMovesTo
      <3>2. CASE sched' = [sched EXCEPT ![b] = SchedulerAsleep]
        BY <2>3, <3>2, AsleepAndIdle
      <3>3. CASE \E x \in {"listed", "send"} : \E ds, n :
              sched' = [sched EXCEPT ![b] = [at |-> x, claim_set |-> ds, attempt |-> n]]
        BY <2>3, <3>3
      <3> QED
        BY <2>2, <3>1, <3>2, <3>3
    <2> QED
      BY <1>1, <2>1, <2>4 DEF OutOfHands, LeftAlone
  <1> QED
    BY <1>2, <1>3

\* The control plane answers an acknowledgement of a taken set with a conflict,
\* and one that comes late with nothing at all.
LEMMA ControlPlaneLeavesAlone ==
  ASSUME IInv, NEW a \in Agents, NEW cs \in ClaimSets, OutOfHands(a, cs),
         NEW b \in Agents,
         ServerAck(b) \/ \E ds \in ClaimSets : OrphanArrives(b, ds)
  PROVE  LeftAlone(a, cs)
  <1>1. TypeOK /\ owner[cs] # Nobody /\ UNCHANGED <<slot, emitted>>
    BY ScenarioAgentsAssumption DEF IInv, OutOfHands, ServerAck, OrphanArrives
  <1>2. owner'[cs] = owner[cs]
    BY <1>1 DEF TypeOK, ServerAck, OrphanArrives, Acknowledged
  <1>3. ~(sched'[a].at = "accepted" /\ sched'[a].claim_set = cs)
    <2>1. CASE ServerAck(b)
      <3>1. PICK x \in {"accepted", "conflict"} :
              /\ sched' = [sched EXCEPT ![b].at = x]
              /\ x = "accepted" => owner[sched[b].claim_set] = Nobody
        BY <2>1 DEF ServerAck
      <3>2. x \in SchedulerPlaces
        BY DEF SchedulerPlaces, Acknowledging, Requested
      <3>3. /\ sched'[b].at = x
            /\ sched'[b].claim_set = sched[b].claim_set
            /\ \A d \in Agents \ {b} : sched'[d] = sched[d]
        BY <1>1, <3>1, <3>2, SchedulerMovesTo
      <3> QED
        BY <1>1, <3>1, <3>3 DEF OutOfHands
    <2>2. CASE \E ds \in ClaimSets : OrphanArrives(b, ds)
      BY <2>2 DEF OrphanArrives, OutOfHands
    <2> QED
      BY <2>1, <2>2
  <1> QED
    BY <1>1, <1>2, <1>3 DEF OutOfHands, LeftAlone

LEMMA ProcessLeavesAlone ==
  ASSUME IInv, NEW a \in Agents, NEW cs \in ClaimSets, OutOfHands(a, cs),
         NEW b \in Agents, Heartbeat(b) \/ Signal(b) \/ Cancel(b) \/ Kill(b)
  PROVE  LeftAlone(a, cs)
  <1>1. TypeOK /\ UNCHANGED <<owner, emitted>>
    BY DEF IInv, Heartbeat, Signal, Cancel, Kill, Stop
  <1>2. /\ sched'[a] \in {sched[a], SchedulerAsleep}
        /\ slot'[a].claim_set \in {slot[a].claim_set, NoClaimSet}
    BY <1>1, AsleepAndIdle DEF TypeOK, Heartbeat, Signal, Cancel, Kill, Stop
  <1> QED
    BY <1>1, <1>2, AsleepAndIdle, ScenarioAgentsAssumption DEF OutOfHands, LeftAlone

LEMMA StepLeavesAlone ==
  ASSUME IInv, [Next]_vars, NEW a \in Agents, NEW cs \in ClaimSets, OutOfHands(a, cs)
  PROVE  LeftAlone(a, cs)
  <1>1. CASE UNCHANGED vars
    BY <1>1 DEF vars, OutOfHands, LeftAlone
  <1>2. ASSUME NEW b \in Agents, AgentNext(b) PROVE LeftAlone(a, cs)
    BY <1>2, RunnerLeavesAlone, SchedulerLeavesAlone, ProcessLeavesAlone DEF AgentNext
  <1>3. ASSUME NEW b \in Agents,
               \/ ServerLists(b) \/ ServerAck(b)
               \/ \E ds \in ClaimSets : OrphanArrives(b, ds)
        PROVE  LeftAlone(a, cs)
    BY <1>3, SchedulerLeavesAlone, ControlPlaneLeavesAlone
  <1> QED
    BY <1>1, <1>2, <1>3 DEF Next

(* Once a set is taken for an agent that neither holds it nor is about to be told
   so, and has not run to its end, no poll, retry, restart or late
   acknowledgement of any agent brings it back: it is never queued and none of
   its claims runs. This includes the agent that takes it in hand again from a
   listing older than its own acknowledgement. *)
THEOREM LostIsLost == Spec => LetGoForGood
  <1>1. ASSUME IInv, [Next]_vars, NEW cs \in ClaimSets, LetGo(cs)
        PROVE  LetGo(cs)' /\ \A c \in ClaimsOf[cs] : emitted'[c] = emitted[c]
    <2>1. PICK a \in Agents : OutOfHands(a, cs)
      BY <1>1 DEF LetGo, OutOfHands
    <2>2. LeftAlone(a, cs)
      BY <1>1, <2>1, StepLeavesAlone
    <2>3. ~Finished(cs)'
      BY <1>1, <2>2 DEF LetGo, Finished, LeftAlone
    <2> QED
      BY <2>2, <2>3 DEF LetGo, OutOfHands, LeftAlone
  <1>2. IInv /\ [Next]_vars =>
          [\A cs \in ClaimSets : LetGo(cs) =>
             LetGo(cs)' /\ \A c \in ClaimsOf[cs] : emitted'[c] = emitted[c]]_vars
    BY <1>1
  <1> QED
    BY <1>2, Invariance, PTL DEF Spec, LetGoForGood

-----------------------------------------------------------------------------
(* The order of the claims *)

\* One claim of S comes first, and only one.
HasFirst(S) == \E c \in S : IsFirst(c, S) /\ \A d \in S : IsFirst(d, S) => d = c

(* Whatever positions the claims of a set have, equal ones included, and however
   many are left, one of them is the next. *)
LEMMA FirstClaimExists ==
  ASSUME NEW cs \in ClaimSets, NEW S \in SUBSET ClaimsOf[cs], S # {}
  PROVE  HasFirst(S)
  <1> DEFINE R == {p \in S \X S : Before(p[1], p[2])}
  <1>1. IsFiniteSet(S)
    BY ClaimsAreFinite, FS_Subset
  <1>2. \A c \in S : /\ c \in Claims /\ c \in ClaimsOf[cs]
                     /\ Position[c] \in Int /\ Listed[c] \in Nat
    BY DEF ClaimOrderAssumption
  <1>3. \A c, d \in S : <<c, d>> \in R <=> Before(c, d)
    OBVIOUS
  <1>4. \A c \in S : ~ Before(c, c)
    BY <1>2 DEF Before
  <1>5. \A c, d, e \in S : Before(c, d) /\ Before(d, e) => Before(c, e)
    BY <1>2, BeforeIsTransitive
  <1>6. \A c, d \in S : c # d => Before(c, d) \/ Before(d, c)
    <2> SUFFICES ASSUME NEW c \in S, NEW d \in S, c # d
                 PROVE  Before(c, d) \/ Before(d, c)
      OBVIOUS
    <2>1. Listed[c] # Listed[d]
      BY <1>2 DEF ClaimOrderAssumption
    <2> QED
      BY <1>2, <2>1 DEF Before
  <1> HIDE DEF R
  <1>7. PICK c \in S : \A d \in S : <<d, c>> \notin R
    <2>1. \A c \in S : <<c, c>> \notin R
      BY <1>3, <1>4
    <2>2. \A c, d, e \in S : <<c, d>> \in R /\ <<d, e>> \in R => <<c, e>> \in R
      BY <1>3, <1>5
    <2> QED
      BY <1>1, <2>1, <2>2, FiniteOrderHasLeast
  <1>8. IsFirst(c, S)
    BY <1>3, <1>6, <1>7 DEF IsFirst
  <1>9. \A d \in S : IsFirst(d, S) => d = c
    BY <1>4, <1>5, <1>8 DEF IsFirst
  <1> QED
    BY <1>8, <1>9 DEF HasFirst

(* The runner is never at a loss: between two claims either the set is done or
   the claim to start next is determined, whatever positions the control plane
   gave the claims. *)
THEOREM NextClaimIsDetermined ==
  Spec => [](\A a \in Agents :
               run[a].at = "pause" => run[a].todo = {} \/ HasFirst(run[a].todo))
  <1>1. ASSUME IInv, NEW a \in Agents, run[a].at = "pause", run[a].todo # {}
        PROVE  HasFirst(run[a].todo)
    <2>1. slot[a].claim_set \in ClaimSets /\ run[a].todo \subseteq ClaimsOf[slot[a].claim_set]
      BY <1>1, Current DEF RunningInOrder
    <2>2. PICK S : S = run[a].todo
      OBVIOUS
    <2>3. S \in SUBSET ClaimsOf[slot[a].claim_set] /\ S # {}
      BY <1>1, <2>1, <2>2
    <2>4. HasFirst(S)
      BY <2>1, <2>3, FirstClaimExists
    <2> QED
      BY <2>2, <2>4
  <1>2. IInv => \A a \in Agents :
                  run[a].at = "pause" => run[a].todo = {} \/ HasFirst(run[a].todo)
    BY <1>1
  <1> QED
    BY <1>2, Invariance, PTL

=============================================================================
