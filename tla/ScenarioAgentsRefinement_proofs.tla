-------------------- MODULE ScenarioAgentsRefinement_proofs --------------------
(***************************************************************************)
(* Proof that ScenarioAgents implements ClaimSetDelivery: every step of an *)
(* agent, of the control plane or of the network is a step of the abstract *)
(* specification or leaves its two variables unchanged. The guards of the  *)
(* abstract steps come from the inductive invariant.                       *)
(***************************************************************************)
EXTENDS ScenarioAgents_proofs

USE DEF SetHealth, IsIdle, IsQueued, Enqueue, MarkRunning, ResetToIdle

LEMMA InitRefines == Init => Delivery!Init
  BY DEF Init, Delivery!Init, EventEnum, Delivery!EventEnum

LEMMA AcknowledgedRefines ==
  ASSUME IInv, NEW a \in Agents, NEW cs \in ClaimSets, Acknowledged(a, cs),
         UNCHANGED emitted
  PROVE  [Delivery!Next]_Delivery!vars
  <1>1. CASE owner[cs] = Nobody
    <2>1. owner' = [owner EXCEPT ![cs] = a]
      BY <1>1 DEF Acknowledged
    <2>2. Delivery!Acknowledge(cs)
      BY <1>1, <2>1 DEF Delivery!Acknowledge
    <2> QED
      BY <2>2 DEF Delivery!Next
  <1>2. CASE owner[cs] # Nobody
    BY <1>2 DEF Acknowledged, Delivery!vars
  <1> QED
    BY <1>1, <1>2

LEMMA AckAcceptedRefines ==
  ASSUME IInv, NEW a \in Agents, AckAccepted(a)
  PROVE  [Delivery!Next]_Delivery!vars
  <1>1. PICK cs \in ClaimSets :
          /\ owner[cs] = a
          /\ Untouched(cs)
          /\ emitted' = [c \in Claims |->
               IF c \in ClaimsOf[cs] THEN [emitted[c] EXCEPT !["queued"] = @ + 1]
                                     ELSE emitted[c]]
          /\ UNCHANGED owner
    BY AckAcceptedEnqueues
  <1>2. \A c \in ClaimsOf[cs], e \in EventEnum : emitted[c][e] = 0
    BY <1>1 DEF Untouched
  <1>3. \A c \in ClaimsOf[cs] : emitted[c]["queued"] + 1 = 1
    BY <1>2 DEF EventEnum
  <1>4. emitted' = [c \in Claims |->
               IF c \in ClaimsOf[cs] THEN [emitted[c] EXCEPT !["queued"] = 1]
                                     ELSE emitted[c]]
    BY <1>1, <1>3
  <1>5. owner[cs] # Nobody
    BY <1>1, ScenarioAgentsAssumption
  <1>6. EventEnum = Delivery!EventEnum
    BY DEF EventEnum, Delivery!EventEnum
  <1>7. Delivery!Queue(cs)
    BY <1>1, <1>2, <1>4, <1>5, <1>6 DEF Delivery!Queue
  <1> QED
    BY <1>7 DEF Delivery!Next

\* S is what is left of the set cs, as in NextOfKeepsIInv.
LEMMA NextOfRefines ==
  ASSUME IInv, NEW a \in Agents, NEW cs \in ClaimSets, NEW S \in SUBSET ClaimsOf[cs],
         \A c \in S : Waiting(c),
         \A d \in ClaimsOf[cs] \ S :
           /\ \A c \in S : Before(d, c)
           /\ Started(d, 1)
           /\ StopsOnFailure(cs) => emitted[d]["failed"] = 0,
         NextOf(a, S),
         UNCHANGED owner
  PROVE  [Delivery!Next]_Delivery!vars
  <1>1. CASE UNCHANGED emitted
    BY <1>1 DEF Delivery!vars
  <1>2. CASE ~ UNCHANGED emitted
    <2>1. PICK c \in S : IsFirst(c, S) /\ Emit(c, "executing")
      BY <1>2 DEF NextOf
    <2>2. emitted[c]["executing"] = 0
      BY <2>1 DEF Waiting
    <2>3. emitted' = [emitted EXCEPT ![c]["executing"] = 1]
      BY <2>1, <2>2 DEF Emit
    <2>4. \A d \in ClaimsOf[cs] : emitted[d]["queued"] = 1
      BY DEF Waiting, Started
    <2>5. \A d \in S \ {c} : Delivery!Before(c, d) /\ emitted[d]["executing"] = 0
      BY <2>1 DEF IsFirst, Before, Delivery!Before, Waiting
    <2>6. \A d \in ClaimsOf[cs] \ S :
             /\ Delivery!Before(d, c)
             /\ Delivery!Ended(d)
             /\ Delivery!StopsOnFailure(cs) => emitted[d]["failed"] = 0
      BY <2>1 DEF Before, Delivery!Before, Started, Delivery!Ended,
                  StopsOnFailure, Delivery!StopsOnFailure
    <2>7. Delivery!Start(cs, c)
      BY <2>1, <2>2, <2>3, <2>4, <2>5, <2>6 DEF Delivery!Start
    <2> QED
      BY <2>1, <2>7 DEF Delivery!Next
  <1> QED
    BY <1>1, <1>2

LEMMA StartRefines ==
  ASSUME IInv, NEW a \in Agents, Start(a)
  PROVE  [Delivery!Next]_Delivery!vars
  <1>1. PICK cs \in ClaimSets : cs = slot[a].claim_set
    BY InTheSlot DEF Start
  <1>2. \A c \in ClaimsOf[cs] : Waiting(c)
    BY <1>1 DEF IInv, ProgressInOrder, ProgressOf, Start
  <1> QED
    BY <1>1, <1>2, NextOfRefines DEF Start

LEMMA NextClaimRefines ==
  ASSUME IInv, NEW a \in Agents, NextClaim(a)
  PROVE  [Delivery!Next]_Delivery!vars
  <1>1. PICK cs \in ClaimSets : \E S \in SUBSET ClaimsOf[cs] :
          /\ S = run[a].todo
          /\ \A c \in S : Waiting(c)
          /\ \A d \in ClaimsOf[cs] \ S :
               /\ \A c \in S : Before(d, c)
               /\ Started(d, 1)
               /\ StopsOnFailure(cs) => emitted[d]["failed"] = 0
    BY RestOfTheSet DEF NextClaim
  <1> QED
    BY <1>1, NextOfRefines DEF NextClaim

LEMMA ClaimEndsRefines ==
  ASSUME IInv, NEW a \in Agents, ClaimSucceeds(a) \/ ClaimFails(a)
  PROVE  [Delivery!Next]_Delivery!vars
  <1>0. PICK cs \in ClaimSets : \E c \in ClaimsOf[cs] :
          c = run[a].claim /\ Started(c, 0) /\ c \in Claims
    BY Current DEF RunningInOrder, ClaimSucceeds, ClaimFails
  <1>1. PICK c \in ClaimsOf[cs] :
          c = run[a].claim /\ Started(c, 0) /\ c \in Claims
    BY <1>0
  <1>2. PICK e \in {"success", "failed"} : Emit(c, e) /\ UNCHANGED owner
    BY <1>1 DEF ClaimSucceeds, ClaimFails
  <1>3. emitted[c]["success"] \in Nat /\ emitted[c]["failed"] \in Nat
    BY <1>1 DEF IInv, TypeOK, EventEnum
  <1>4. emitted[c][e] = 0
    BY <1>1, <1>3 DEF Started
  <1>5. emitted' = [emitted EXCEPT ![c][e] = 1]
    BY <1>2, <1>4 DEF Emit
  <1>6. emitted[c]["executing"] = 1 /\ ~ Delivery!Ended(c)
    BY <1>1 DEF Delivery!Ended, Started
  <1>7. Delivery!End(c)
    BY <1>2, <1>5, <1>6 DEF Delivery!End
  <1> QED
    BY <1>7 DEF Delivery!Next

LEMMA NextRefines == IInv /\ [Next]_vars => [Delivery!Next]_Delivery!vars
  <1> SUFFICES ASSUME IInv, [Next]_vars PROVE [Delivery!Next]_Delivery!vars
    OBVIOUS
  <1>1. ASSUME NEW a \in Agents, AgentNext(a) PROVE [Delivery!Next]_Delivery!vars
    <2>1. CASE AckAccepted(a)
      BY <2>1, AckAcceptedRefines
    <2>2. CASE Start(a)
      BY <2>2, StartRefines
    <2>3. CASE NextClaim(a)
      BY <2>3, NextClaimRefines
    <2>4. CASE ClaimSucceeds(a) \/ ClaimFails(a)
      BY <2>4, ClaimEndsRefines
    <2>5. CASE ~ (\/ AckAccepted(a) \/ Start(a) \/ NextClaim(a)
                  \/ ClaimSucceeds(a) \/ ClaimFails(a))
      <3>1. UNCHANGED <<owner, emitted>>
        BY <1>1, <2>5 DEF AgentNext, SchedulerStep, RunnerStep, Heartbeat, Poll,
           FetchReturns, FetchReturnsNothing, SendAck, AuthFails, AckUnreadable,
           AckRefused, AckRetry, AckGivesUp, RunFetched, Signal, Cancel, Kill, Stop
      <3> QED
        BY <3>1 DEF Delivery!vars
    <2> QED
      BY <2>1, <2>2, <2>3, <2>4, <2>5
  <1>2. ASSUME NEW a \in Agents, ServerAck(a) PROVE [Delivery!Next]_Delivery!vars
    <2>1. sched[a].claim_set \in ClaimSets
      BY <1>2 DEF IInv, AcknowledgedOnce, ServerAck, Acknowledging, Requested
    <2> QED
      BY <1>2, <2>1, AcknowledgedRefines DEF ServerAck
  <1>3. ASSUME NEW a \in Agents, NEW cs \in ClaimSets, OrphanArrives(a, cs)
        PROVE  [Delivery!Next]_Delivery!vars
    BY <1>3, AcknowledgedRefines DEF OrphanArrives
  <1>4. ASSUME NEW a \in Agents, ServerLists(a) PROVE [Delivery!Next]_Delivery!vars
    BY <1>4 DEF ServerLists, Delivery!vars
  <1>5. CASE UNCHANGED vars
    BY <1>5 DEF vars, Delivery!vars
  <1> QED
    BY <1>1, <1>2, <1>3, <1>4, <1>5 DEF Next

(* However acknowledgements are retried, lost, refused or late, and whenever
   agents are signalled or killed, every claim set is delivered as
   ClaimSetDelivery says: to one owner, each claim at most once, in order. *)
THEOREM AgentsImplementDelivery == Spec => ImplementsDelivery
  BY InitRefines, NextRefines, Invariance, PTL DEF Spec, Delivery!Spec, ImplementsDelivery

-----------------------------------------------------------------------------
(* What ClaimSetDelivery promises *)

\* The inductive part of the promises; that one claim runs at a time follows
\* from the order.
Kept ==
  /\ Delivery!TypeOK
  /\ Delivery!AtMostOnce
  /\ Delivery!InOrder
  /\ Delivery!OnlyGivenSetsMove

LEMMA SameOrder ==
  /\ Delivery!EventEnum = EventEnum
  /\ \A c, d : Delivery!Before(c, d) <=> Before(c, d)
  /\ \A cs : Delivery!StopsOnFailure(cs) <=> StopsOnFailure(cs)
  BY DEF Delivery!EventEnum, EventEnum, Delivery!Before, Before,
         Delivery!StopsOnFailure, StopsOnFailure

USE ClaimOrderAssumption

LEMMA OneBeforeTheOther ==
  ASSUME NEW cs \in ClaimSets, NEW c \in ClaimsOf[cs], NEW d \in ClaimsOf[cs]
  PROVE  /\ c \in Claims /\ d \in Claims
         /\ ~(Before(c, d) /\ Before(d, c))
         /\ c # d => Before(c, d) \/ Before(d, c)
         /\ ~Before(c, c)
  <1>1. /\ c \in Claims /\ d \in Claims
        /\ Position[c] \in Int /\ Position[d] \in Int
        /\ Listed[c] \in Nat /\ Listed[d] \in Nat
    BY DEF ClaimOrderAssumption
  <1>2. c # d => Listed[c] # Listed[d]
    BY DEF ClaimOrderAssumption
  <1> QED
    BY <1>1, <1>2 DEF Before

LEMMA OrderMeansOneAtATime == Kept => Delivery!OneAtATime
  BY OneBeforeTheOther, SameOrder
  DEF Kept, Delivery!InOrder, Delivery!OneAtATime, Delivery!Executing

\* What the counters of a claim and of two claims of a set keep to.
LEMMA CountsOf ==
  ASSUME Kept, NEW cs \in ClaimSets, NEW c \in ClaimsOf[cs]
  PROVE  /\ c \in Claims
         /\ emitted[c] \in [EventEnum -> Nat]
         /\ emitted[c]["queued"] \in Nat /\ emitted[c]["executing"] \in Nat
         /\ emitted[c]["success"] \in Nat /\ emitted[c]["failed"] \in Nat
         /\ emitted[c]["success"] + emitted[c]["failed"] <= emitted[c]["executing"]
         /\ emitted[c]["executing"] <= emitted[c]["queued"]
         /\ emitted[c]["queued"] <= 1
  <1>1. c \in Claims
    BY OneBeforeTheOther
  <1>2. emitted[c] \in [EventEnum -> Nat]
    BY <1>1, SameOrder DEF Kept, Delivery!TypeOK
  <1>3. /\ emitted[c]["queued"] \in Nat /\ emitted[c]["executing"] \in Nat
        /\ emitted[c]["success"] \in Nat /\ emitted[c]["failed"] \in Nat
    BY <1>2 DEF EventEnum
  <1> QED
    BY <1>1, <1>2, <1>3 DEF Kept, Delivery!AtMostOnce

LEMMA AcknowledgeKeeps ==
  ASSUME Kept, NEW cs \in ClaimSets, Delivery!Acknowledge(cs)
  PROVE  Kept'
  <1>1. PICK a \in Agents :
          /\ owner[cs] = Nobody /\ owner' = [owner EXCEPT ![cs] = a]
          /\ emitted' = emitted
    BY DEF Delivery!Acknowledge
  <1>2. owner' \in [ClaimSets -> Agents \cup {Nobody}]
    BY <1>1 DEF Kept, Delivery!TypeOK
  <1>3. \A ds \in ClaimSets : owner[ds] # Nobody => owner'[ds] # Nobody
    BY <1>1 DEF Kept, Delivery!TypeOK
  <1> QED
    BY <1>1, <1>2, <1>3
    DEF Kept, Delivery!TypeOK, Delivery!AtMostOnce, Delivery!InOrder, Delivery!Ended,
        Delivery!OnlyGivenSetsMove

LEMMA QueueKeeps ==
  ASSUME Kept, NEW cs \in ClaimSets, Delivery!Queue(cs)
  PROVE  Kept'
  <1>1. /\ owner[cs] # Nobody /\ owner' = owner
        /\ \A c \in ClaimsOf[cs], e \in EventEnum : emitted[c][e] = 0
        /\ emitted' = [c \in Claims |->
             IF c \in ClaimsOf[cs] THEN [emitted[c] EXCEPT !["queued"] = 1]
                                   ELSE emitted[c]]
    BY SameOrder DEF Delivery!Queue
  <1>2. \A c \in Claims : emitted[c] \in [EventEnum -> Nat]
    BY SameOrder DEF Kept, Delivery!TypeOK
  <1>3. emitted' \in [Claims -> [EventEnum -> Nat]]
    BY <1>1, <1>2 DEF EventEnum
  <1>4. \A c \in ClaimsOf[cs] :
          /\ c \in Claims
          /\ emitted'[c]["queued"] = 1 /\ emitted'[c]["executing"] = 0
          /\ emitted'[c]["success"] = 0 /\ emitted'[c]["failed"] = 0
    BY <1>1, <1>2, OneBeforeTheOther DEF EventEnum
  <1>5. \A ds \in ClaimSets : ds # cs =>
          \A c \in ClaimsOf[ds] : emitted'[c] = emitted[c]
    BY <1>1 DEF ClaimOrderAssumption
  <1>6. Delivery!AtMostOnce'
    BY <1>4, <1>5 DEF Kept, Delivery!AtMostOnce
  <1>7. Delivery!InOrder'
    BY <1>4, <1>5 DEF Kept, Delivery!InOrder, Delivery!Ended
  <1>8. Delivery!OnlyGivenSetsMove'
    BY <1>1, <1>5 DEF Kept, Delivery!OnlyGivenSetsMove
  <1> QED
    BY <1>1, <1>3, <1>6, <1>7, <1>8, SameOrder DEF Kept, Delivery!TypeOK

LEMMA StartKeeps ==
  ASSUME Kept, NEW cs \in ClaimSets, NEW c \in ClaimsOf[cs], Delivery!Start(cs, c)
  PROVE  Kept'
  <1>1. /\ \A d \in ClaimsOf[cs] : emitted[d]["queued"] = 1
        /\ emitted[c]["executing"] = 0
        /\ \A d \in ClaimsOf[cs] \ {c} :
             \/ /\ Before(d, c)
                /\ Delivery!Ended(d)
                /\ StopsOnFailure(cs) => emitted[d]["failed"] = 0
             \/ /\ Before(c, d)
                /\ emitted[d]["executing"] = 0
        /\ emitted' = [emitted EXCEPT ![c]["executing"] = 1]
        /\ owner' = owner
    BY SameOrder DEF Delivery!Start
  <1>2. /\ emitted \in [Claims -> [EventEnum -> Nat]] /\ c \in Claims
        /\ emitted[c] \in [EventEnum -> Nat]
    BY OneBeforeTheOther, SameOrder DEF Kept, Delivery!TypeOK
  <1>3. /\ emitted' \in [Claims -> [EventEnum -> Nat]]
        /\ emitted'[c]["executing"] = 1
        /\ emitted'[c]["queued"] = emitted[c]["queued"]
        /\ emitted'[c]["success"] = emitted[c]["success"]
        /\ emitted'[c]["failed"] = emitted[c]["failed"]
        /\ \A d \in Claims : d # c => emitted'[d] = emitted[d]
    BY <1>1, <1>2 DEF EventEnum
  <1>4. \A ds \in ClaimSets : \A d \in ClaimsOf[ds] :
          /\ emitted'[d]["queued"] = emitted[d]["queued"]
          /\ emitted'[d]["success"] = emitted[d]["success"]
          /\ emitted'[d]["failed"] = emitted[d]["failed"]
          /\ d # c => emitted'[d]["executing"] = emitted[d]["executing"]
    BY <1>3, OneBeforeTheOther
  <1>5. Delivery!AtMostOnce'
    <2> SUFFICES ASSUME NEW ds \in ClaimSets, NEW d \in ClaimsOf[ds]
                 PROVE  /\ emitted'[d]["success"] + emitted'[d]["failed"]
                             <= emitted'[d]["executing"]
                        /\ emitted'[d]["executing"] <= emitted'[d]["queued"]
                        /\ emitted'[d]["queued"] <= 1
      BY DEF Delivery!AtMostOnce
    <2>1. CASE d = c
      BY <1>1, <1>3, <2>1, CountsOf
    <2>2. CASE d # c
      BY <1>4, <2>2, CountsOf
    <2> QED
      BY <2>1, <2>2
  <1>6. Delivery!InOrder'
    <2> SUFFICES ASSUME NEW ds \in ClaimSets, NEW d \in ClaimsOf[ds], NEW e \in ClaimsOf[ds],
                        Before(d, e), emitted'[e]["executing"] > 0
                 PROVE  /\ emitted'[d]["success"] + emitted'[d]["failed"] > 0
                        /\ StopsOnFailure(ds) => emitted'[d]["failed"] = 0
      BY SameOrder DEF Delivery!InOrder, Delivery!Ended
    <2>1. CASE e = c
      <3>1. ds = cs /\ d # c
        BY <2>1, OneBeforeTheOther DEF ClaimOrderAssumption
      <3>2. ~Before(c, d)
        BY <2>1, OneBeforeTheOther
      <3>3. /\ emitted[d]["success"] + emitted[d]["failed"] > 0
            /\ StopsOnFailure(cs) => emitted[d]["failed"] = 0
        BY <1>1, <3>1, <3>2 DEF Delivery!Ended
      <3> QED
        BY <1>4, <3>1, <3>3
    <2>2. CASE e # c
      <3>1. emitted[e]["executing"] > 0
        BY <1>4, <2>2
      <3>2. /\ emitted[d]["success"] + emitted[d]["failed"] > 0
            /\ StopsOnFailure(ds) => emitted[d]["failed"] = 0
        BY <3>1, SameOrder DEF Kept, Delivery!InOrder, Delivery!Ended
      <3> QED
        BY <1>4, <3>2
    <2> QED
      BY <2>1, <2>2
  <1>7. Delivery!OnlyGivenSetsMove'
    BY <1>1, <1>4 DEF Kept, Delivery!OnlyGivenSetsMove
  <1> QED
    BY <1>1, <1>3, <1>5, <1>6, <1>7, SameOrder DEF Kept, Delivery!TypeOK

LEMMA EndKeeps ==
  ASSUME Kept, NEW cs \in ClaimSets, NEW c \in ClaimsOf[cs], Delivery!End(c)
  PROVE  Kept'
  <1>1. PICK outcome \in {"success", "failed"} :
          /\ emitted[c]["executing"] = 1
          /\ ~Delivery!Ended(c)
          /\ emitted' = [emitted EXCEPT ![c][outcome] = 1]
          /\ owner' = owner
    BY DEF Delivery!End
  <1>2. /\ emitted \in [Claims -> [EventEnum -> Nat]] /\ c \in Claims
        /\ emitted[c] \in [EventEnum -> Nat]
    BY OneBeforeTheOther, SameOrder DEF Kept, Delivery!TypeOK
  <1>3. emitted[c]["success"] = 0 /\ emitted[c]["failed"] = 0
    <2>1. emitted[c]["success"] \in Nat /\ emitted[c]["failed"] \in Nat
      BY CountsOf
    <2> QED
      BY <1>1, <2>1 DEF Delivery!Ended
  <1>4. /\ emitted' \in [Claims -> [EventEnum -> Nat]]
        /\ emitted'[c]["executing"] = 1
        /\ emitted'[c]["queued"] = emitted[c]["queued"]
        /\ \/ emitted'[c]["success"] = 1 /\ emitted'[c]["failed"] = 0
           \/ emitted'[c]["success"] = 0 /\ emitted'[c]["failed"] = 1
        /\ \A d \in Claims : d # c => emitted'[d] = emitted[d]
    BY <1>1, <1>2, <1>3 DEF EventEnum
  <1>5. \A ds \in ClaimSets : \A d \in ClaimsOf[ds] :
          /\ d # c => emitted'[d] = emitted[d]
          /\ emitted'[d]["queued"] = emitted[d]["queued"]
          /\ emitted'[d]["executing"] = emitted[d]["executing"]
    BY <1>1, <1>4, OneBeforeTheOther
  <1>6. Delivery!AtMostOnce'
    <2> SUFFICES ASSUME NEW ds \in ClaimSets, NEW d \in ClaimsOf[ds]
                 PROVE  /\ emitted'[d]["success"] + emitted'[d]["failed"]
                             <= emitted'[d]["executing"]
                        /\ emitted'[d]["executing"] <= emitted'[d]["queued"]
                        /\ emitted'[d]["queued"] <= 1
      BY DEF Delivery!AtMostOnce
    <2>1. CASE d = c
      BY <1>1, <1>4, <2>1, CountsOf
    <2>2. CASE d # c
      BY <1>5, <2>2, CountsOf
    <2> QED
      BY <2>1, <2>2
  <1>7. Delivery!InOrder'
    <2> SUFFICES ASSUME NEW ds \in ClaimSets, NEW d \in ClaimsOf[ds], NEW e \in ClaimsOf[ds],
                        Before(d, e), emitted'[e]["executing"] > 0
                 PROVE  /\ emitted'[d]["success"] + emitted'[d]["failed"] > 0
                        /\ StopsOnFailure(ds) => emitted'[d]["failed"] = 0
      BY SameOrder DEF Delivery!InOrder, Delivery!Ended
    <2>1. emitted[e]["executing"] > 0
      BY <1>5
    <2>2. /\ Delivery!Ended(d)
          /\ StopsOnFailure(ds) => emitted[d]["failed"] = 0
      BY <2>1, SameOrder DEF Kept, Delivery!InOrder
    <2>3. d # c
      BY <1>1, <2>2
    <2> QED
      BY <1>5, <2>2, <2>3 DEF Delivery!Ended
  <1>8. Delivery!OnlyGivenSetsMove'
    BY <1>1, <1>5 DEF Kept, Delivery!OnlyGivenSetsMove
  <1> QED
    BY <1>1, <1>4, <1>6, <1>7, <1>8, SameOrder DEF Kept, Delivery!TypeOK

LEMMA DeliveryStep ==
  ASSUME Kept, [Delivery!Next]_Delivery!vars
  PROVE  /\ Kept'
         /\ \A cs \in ClaimSets : owner[cs] # Nobody => owner'[cs] = owner[cs]
  <1>1. ASSUME NEW cs \in ClaimSets, Delivery!Acknowledge(cs)
        PROVE  /\ Kept'
               /\ \A ds \in ClaimSets : owner[ds] # Nobody => owner'[ds] = owner[ds]
    BY <1>1, AcknowledgeKeeps DEF Delivery!Acknowledge, Kept, Delivery!TypeOK
  <1>2. ASSUME NEW cs \in ClaimSets,
               \/ Delivery!Queue(cs)
               \/ \E c \in ClaimsOf[cs] : Delivery!Start(cs, c) \/ Delivery!End(c)
        PROVE  Kept' /\ owner' = owner
    <2>1. Kept'
      BY <1>2, QueueKeeps, StartKeeps, EndKeeps
    <2>2. owner' = owner
      BY <1>2 DEF Delivery!Queue, Delivery!Start, Delivery!End
    <2> QED
      BY <2>1, <2>2
  <1>3. CASE UNCHANGED Delivery!vars
    BY <1>3 DEF Delivery!vars, Kept, Delivery!TypeOK, Delivery!AtMostOnce,
       Delivery!InOrder, Delivery!Ended, Delivery!OnlyGivenSetsMove
  <1> QED
    BY <1>1, <1>2, <1>3 DEF Delivery!Next

(* ClaimSetDelivery keeps its promises, whatever implements it: every claim is
   queued, started and ended once at most, in order, one at a time, none after a
   failure that ends the set, and the owner of a set is final. *)
THEOREM DeliveryKeepsPromises ==
  Delivery!Spec => []Delivery!Promises /\ Delivery!OwnerIsFinal
  <1>1. Delivery!Init => Kept
    BY SameOrder, OneBeforeTheOther
    DEF Delivery!Init, Kept, Delivery!TypeOK, Delivery!AtMostOnce, Delivery!InOrder,
        Delivery!OnlyGivenSetsMove, EventEnum
  <1>2. Kept /\ [Delivery!Next]_Delivery!vars => Kept'
    BY DeliveryStep
  <1>3. Kept /\ [Delivery!Next]_Delivery!vars =>
          [\A cs \in ClaimSets : owner[cs] # Nobody => owner'[cs] = owner[cs]]_Delivery!vars
    BY DeliveryStep
  <1>4. Kept => Delivery!Promises
    BY OrderMeansOneAtATime DEF Kept, Delivery!Promises
  <1> QED
    BY <1>1, <1>2, <1>3, <1>4, PTL DEF Delivery!Spec, Delivery!OwnerIsFinal

(* So do the agents, whatever is retried, lost, late, signalled or killed. *)
THEOREM AgentsKeepPromises ==
  Spec => []Delivery!Promises /\ Delivery!OwnerIsFinal
  BY AgentsImplementDelivery, DeliveryKeepsPromises, PTL DEF ImplementsDelivery

=============================================================================
