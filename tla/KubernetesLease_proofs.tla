----------------------- MODULE KubernetesLease_proofs -----------------------
(***************************************************************************)
(* KubernetesLease for any number of agents, any lease duration and any    *)
(* clocks MaxSkew apart: IInv is inductive, and the properties follow.     *)
(***************************************************************************)
EXTENDS KubernetesLease, TLAPS

USE KubernetesLeaseAssumption

-----------------------------------------------------------------------------
(* Clocks *)

(* Two pods' clocks are never further apart than MaxSkew, and they do not stop
   being numbers. *)
LEMMA ClocksAreClose ==
  ASSUME NEW a \in Agents, NEW b \in Agents, now \in Nat
  PROVE  /\ Clock(a) \in Nat
         /\ Clock(b) \in Nat
         /\ Clock(b) <= Clock(a) + MaxSkew
<1>1. Skew[a] \in 0 .. MaxSkew /\ Skew[b] \in 0 .. MaxSkew
  OBVIOUS
<1> QED BY <1>1 DEF Clock

(* The facts about one agent that TypeOK gives. *)
LEMMA TypeFacts ==
  ASSUME TypeOK, NEW a \in Agents
  PROVE  /\ now \in Nat
         /\ lease.renew \in Nat /\ lease.version \in Nat
         /\ lease.holder \in Agents \cup {Nobody}
         /\ call[a] \in Calls /\ call[a].stamp \in Nat /\ call[a].version \in Nat
         /\ belief[a] \in Nat \cup {NotLeader}
         /\ Clock(a) \in Nat
<1>1. now \in Nat
  BY DEF TypeOK
<1>2. lease \in Leases /\ call[a] \in Calls /\ belief[a] \in Nat \cup {NotLeader}
  BY DEF TypeOK
<1> QED BY <1>1, <1>2, ClocksAreClose DEF Leases, Calls

-----------------------------------------------------------------------------
(* Writes *)

(* A write that may be accepted keeps every grant standing: the writer's own
   grant is renewed, and another's was over by the writer's clock. *)
LEMMA WriteKeepsGrants ==
  ASSUME TypeOK, NEW a \in Agents, NEW stamp \in Nat, NEW b \in Agents, NEW s \in Nat,
         MayWrite(a, stamp), stamp <= Clock(a), GrantStands(b, s),
         Writes(a, stamp), now' = now
  PROVE  GrantStands(b, s)'
<1>1. /\ now \in Nat /\ lease.renew \in Nat /\ lease.version \in Nat
      /\ Clock(a) \in Nat /\ Clock(b) \in Nat
  BY TypeFacts
<1>2. Clock(a) <= Clock(b) + MaxSkew
  BY <1>1, ClocksAreClose
<1>3. lease'.holder = a /\ lease'.renew = stamp /\ lease'.version = lease.version + 1
  BY DEF Writes
<1>4. Clock(b)' = Clock(b)
  BY DEF Clock
<1>5. lease'.version > 0
  BY <1>1, <1>3
<1>6. /\ lease.version > 0
      /\ \/ lease.holder = b /\ s <= lease.renew
         \/ s + LeaseDuration < Clock(b) + MaxSkew
  BY DEF GrantStands
<1>7. \/ lease.holder = a /\ lease.renew <= stamp
      \/ lease.renew + LeaseDuration < stamp
  BY <1>6 DEF MayWrite
<1>8. \/ lease'.holder = b /\ s <= lease'.renew
      \/ s + LeaseDuration < Clock(b)' + MaxSkew
  BY <1>1, <1>2, <1>3, <1>4, <1>6, <1>7
<1> QED BY <1>5, <1>8 DEF GrantStands

(* What a write leaves behind for the other agents: no other write can be
   accepted any more, and everything else about them is as safe as it was. *)
LEMMA WriteIsSafe ==
  ASSUME IInv, NEW a \in Agents, NEW stamp \in Nat,
         MayWrite(a, stamp), stamp <= Clock(a),
         call[a].at = "read" => stamp <= call[a].stamp,
         Writes(a, stamp), UNCHANGED <<now, belief>>,
         NEW b \in Agents, call'[b] = call[b]
  PROVE  CallIsSafe(b)'
<1>1. /\ now \in Nat /\ lease.renew \in Nat /\ lease.version \in Nat
      /\ call[b].stamp \in Nat /\ call[b].version \in Nat
  BY TypeFacts DEF IInv
<1>2. lease'.holder = a /\ lease'.renew = stamp /\ lease'.version = lease.version + 1
  BY DEF Writes
<1>3. late' = {}
  BY DEF Writes
<1>4. CallIsSafe(b)
  BY DEF IInv
<1>5. call[b].version <= lease.version
  BY <1>4 DEF CallIsSafe
<1>6. call'[b].version <= lease'.version /\ call'[b].version # lease'.version
  BY <1>1, <1>2, <1>5
<1>7. call'[b].at = "read" /\ lease'.holder = b => lease'.renew <= call'[b].stamp
  BY <1>2
<1>8. ASSUME call'[b].at = "granted" PROVE GrantStands(b, call[b].stamp)'
  <2>1. PICK s \in Nat : s = call[b].stamp
    BY <1>1
  <2>2. GrantStands(b, s)
    BY <1>4, <1>8, <2>1 DEF CallIsSafe
  <2>3. GrantStands(b, s)'
    BY <2>2, WriteKeepsGrants DEF IInv
  <2> QED BY <2>1, <2>3 DEF GrantStands
<1>9. call'[b].at = "absent" => call'[b].version = 0
  BY <1>4 DEF CallIsSafe
<1> QED BY <1>3, <1>6, <1>7, <1>8, <1>9 DEF CallIsSafe

-----------------------------------------------------------------------------
(* Steps *)

(* A step that writes: the API server accepts the write of a live call or of
   one that nobody waits for any more. *)
LEMMA AcceptedWrite ==
  ASSUME IInv, NEW a \in Agents, NEW stamp \in Nat,
         MayWrite(a, stamp), stamp <= Clock(a),
         call[a].at = "read" => stamp <= call[a].stamp,
         Writes(a, stamp), UNCHANGED <<now, belief>>
  PROVE  /\ lease' \in Leases
         /\ late' \subseteq [agent : Agents, stamp : Nat]
         /\ (lease.version = 0 <=> lease.holder = Nobody)'
         /\ (lease.version = 0 => lease.renew = 0)'
         /\ \A b \in Agents : lease'.holder = b => lease'.renew <= Clock(b)'
         /\ \A w \in late' : FALSE
         /\ GrantsStand'
<1>1. /\ lease'.holder = a /\ lease'.renew = stamp /\ lease'.version = lease.version + 1
      /\ late' = {}
  BY DEF Writes
<1>2. lease.version \in Nat
  BY TypeFacts DEF IInv
<1>3. lease' \in Leases
  BY <1>2 DEF Writes, Leases
<1>4. \A b \in Agents : Clock(b)' = Clock(b)
  BY DEF Clock
<1>5. GrantsStand'
  <2> SUFFICES ASSUME NEW b \in Agents, belief'[b] # NotLeader
               PROVE  GrantStands(b, belief[b])'
    BY DEF GrantsStand
  <2>1. belief[b] \in Nat
    BY TypeFacts DEF IInv
  <2>2. PICK s \in Nat : s = belief[b]
    BY <2>1
  <2>3. GrantStands(b, s)
    BY <2>2 DEF IInv, GrantsStand
  <2>4. GrantStands(b, s)'
    BY <2>3, WriteKeepsGrants DEF IInv
  <2> QED BY <2>2, <2>4 DEF GrantStands
<1> QED BY <1>1, <1>2, <1>3, <1>4, <1>5

(* The step of a call that leaves the lease alone keeps what IInv says of the
   other agents' calls. *)
LEMMA OthersStaySafe ==
  ASSUME IInv, NEW a \in Agents, NEW b \in Agents, a # b,
         UNCHANGED <<now, lease>>, call'[b] = call[b],
         \A w \in late' : w \in late \/ w.agent = a
  PROVE  CallIsSafe(b)'
<1>1. CallIsSafe(b)
  BY DEF IInv
<1> QED BY <1>1 DEF CallIsSafe, MayWrite, GrantStands, Clock

\* A step of a's call that leaves the lease alone and keeps what IInv says of a.
SafeStepOf(a) ==
  /\ UNCHANGED <<now, lease>>
  /\ call' \in [Agents -> Calls]
  /\ \A b \in Agents \ {a} : call'[b] = call[b]
  /\ call'[a].at # "idle" => call'[a].stamp <= Clock(a)
  /\ CallIsSafe(a)'
  /\ late' \subseteq [agent : Agents, stamp : Nat]
  /\ \A w \in late' :
       w \in late \/ (w.agent = a /\ w.stamp <= Clock(a) /\ MayWrite(a, w.stamp))
  /\ belief' \in [Agents -> Nat \cup {NotLeader}]
  /\ GrantsStand'

(* Such a step keeps all of IInv. *)
LEMMA CallStep ==
  ASSUME IInv, NEW a \in Agents, SafeStepOf(a)
  PROVE  IInv'
<1> USE DEF SafeStepOf
<1>1. TypeOK'
  BY DEF IInv, TypeOK
<1>2. (lease.version = 0 <=> lease.holder = Nobody)' /\ (lease.version = 0 => lease.renew = 0)'
  BY DEF IInv
<1>3. \A b \in Agents : Clock(b)' = Clock(b)
  BY DEF Clock
<1>4. StampsArePast'
  <2>1. StampsArePast
    BY DEF IInv
  <2>2. \A b \in Agents : call'[b].at # "idle" => call'[b].stamp <= Clock(b)'
    BY <1>3, <2>1 DEF StampsArePast
  <2>3. \A b \in Agents : lease'.holder = b => lease'.renew <= Clock(b)'
    BY <1>3, <2>1 DEF StampsArePast
  <2>4. \A w \in late' : w.stamp <= Clock(w.agent)'
    BY <1>3, <2>1 DEF StampsArePast
  <2> QED BY <2>2, <2>3, <2>4 DEF StampsArePast
<1>5. \A b \in Agents : CallIsSafe(b)'
  <2> SUFFICES ASSUME NEW b \in Agents, b # a PROVE CallIsSafe(b)'
    OBVIOUS
  <2>1. \A w \in late' : w \in late \/ w.agent = a
    OBVIOUS
  <2>2. call'[b] = call[b]
    OBVIOUS
  <2> QED BY <2>1, <2>2, OthersStaySafe
<1>6. \A w \in late' : MayWrite(w.agent, w.stamp)'
  <2> SUFFICES ASSUME NEW w \in late' PROVE MayWrite(w.agent, w.stamp)'
    OBVIOUS
  <2>1. MayWrite(w.agent, w.stamp)
    BY DEF IInv
  <2> QED BY <2>1 DEF MayWrite
<1> QED BY <1>1, <1>2, <1>4, <1>5, <1>6 DEF IInv

(* Beliefs that do not change keep standing while the lease and the time do. *)
LEMMA BeliefsKeep ==
  ASSUME IInv, UNCHANGED <<now, lease>>,
         \A b \in Agents : belief'[b] \in {belief[b], NotLeader}
  PROVE  GrantsStand'
<1>1. GrantsStand
  BY DEF IInv
<1> QED BY <1>1 DEF GrantsStand, GrantStands, Clock

LEMMA TickKeeps == ASSUME IInv, Tick PROVE IInv'
<1>1. /\ now \in Nat /\ now' = now + 1 /\ now' \in 0 .. Horizon
      /\ UNCHANGED <<lease, call, late, belief>>
  BY DEF IInv, TypeOK, Tick
<1>2. \A b \in Agents : /\ Clock(b) \in Nat /\ Clock(b)' \in Nat
                       /\ Clock(b)' = Clock(b) + 1
  <2> SUFFICES ASSUME NEW b \in Agents
               PROVE  Clock(b) \in Nat /\ Clock(b)' \in Nat /\ Clock(b)' = Clock(b) + 1
    OBVIOUS
  <2>1. Skew[b] \in Nat
    OBVIOUS
  <2> QED BY <1>1, <2>1 DEF Clock
<1>3. TypeOK'
  BY <1>1 DEF IInv, TypeOK
<1>4. StampsArePast'
  <2>1. StampsArePast
    BY DEF IInv
  <2>2. ASSUME NEW b \in Agents
        PROVE  /\ call'[b].at # "idle" => call'[b].stamp <= Clock(b)'
               /\ lease'.holder = b => lease'.renew <= Clock(b)'
    <3>1. call[b].stamp \in Nat /\ lease.renew \in Nat
      BY TypeFacts DEF IInv
    <3> QED BY <1>1, <1>2, <2>1, <3>1 DEF StampsArePast
  <2>3. ASSUME NEW w \in late' PROVE w.stamp <= Clock(w.agent)'
    <3>1. w \in late /\ w.agent \in Agents /\ w.stamp \in Nat
      BY <1>1 DEF IInv, TypeOK
    <3> QED BY <1>2, <2>1, <3>1 DEF StampsArePast
  <2> QED BY <2>2, <2>3 DEF StampsArePast
<1>5. ASSUME NEW b \in Agents, NEW s \in Nat, GrantStands(b, s)
      PROVE  GrantStands(b, s)'
  BY <1>1, <1>2, <1>5 DEF GrantStands
<1>6. ASSUME NEW b \in Agents PROVE CallIsSafe(b)'
  <2>1. CallIsSafe(b)
    BY DEF IInv
  <2>2. call[b].stamp \in Nat
    BY TypeFacts DEF IInv
  <2>3. ASSUME call'[b].at = "granted" PROVE GrantStands(b, call[b].stamp)'
    <3>1. PICK s \in Nat : s = call[b].stamp
      BY <2>2
    <3>2. GrantStands(b, s)
      BY <1>1, <2>1, <2>3, <3>1 DEF CallIsSafe
    <3>3. GrantStands(b, s)'
      BY <1>5, <3>2
    <3> QED BY <1>1, <3>1, <3>3 DEF GrantStands
  <2> QED BY <1>1, <2>1, <2>3 DEF CallIsSafe, MayWrite
<1>7. GrantsStand'
  <2> SUFFICES ASSUME NEW b \in Agents, belief'[b] # NotLeader
               PROVE  GrantStands(b, belief[b])'
    BY DEF GrantsStand
  <2>1. PICK s \in Nat : s = belief[b]
    BY <1>1, TypeFacts DEF IInv
  <2>2. GrantStands(b, s)
    BY <1>1, <2>1 DEF IInv, GrantsStand
  <2>3. GrantStands(b, s)'
    BY <1>5, <2>2
  <2> QED BY <1>1, <2>1, <2>3 DEF GrantStands
<1> QED BY <1>1, <1>3, <1>4, <1>6, <1>7 DEF IInv, MayWrite

LEMMA CallKeeps == ASSUME IInv, NEW a \in Agents, Call(a) PROVE IInv'
<1>1. /\ Clock(a) \in Nat
      /\ call \in [Agents -> Calls]
      /\ late \subseteq [agent : Agents, stamp : Nat]
      /\ belief \in [Agents -> Nat \cup {NotLeader}]
  BY TypeFacts DEF IInv, TypeOK
<1>2. /\ UNCHANGED <<now, lease, late, belief>>
      /\ call' = [call EXCEPT ![a] = [at |-> "read", stamp |-> Clock(a), version |-> 0]]
  BY DEF Call
<1>3. /\ call'[a].at = "read" /\ call'[a].stamp = Clock(a) /\ call'[a].version = 0
      /\ \A b \in Agents \ {a} : call'[b] = call[b]
      /\ call' \in [Agents -> Calls]
  BY <1>1, <1>2 DEF Calls
<1>4. CallIsSafe(a)'
  <2>1. lease.version \in Nat /\ lease.renew \in Nat
    BY TypeFacts DEF IInv
  <2>2. lease'.holder = a => lease'.renew <= call'[a].stamp
    BY <1>2, <1>3 DEF IInv, StampsArePast
  <2>3. \A w \in late' : w.agent = a => w.stamp <= call'[a].stamp
    BY <1>2, <1>3 DEF IInv, StampsArePast
  <2> QED BY <1>2, <1>3, <2>1, <2>2, <2>3 DEF CallIsSafe
<1>5. GrantsStand'
  BY <1>2, BeliefsKeep
<1>6. call'[a].stamp <= Clock(a)
  BY <1>1, <1>3
<1>10. /\ late' \subseteq [agent : Agents, stamp : Nat]
       /\ \A w \in late' : w \in late
       /\ belief' \in [Agents -> Nat \cup {NotLeader}]
       /\ UNCHANGED <<now, lease>>
  BY <1>1, <1>2
<1>11. SafeStepOf(a)
  BY <1>3, <1>4, <1>5, <1>6, <1>10 DEF SafeStepOf
<1> QED BY <1>11, CallStep

LEMMA ReadReturnsKeeps == ASSUME IInv, NEW a \in Agents, ReadReturns(a) PROVE IInv'
<1>1. /\ Clock(a) \in Nat
      /\ call \in [Agents -> Calls] /\ call[a].stamp \in Nat
      /\ late \subseteq [agent : Agents, stamp : Nat]
      /\ belief \in [Agents -> Nat \cup {NotLeader}]
      /\ lease.version \in Nat /\ lease.renew \in Nat
  BY TypeFacts DEF IInv, TypeOK
<1>2. call[a].at = "read" /\ UNCHANGED <<now, lease, late, belief>>
  BY DEF ReadReturns
<1>3. PICK c \in Calls :
        /\ call' = [call EXCEPT ![a] = c]
        /\ c.at \in {"absent", "write", "refused"}
        /\ c.stamp \in {0, call[a].stamp} /\ c.version <= lease.version
        /\ c.at = "absent" => c.version = 0
        /\ c.at = "write" =>
             c.stamp = call[a].stamp /\ CanAcquireOrRenew(a, call[a].stamp)
  <2> DEFINE absent == [Idle EXCEPT !.at = "absent"]
             write == [at |-> "write", stamp |-> call[a].stamp, version |-> lease.version]
  <2>1. absent \in Calls /\ absent.at = "absent" /\ absent.stamp = 0 /\ absent.version = 0
    BY DEF Calls, Idle
  <2>2. Refused \in Calls /\ Refused.at = "refused" /\ Refused.stamp = 0 /\ Refused.version = 0
    BY DEF Calls, Refused
  <2>3. /\ write \in Calls /\ write.at = "write"
        /\ write.stamp = call[a].stamp /\ write.version = lease.version
    BY <1>1 DEF Calls
  <2>4. \/ call' = [call EXCEPT ![a] = absent]
        \/ call' = [call EXCEPT ![a] = Refused]
        \/ call' = [call EXCEPT ![a] = write] /\ CanAcquireOrRenew(a, call[a].stamp)
    BY DEF ReadReturns
  <2> HIDE DEF absent, write
  <2> QED BY <1>1, <2>1, <2>2, <2>3, <2>4
<1>4. /\ call'[a] = c
      /\ \A b \in Agents \ {a} : call'[b] = call[b]
      /\ call' \in [Agents -> Calls]
  BY <1>1, <1>3
<1>5. CallIsSafe(a)'
  <2>1. lease.holder = a => lease.renew <= call[a].stamp
    BY <1>2 DEF IInv, CallIsSafe
  <2>2. c.at = "write" => MayWrite(a, c.stamp)
    BY <1>1, <1>3, <2>1 DEF CanAcquireOrRenew, Expired, MayWrite
  <2>3. c.at = "write" => MayWrite(a, c.stamp)'
    BY <1>2, <2>2 DEF MayWrite
  <2> QED BY <1>2, <1>3, <1>4, <2>3 DEF CallIsSafe
<1>6. GrantsStand'
  BY <1>2, BeliefsKeep
<1>7. call'[a].at # "idle" => call'[a].stamp <= Clock(a)
  BY <1>1, <1>2, <1>3, <1>4 DEF IInv, StampsArePast
<1>8. /\ late' \subseteq [agent : Agents, stamp : Nat]
      /\ \A w \in late' : w \in late
      /\ belief' \in [Agents -> Nat \cup {NotLeader}]
      /\ UNCHANGED <<now, lease>>
  BY <1>1, <1>2
<1>9. SafeStepOf(a)
  BY <1>4, <1>5, <1>6, <1>7, <1>8, Zenon DEF SafeStepOf
<1> QED BY <1>9, CallStep

LEMMA BuildNewLeaseKeeps == ASSUME IInv, NEW a \in Agents, BuildNewLease(a) PROVE IInv'
<1>1. /\ Clock(a) \in Nat
      /\ call \in [Agents -> Calls]
      /\ late \subseteq [agent : Agents, stamp : Nat]
      /\ belief \in [Agents -> Nat \cup {NotLeader}]
      /\ lease.version \in Nat
  BY TypeFacts DEF IInv, TypeOK
<1>2. /\ UNCHANGED <<now, lease, late, belief>>
      /\ call' = [call EXCEPT ![a] = [at |-> "write", stamp |-> Clock(a), version |-> 0]]
  BY DEF BuildNewLease
<1>3. /\ call'[a].at = "write" /\ call'[a].stamp = Clock(a) /\ call'[a].version = 0
      /\ \A b \in Agents \ {a} : call'[b] = call[b]
      /\ call' \in [Agents -> Calls]
  BY <1>1, <1>2 DEF Calls
<1>4. CallIsSafe(a)'
  BY <1>1, <1>2, <1>3 DEF CallIsSafe, MayWrite
<1>5. GrantsStand'
  BY <1>2, BeliefsKeep
<1>6. call'[a].stamp <= Clock(a)
  BY <1>1, <1>3
<1>10. /\ late' \subseteq [agent : Agents, stamp : Nat]
       /\ \A w \in late' : w \in late
       /\ belief' \in [Agents -> Nat \cup {NotLeader}]
       /\ UNCHANGED <<now, lease>>
  BY <1>1, <1>2
<1>11. SafeStepOf(a)
  BY <1>3, <1>4, <1>5, <1>6, <1>10 DEF SafeStepOf
<1> QED BY <1>11, CallStep

(* A call that ends, with its result or without: what is left of it is a write
   that may still land, and a belief that stands. *)
LEMMA CallEnds ==
  ASSUME IInv, NEW a \in Agents, UNCHANGED <<now, lease>>,
         call' = [call EXCEPT ![a] = Idle],
         late' \subseteq [agent : Agents, stamp : Nat],
         \A w \in late' :
           w \in late \/ (w.agent = a /\ w.stamp <= Clock(a) /\ MayWrite(a, w.stamp)),
         belief' \in [Agents -> Nat \cup {NotLeader}],
         GrantsStand'
  PROVE  IInv'
<1>1. call \in [Agents -> Calls] /\ lease.version \in Nat
  BY TypeFacts DEF IInv, TypeOK
<1>2. /\ call'[a].at = "idle" /\ call'[a].version = 0
      /\ \A b \in Agents \ {a} : call'[b] = call[b]
      /\ call' \in [Agents -> Calls]
  BY <1>1 DEF Calls, Idle
<1>3. CallIsSafe(a)'
  BY <1>1, <1>2 DEF CallIsSafe
<1>4. SafeStepOf(a)
  BY <1>2, <1>3 DEF SafeStepOf
<1> QED BY <1>4, CallStep

LEMMA ReturnsTrueKeeps == ASSUME IInv, NEW a \in Agents, ReturnsTrue(a) PROVE IInv'
<1>1. /\ call[a].stamp \in Nat
      /\ late \subseteq [agent : Agents, stamp : Nat]
      /\ belief \in [Agents -> Nat \cup {NotLeader}]
  BY TypeFacts DEF IInv, TypeOK
<1>2. /\ call[a].at = "granted"
      /\ UNCHANGED <<now, lease, late>>
      /\ call' = [call EXCEPT ![a] = Idle]
      /\ belief' = [belief EXCEPT ![a] = call[a].stamp]
  BY DEF ReturnsTrue
<1>3. GrantsStand'
  <2>1. GrantStands(a, call[a].stamp) /\ GrantsStand
    BY <1>2 DEF IInv, CallIsSafe
  <2>2. belief'[a] = call[a].stamp /\ \A b \in Agents \ {a} : belief'[b] = belief[b]
    BY <1>1, <1>2
  <2> QED BY <1>2, <2>1, <2>2 DEF GrantsStand, GrantStands, Clock
<1>4. /\ belief' \in [Agents -> Nat \cup {NotLeader}]
      /\ late' \subseteq [agent : Agents, stamp : Nat]
      /\ \A w \in late' : w \in late
  BY <1>1, <1>2
<1> QED BY <1>2, <1>3, <1>4, CallEnds

LEMMA ReturnsFalseKeeps == ASSUME IInv, NEW a \in Agents, ReturnsFalse(a) PROVE IInv'
<1>1. /\ late \subseteq [agent : Agents, stamp : Nat]
      /\ belief \in [Agents -> Nat \cup {NotLeader}]
  BY DEF IInv, TypeOK
<1>2. /\ UNCHANGED <<now, lease, late>>
      /\ call' = [call EXCEPT ![a] = Idle]
      /\ belief' = [belief EXCEPT ![a] = NotLeader]
  BY DEF ReturnsFalse
<1>3. GrantsStand'
  <2>1. \A b \in Agents : belief'[b] \in {belief[b], NotLeader}
    BY <1>1, <1>2
  <2> QED BY <1>2, <2>1, BeliefsKeep
<1>4. /\ belief' \in [Agents -> Nat \cup {NotLeader}]
      /\ late' \subseteq [agent : Agents, stamp : Nat]
      /\ \A w \in late' : w \in late
  BY <1>1, <1>2
<1> QED BY <1>2, <1>3, <1>4, CallEnds

(* A call that nobody waits for, whether it raised or its process is gone. *)
LEMMA AbandonedKeeps ==
  ASSUME IInv, NEW a \in Agents, Abandoned(a), UNCHANGED <<now, lease>>,
         belief' \in [Agents -> Nat \cup {NotLeader}],
         \A b \in Agents : belief'[b] \in {belief[b], NotLeader}
  PROVE  IInv'
<1>1. /\ late \subseteq [agent : Agents, stamp : Nat]
      /\ call[a].stamp \in Nat
  BY TypeFacts DEF IInv, TypeOK
<1>2. GrantsStand'
  BY BeliefsKeep
<1>3. /\ call' = [call EXCEPT ![a] = Idle]
      /\ late' = IF call[a].at = "write" /\ call[a].version = lease.version
                 THEN late \cup {[agent |-> a, stamp |-> call[a].stamp]}
                 ELSE late
  BY DEF Abandoned
<1>4. late' \subseteq [agent : Agents, stamp : Nat]
  BY <1>1, <1>3
<1>5. ASSUME NEW w \in late', w \notin late
      PROVE  w.agent = a /\ w.stamp <= Clock(a) /\ MayWrite(a, w.stamp)
  <2>1. /\ call[a].at = "write" /\ call[a].version = lease.version
        /\ w.agent = a /\ w.stamp = call[a].stamp
    BY <1>3, <1>5
  <2>2. MayWrite(a, call[a].stamp)
    BY <2>1 DEF IInv, CallIsSafe
  <2>3. call[a].stamp <= Clock(a)
    BY <2>1 DEF IInv, StampsArePast
  <2> QED BY <2>1, <2>2, <2>3
<1> QED BY <1>2, <1>3, <1>4, <1>5, CallEnds

LEMMA ServerWritesKeeps == ASSUME IInv, NEW a \in Agents, ServerWrites(a) PROVE IInv'
<1>1. /\ Clock(a) \in Nat
      /\ lease.version \in Nat /\ lease.renew \in Nat
      /\ call \in [Agents -> Calls] /\ call[a].stamp \in Nat /\ call[a].version \in Nat
      /\ late \subseteq [agent : Agents, stamp : Nat]
      /\ belief \in [Agents -> Nat \cup {NotLeader}]
  BY TypeFacts DEF IInv, TypeOK
<1>2. call[a].at = "write" /\ UNCHANGED <<now, belief>>
  BY DEF ServerWrites
<1>3. CASE /\ call[a].version = lease.version
           /\ Writes(a, call[a].stamp)
           /\ call' = [call EXCEPT ![a].at = "granted"]
  <2>1. PICK stamp \in Nat : stamp = call[a].stamp
    BY <1>1
  <2>2. MayWrite(a, stamp) /\ stamp <= Clock(a)
    BY <1>2, <1>3, <2>1 DEF IInv, CallIsSafe, StampsArePast
  <2>3. Writes(a, stamp) /\ call[a].at # "read"
    BY <1>2, <1>3, <2>1
  <2>4. /\ lease' \in Leases
        /\ late' \subseteq [agent : Agents, stamp : Nat]
        /\ (lease.version = 0 <=> lease.holder = Nobody)'
        /\ (lease.version = 0 => lease.renew = 0)'
        /\ \A b \in Agents : lease'.holder = b => lease'.renew <= Clock(b)'
        /\ \A w \in late' : FALSE
        /\ GrantsStand'
    BY <1>2, <2>2, <2>3, AcceptedWrite
  <2>5. /\ call'[a].at = "granted" /\ call'[a].stamp = stamp
        /\ call'[a].version = call[a].version
        /\ \A b \in Agents \ {a} : call'[b] = call[b]
        /\ call' \in [Agents -> Calls]
    BY <1>1, <1>3, <2>1 DEF Calls
  <2>6. lease'.holder = a /\ lease'.renew = stamp /\ lease'.version = lease.version + 1
    BY <2>3 DEF Writes
  <2>7. CallIsSafe(a)'
    BY <1>1, <1>3, <2>5, <2>6 DEF CallIsSafe, GrantStands
  <2>8. ASSUME NEW b \in Agents, b # a PROVE CallIsSafe(b)'
    BY <1>2, <2>2, <2>3, <2>5, <2>8, WriteIsSafe
  <2>9. TypeOK'
    BY <1>2, <2>4, <2>5 DEF IInv, TypeOK
  <2>10. StampsArePast'
    <3>1. \A b \in Agents : Clock(b)' = Clock(b)
      BY <1>2 DEF Clock
    <3>2. \A b \in Agents : call'[b].at # "idle" => call'[b].stamp <= Clock(b)'
      BY <2>2, <2>5, <3>1 DEF IInv, StampsArePast
    <3> QED BY <2>4, <3>2 DEF StampsArePast
  <2> QED BY <2>4, <2>7, <2>8, <2>9, <2>10 DEF IInv
<1>4. CASE /\ call[a].version # lease.version
           /\ call' = [call EXCEPT ![a] = Refused]
           /\ UNCHANGED <<lease, late>>
  <2>1. /\ call'[a].at = "refused" /\ call'[a].stamp = 0 /\ call'[a].version = 0
        /\ \A b \in Agents \ {a} : call'[b] = call[b]
        /\ call' \in [Agents -> Calls]
    BY <1>1, <1>4 DEF Calls, Refused
  <2>2. call'[a].stamp <= Clock(a)
    BY <1>1, <2>1
  <2>3. CallIsSafe(a)'
    BY <1>1, <1>4, <2>1 DEF CallIsSafe
  <2>4. GrantsStand'
    BY <1>2, <1>4, BeliefsKeep
  <2>5. /\ late' \subseteq [agent : Agents, stamp : Nat]
        /\ \A w \in late' : w \in late
        /\ belief' \in [Agents -> Nat \cup {NotLeader}]
        /\ UNCHANGED <<now, lease>>
    BY <1>1, <1>2, <1>4
  <2>6. SafeStepOf(a)
    BY <2>1, <2>2, <2>3, <2>4, <2>5 DEF SafeStepOf
  <2> QED BY <2>6, CallStep
<1> QED BY <1>3, <1>4 DEF ServerWrites

LEMMA LateWriteKeeps == ASSUME IInv, NEW w \in late, LateWrite(w) PROVE IInv'
<1>1. PICK a \in Agents, stamp \in Nat : a = w.agent /\ stamp = w.stamp
  BY DEF IInv, TypeOK
<1>2. /\ Writes(a, stamp)
      /\ UNCHANGED <<now, call, belief>>
  BY <1>1 DEF LateWrite
<1>3. MayWrite(a, stamp) /\ stamp <= Clock(a)
  BY <1>1 DEF IInv, StampsArePast
<1>4. call[a].at = "read" => stamp <= call[a].stamp
  BY <1>1 DEF IInv, CallIsSafe
<1>5. /\ lease' \in Leases
      /\ late' \subseteq [agent : Agents, stamp : Nat]
      /\ (lease.version = 0 <=> lease.holder = Nobody)'
      /\ (lease.version = 0 => lease.renew = 0)'
      /\ \A b \in Agents : lease'.holder = b => lease'.renew <= Clock(b)'
      /\ \A x \in late' : FALSE
      /\ GrantsStand'
  BY <1>2, <1>3, <1>4, AcceptedWrite
<1>6. ASSUME NEW b \in Agents PROVE CallIsSafe(b)'
  BY <1>2, <1>3, <1>4, WriteIsSafe
<1>7. TypeOK'
  BY <1>2, <1>5 DEF IInv, TypeOK
<1>8. StampsArePast'
  <2>1. \A b \in Agents : Clock(b)' = Clock(b)
    BY <1>2 DEF Clock
  <2>2. \A b \in Agents : call'[b].at # "idle" => call'[b].stamp <= Clock(b)'
    BY <1>2, <2>1 DEF IInv, StampsArePast
  <2> QED BY <1>5, <2>2 DEF StampsArePast
<1> QED BY <1>5, <1>6, <1>7, <1>8 DEF IInv

-----------------------------------------------------------------------------
(* Theorems *)

LEMMA InitSafe == ASSUME Init PROVE IInv
<1>1. TypeOK
  BY DEF Init, TypeOK, Leases, Calls, Idle
<1> QED BY <1>1
        DEF Init, IInv, StampsArePast, CallIsSafe, GrantsStand, Idle

LEMMA NextSafe == ASSUME IInv, Next PROVE IInv'
<1>1. CASE Tick
  BY <1>1, TickKeeps
<1>2. ASSUME NEW a \in Agents, Call(a) PROVE IInv'
  BY <1>2, CallKeeps
<1>3. ASSUME NEW a \in Agents, ReadReturns(a) PROVE IInv'
  BY <1>3, ReadReturnsKeeps
<1>4. ASSUME NEW a \in Agents, BuildNewLease(a) PROVE IInv'
  BY <1>4, BuildNewLeaseKeeps
<1>5. ASSUME NEW a \in Agents, ServerWrites(a) PROVE IInv'
  BY <1>5, ServerWritesKeeps
<1>6. ASSUME NEW a \in Agents, ReturnsTrue(a) PROVE IInv'
  BY <1>6, ReturnsTrueKeeps
<1>7. ASSUME NEW a \in Agents, ReturnsFalse(a) PROVE IInv'
  BY <1>7, ReturnsFalseKeeps
<1>8. ASSUME NEW a \in Agents, Raises(a) PROVE IInv'
  <2>1. belief \in [Agents -> Nat \cup {NotLeader}]
    BY DEF IInv, TypeOK
  <2> QED BY <1>8, <2>1, AbandonedKeeps DEF Raises
<1>9. ASSUME NEW a \in Agents, Restarts(a) PROVE IInv'
  <2>1. belief \in [Agents -> Nat \cup {NotLeader}]
    BY DEF IInv, TypeOK
  <2>2. belief' = [belief EXCEPT ![a] = NotLeader]
    BY <1>9 DEF Restarts
  <2>3. /\ belief' \in [Agents -> Nat \cup {NotLeader}]
        /\ \A b \in Agents : belief'[b] \in {belief[b], NotLeader}
    BY <2>1, <2>2
  <2> QED BY <1>9, <2>3, AbandonedKeeps DEF Restarts
<1>10. ASSUME NEW w \in late, LateWrite(w) PROVE IInv'
  BY <1>10, LateWriteKeeps
<1> QED BY <1>1, <1>2, <1>3, <1>4, <1>5, <1>6, <1>7, <1>8, <1>9, <1>10 DEF Next

LEMMA StutterSafe == ASSUME IInv, UNCHANGED vars PROVE IInv'
BY DEF vars, IInv, TypeOK, StampsArePast, CallIsSafe, GrantsStand, MayWrite,
       GrantStands, Clock

(* The inductive invariant: no write that can still be accepted, of a live call
   or a late one, shortens a lease or takes one that runs. *)
THEOREM Invariance == Spec => []IInv
<1>1. Init => IInv
  BY InitSafe
<1>2. IInv /\ [Next]_vars => IInv'
  BY NextSafe, StutterSafe
<1> QED BY <1>1, <1>2, PTL DEF Spec

(* Every variable has its type in every state reached. *)
THEOREM TypeCorrect == Spec => []TypeOK
<1>1. IInv => TypeOK
  BY DEF IInv
<1> QED BY <1>1, Invariance, PTL

(* An agent that was told it leads holds the lease until its own clock comes
   within MaxSkew of the end of the lease it was granted. *)
THEOREM LeaseIsHonoured == Spec => []LeaseHonoured
<1>1. ASSUME IInv PROVE LeaseHonoured
  <2> SUFFICES ASSUME NEW a \in Agents, belief[a] # NotLeader,
                      Clock(a) + MaxSkew <= belief[a] + LeaseDuration
               PROVE  lease.holder = a
    BY DEF LeaseHonoured
  <2>1. belief[a] \in Nat /\ Clock(a) \in Nat
    BY <1>1, TypeFacts DEF IInv
  <2>2. GrantStands(a, belief[a])
    BY <1>1 DEF IInv, GrantsStand
  <2>3. ~(belief[a] + LeaseDuration < Clock(a) + MaxSkew)
    BY <2>1
  <2> QED BY <2>2, <2>3 DEF GrantStands
<1> QED BY <1>1, Invariance, PTL

(* What one write does to the lease it replaces. *)
LEMMA WriteOnlyExtends ==
  ASSUME IInv, NEW a \in Agents, NEW stamp \in Nat, MayWrite(a, stamp), Writes(a, stamp)
  PROVE  /\ lease.version > 0 /\ lease'.holder # lease.holder
              => lease.renew + LeaseDuration < lease'.renew
         /\ lease'.renew >= lease.renew
<1>1. lease.version \in Nat /\ lease.renew \in Nat
  BY TypeFacts DEF IInv
<1>2. lease'.holder = a /\ lease'.renew = stamp
  BY DEF Writes
<1>3. lease.version = 0 => lease.renew = 0
  BY DEF IInv
<1> QED BY <1>1, <1>2, <1>3 DEF MayWrite

(* The same of any step: the lease changes by writes only. *)
LEMMA StepOnlyExtends ==
  ASSUME IInv, [Next]_vars
  PROVE  /\ lease.version > 0 /\ lease'.holder # lease.holder
              => lease.renew + LeaseDuration < lease'.renew
         /\ lease'.renew >= lease.renew
<1>1. lease.renew \in Nat
  BY TypeFacts DEF IInv, TypeOK, Leases
<1>2. ASSUME lease' = lease
      PROVE  /\ lease.version > 0 /\ lease'.holder # lease.holder
                  => lease.renew + LeaseDuration < lease'.renew
             /\ lease'.renew >= lease.renew
  BY <1>1, <1>2
<1>3. ASSUME NEW a \in Agents, ServerWrites(a), lease' # lease
      PROVE  /\ lease.version > 0 /\ lease'.holder # lease.holder
                  => lease.renew + LeaseDuration < lease'.renew
             /\ lease'.renew >= lease.renew
  <2>1. /\ call[a].at = "write" /\ call[a].version = lease.version
        /\ Writes(a, call[a].stamp)
    BY <1>3 DEF ServerWrites
  <2>2. PICK stamp \in Nat : stamp = call[a].stamp
    BY TypeFacts DEF IInv
  <2>3. MayWrite(a, stamp) /\ Writes(a, stamp)
    BY <2>1, <2>2 DEF IInv, CallIsSafe
  <2> QED BY <2>3, WriteOnlyExtends
<1>4. ASSUME NEW w \in late, LateWrite(w)
      PROVE  /\ lease.version > 0 /\ lease'.holder # lease.holder
                  => lease.renew + LeaseDuration < lease'.renew
             /\ lease'.renew >= lease.renew
  <2>1. PICK a \in Agents, stamp \in Nat : a = w.agent /\ stamp = w.stamp
    BY DEF IInv, TypeOK
  <2>2. MayWrite(a, stamp) /\ Writes(a, stamp)
    BY <1>4, <2>1 DEF IInv, LateWrite
  <2> QED BY <2>2, WriteOnlyExtends
<1>5. CASE lease' # lease
  <2>1. \/ \E a \in Agents : ServerWrites(a)
        \/ \E w \in late : LateWrite(w)
    BY <1>5 DEF Next, vars, Tick, Call, ReadReturns, BuildNewLease, ReturnsTrue,
                ReturnsFalse, Raises, Restarts
  <2> QED BY <1>3, <1>4, <1>5, <2>1
<1> QED BY <1>2, <1>5

(* The lease changes hands only past its end, by the taker's timestamp. *)
THEOREM TakeoversWait == Spec => TakeoverOnlyAfterExpiry
<1>1. ASSUME IInv, [Next]_vars
      PROVE  [lease.version > 0 /\ lease'.holder # lease.holder
                => lease.renew + LeaseDuration < lease'.renew]_vars
  BY <1>1, StepOnlyExtends
<1> QED BY <1>1, Invariance, PTL DEF Spec, TakeoverOnlyAfterExpiry

(* No write, however late, takes back part of a renewal. *)
THEOREM RenewalsLast == Spec => RenewTimeNeverGoesBack
<1>1. ASSUME IInv, [Next]_vars
      PROVE  [lease'.renew >= lease.renew]_vars
  BY <1>1, StepOnlyExtends
<1> QED BY <1>1, Invariance, PTL DEF Spec, RenewTimeNeverGoesBack

-----------------------------------------------------------------------------
(* Refinement: the steps of LeaderLease that the steps of the calls are *)

LEMMA InitRefines == Init => Election!Init
BY DEF Init, Election!Init, unreturned, Idle

(* What a step of one call does to the renewals that have not been returned. *)
LEMMA UnreturnedChanges ==
  ASSUME IInv, NEW a \in Agents, NEW c \in Calls, call' = [call EXCEPT ![a] = c]
  PROVE  unreturned' = [unreturned EXCEPT ![a] =
                          IF c.at = "granted" THEN c.stamp ELSE NotLeader]
<1>1. call \in [Agents -> Calls]
  BY DEF IInv, TypeOK
<1>2. \A b \in Agents : call'[b] = IF b = a THEN c ELSE call[b]
  BY <1>1
<1> DEFINE x == IF c.at = "granted" THEN c.stamp ELSE NotLeader
           ret(d) == IF d.at = "granted" THEN d.stamp ELSE NotLeader
<1>3. unreturned = [b \in Agents |-> ret(call[b])]
  BY DEF unreturned
<1>4. unreturned' = [b \in Agents |-> ret(call'[b])]
  BY DEF unreturned
<1>5. ret(c) = x
  OBVIOUS
<1> HIDE DEF x, ret
<1>6. unreturned' = [unreturned EXCEPT ![a] = x]
  BY <1>2, <1>3, <1>4, <1>5
<1> QED BY <1>6 DEF x

(* The step of a call that neither had a renewal to return nor has one now. *)
LEMMA NothingToReturn ==
  ASSUME IInv, NEW a \in Agents, NEW c \in Calls, call' = [call EXCEPT ![a] = c],
         call[a].at # "granted", c.at # "granted"
  PROVE  unreturned' = unreturned
<1>1. unreturned' = [unreturned EXCEPT ![a] = NotLeader]
  BY UnreturnedChanges
<1> QED BY <1>1 DEF unreturned

(* A write that may be accepted is a grant, to be returned or not. *)
LEMMA WriteRefines ==
  ASSUME IInv, NEW a \in Agents, NEW stamp \in Nat, MayWrite(a, stamp),
         stamp <= Clock(a), Writes(a, stamp), UNCHANGED <<now, belief>>,
         unreturned' \in {unreturned, [unreturned EXCEPT ![a] = stamp]}
  PROVE  Election!Next
<1>1. /\ lease.version \in Nat /\ lease.renew \in Nat
      /\ Clock(a) \in Nat
      /\ lease.version = 0 <=> lease.holder = Nobody
      /\ lease.version = 0 => lease.renew = 0
  BY TypeFacts DEF IInv
<1>2. lease'.holder = a /\ lease'.renew = stamp
  BY DEF Writes
<1>3. \/ lease.holder \in {Nobody, a} /\ lease.renew <= stamp
      \/ lease.renew + LeaseDuration < stamp
  BY <1>1 DEF MayWrite
<1>4. stamp \in 0 .. Election!Clock(a)
  BY <1>1 DEF Clock, Election!Clock
<1>5. Election!Grant(a)
  BY <1>2, <1>3, <1>4 DEF Election!Grant
<1> QED BY <1>5 DEF Election!Next

(* A call that returns True tells of the grant that it made. *)
LEMMA ReturnsTrueRefines ==
  ASSUME IInv, NEW a \in Agents, ReturnsTrue(a)
  PROVE  Election!Next
<1>1. /\ call[a].at = "granted"
      /\ belief' = [belief EXCEPT ![a] = call[a].stamp]
      /\ call' = [call EXCEPT ![a] = Idle]
      /\ UNCHANGED <<now, lease>>
  BY DEF ReturnsTrue
<1>2. call[a].stamp \in Nat /\ Idle \in Calls /\ Idle.at = "idle"
  BY TypeFacts DEF IInv, Idle, Calls
<1>3. unreturned[a] = call[a].stamp /\ unreturned[a] # NotLeader
  BY <1>1, <1>2, KubernetesLeaseAssumption DEF unreturned
<1>4. unreturned' = [unreturned EXCEPT ![a] = NotLeader]
  BY <1>1, <1>2, UnreturnedChanges
<1>5. Election!Lead(a)
  BY <1>1, <1>3, <1>4 DEF Election!Lead
<1> QED BY <1>5 DEF Election!Next

(* A call that ends without having told of a grant: at most a grant is lost. *)
LEMMA AbandonedRefines ==
  ASSUME IInv, NEW a \in Agents, call' = [call EXCEPT ![a] = Idle]
  PROVE  unreturned' = [unreturned EXCEPT ![a] = NotLeader]
<1>1. Idle \in Calls /\ Idle.at # "granted"
  BY DEF Idle, Calls
<1> QED BY <1>1, UnreturnedChanges

LEMMA NextRefines == ASSUME IInv, [Next]_vars PROVE [Election!Next]_Election!vars
<1>1. ASSUME UNCHANGED <<now, lease, belief, unreturned>>
      PROVE  [Election!Next]_Election!vars
  BY <1>1 DEF Election!vars
<1>2. CASE Tick
  BY <1>2 DEF Tick, Election!Tick, Election!Next, unreturned
<1>3. ASSUME NEW a \in Agents, ServerWrites(a) PROVE [Election!Next]_Election!vars
  <2>1. PICK stamp \in Nat, n \in Nat : stamp = call[a].stamp /\ n = call[a].version
    BY TypeFacts DEF IInv
  <2>2. call[a].at = "write" /\ UNCHANGED <<now, belief>>
    BY <1>3 DEF ServerWrites
  <2>3. CASE call[a].version = lease.version
    <3>1. Writes(a, stamp) /\ call' = [call EXCEPT ![a].at = "granted"]
      BY <1>3, <2>1, <2>3 DEF ServerWrites
    <3>2. MayWrite(a, stamp) /\ stamp <= Clock(a)
      BY <2>1, <2>2, <2>3 DEF IInv, CallIsSafe, StampsArePast
    <3>3. unreturned' = [unreturned EXCEPT ![a] = stamp]
      <4> DEFINE c == [at |-> "granted", stamp |-> stamp, version |-> n]
      <4>1. c \in Calls /\ c.at = "granted" /\ c.stamp = stamp
        BY DEF Calls
      <4>2. call' = [call EXCEPT ![a] = c]
        <5>1. call[a] \in Calls
          BY DEF IInv, TypeOK
        <5>2. [call[a] EXCEPT !.at = "granted"] = c
          BY <2>1, <5>1 DEF Calls
        <5> QED BY <3>1, <5>2
      <4> HIDE DEF c
      <4> QED BY <4>1, <4>2, UnreturnedChanges
    <3> QED BY <2>2, <3>1, <3>2, <3>3, WriteRefines
  <2>4. CASE call[a].version # lease.version
    <3>1. call' = [call EXCEPT ![a] = Refused] /\ UNCHANGED lease
      BY <1>3, <2>4 DEF ServerWrites
    <3>2. Refused \in Calls /\ Refused.at # "granted"
      BY DEF Refused, Calls
    <3>3. unreturned' = unreturned
      BY <2>2, <3>1, <3>2, NothingToReturn
    <3> QED BY <1>1, <2>2, <3>1, <3>3
  <2> QED BY <2>3, <2>4
<1>4. ASSUME NEW w \in late, LateWrite(w) PROVE [Election!Next]_Election!vars
  <2>1. PICK a \in Agents, stamp \in Nat : a = w.agent /\ stamp = w.stamp
    BY DEF IInv, TypeOK
  <2>2. /\ Writes(a, stamp) /\ UNCHANGED <<now, belief>>
        /\ MayWrite(a, stamp) /\ stamp <= Clock(a)
    BY <1>4, <2>1 DEF LateWrite, IInv, StampsArePast
  <2>3. unreturned' = unreturned
    BY <1>4 DEF LateWrite, unreturned
  <2> QED BY <2>2, <2>3, WriteRefines
<1>5. ASSUME NEW a \in Agents, ReturnsTrue(a) PROVE [Election!Next]_Election!vars
  BY <1>5, ReturnsTrueRefines
<1>6. ASSUME NEW a \in Agents, ReturnsFalse(a) \/ Restarts(a)
      PROVE  [Election!Next]_Election!vars
  <2>1. unreturned' = [unreturned EXCEPT ![a] = NotLeader]
    BY <1>6, AbandonedRefines DEF ReturnsFalse, Restarts, Abandoned
  <2>2. Election!StepDown(a)
    BY <1>6, <2>1 DEF ReturnsFalse, Restarts, Election!StepDown
  <2> QED BY <2>2 DEF Election!Next
<1>7. ASSUME NEW a \in Agents, Raises(a) PROVE [Election!Next]_Election!vars
  <2>1. unreturned' = [unreturned EXCEPT ![a] = NotLeader]
    BY <1>7, AbandonedRefines DEF Raises, Abandoned
  <2>2. Election!Lose(a)
    BY <1>7, <2>1 DEF Raises, Election!Lose
  <2> QED BY <2>2 DEF Election!Next
<1>8. CASE UNCHANGED vars
  BY <1>1, <1>8 DEF vars, unreturned
<1>9. ASSUME NEW a \in Agents, Call(a) \/ ReadReturns(a) \/ BuildNewLease(a)
      PROVE  [Election!Next]_Election!vars
  <2>1. PICK c \in Calls : c.at # "granted" /\ call' = [call EXCEPT ![a] = c]
    <3>1. call[a].stamp \in Nat /\ Clock(a) \in Nat /\ lease.version \in Nat
      BY TypeFacts DEF IInv
    <3>2. CASE Call(a)
      BY <3>1, <3>2 DEF Call, Calls
    <3>3. CASE ReadReturns(a)
      <4>1. [Idle EXCEPT !.at = "absent"] = [at |-> "absent", stamp |-> 0, version |-> 0]
        BY DEF Idle
      <4> QED BY <3>1, <3>3, <4>1 DEF ReadReturns, Calls, Refused
    <3>4. CASE BuildNewLease(a)
      BY <3>1, <3>4 DEF BuildNewLease, Calls
    <3> QED BY <1>9, <3>2, <3>3, <3>4
  <2>2. call[a].at # "granted" /\ UNCHANGED <<now, lease, belief>>
    BY <1>9 DEF Call, ReadReturns, BuildNewLease
  <2>3. unreturned' = unreturned
    BY <2>1, <2>2, NothingToReturn
  <2> QED BY <1>1, <2>2, <2>3
<1> QED BY <1>2, <1>3, <1>4, <1>5, <1>6, <1>7, <1>8, <1>9 DEF Next

(* The calls, with their versions, errors, retries and late writes, elect a
   leader as LeaderLease says: in particular an agent takes itself for the
   leader only on the strength of a grant that was made to it. *)
THEOREM CallsImplementElection == Spec => ImplementsLeaderLease
BY InitRefines, NextRefines, Invariance, PTL
   DEF Spec, Election!Spec, ImplementsLeaderLease

-----------------------------------------------------------------------------
(* What LeaderLease promises *)

LEMMA ElectionClocks ==
  ASSUME NEW a \in Agents, NEW b \in Agents, now \in Nat
  PROVE  /\ Election!Clock(a) \in Nat /\ Election!Clock(b) \in Nat
         /\ Election!Clock(a) <= Election!Clock(b) + MaxSkew
BY ClocksAreClose DEF Clock, Election!Clock

(* A grant to b stands through a grant to a: b is a, or the grant to b was over
   by the clock of a, which is close to that of b. *)
LEMMA GrantKeepsGrants ==
  ASSUME Election!IInv,
         NEW a \in Agents, Election!Grant(a),
         NEW b \in Agents, NEW s \in Nat, Election!GrantStands(b, s)
  PROVE  Election!GrantStands(b, s)'
<1>1. now \in Nat /\ lease.renew \in Nat
  BY DEF Election!IInv
<1>2. /\ Election!Clock(a) \in Nat /\ Election!Clock(b) \in Nat
      /\ Election!Clock(a) <= Election!Clock(b) + MaxSkew
  BY <1>1, ElectionClocks
<1>3. PICK stamp \in 0 .. Election!Clock(a) :
        /\ lease'.holder = a /\ lease'.renew = stamp
        /\ Election!Clock(b)' = Election!Clock(b)
  BY DEF Election!Grant, Election!Clock
<1>4. \/ lease.holder = a /\ lease.renew <= stamp
      \/ lease.renew + LeaseDuration < stamp
  BY <1>3 DEF Election!Grant, Election!GrantStands
<1>5. \/ lease.holder = b /\ s <= lease.renew
      \/ s + LeaseDuration < Election!Clock(b) + MaxSkew
  BY DEF Election!GrantStands
<1>6. \/ a = b /\ s <= stamp
      \/ s + LeaseDuration < Election!Clock(b) + MaxSkew
  BY <1>1, <1>2, <1>3, <1>4, <1>5
<1> QED BY <1>3, <1>6 DEF Election!GrantStands

(* A step that makes no grant and lets the clocks run forward, if anything. *)
LEMMA ElectionKeepsGrants ==
  ASSUME Election!IInv, UNCHANGED <<lease.holder, lease.renew>>, now' \in {now, now + 1},
         NEW b \in Agents, NEW s \in Nat, Election!GrantStands(b, s)
  PROVE  Election!GrantStands(b, s)'
<1>1. now \in Nat
  BY DEF Election!IInv
<1>2. Election!Clock(b) \in Nat /\ Election!Clock(b)' >= Election!Clock(b)
  BY <1>1, ElectionClocks DEF Election!Clock
<1>3. Election!Clock(b)' \in Int
  BY <1>1, ElectionClocks, KubernetesLeaseAssumption DEF Election!Clock
<1> QED BY <1>2, <1>3, KubernetesLeaseAssumption DEF Election!GrantStands

(* What the agents believe and are about to be told comes from what they
   believed, were about to be told, or have just been granted. *)
LEMMA ElectionStep ==
  ASSUME Election!IInv, [Election!Next]_Election!vars
  PROVE  Election!IInv'
<1>1. /\ now \in Nat
      /\ lease.holder \in Agents \cup {Nobody} /\ lease.renew \in Nat
      /\ unreturned \in [Agents -> Nat \cup {NotLeader}]
      /\ belief \in [Agents -> Nat \cup {NotLeader}]
      /\ \A b \in Agents :
           /\ unreturned[b] # NotLeader => Election!GrantStands(b, unreturned[b])
           /\ belief[b] # NotLeader => Election!GrantStands(b, belief[b])
  BY DEF Election!IInv
<1>2. ASSUME UNCHANGED <<lease.holder, lease.renew>>, now' \in {now, now + 1},
             unreturned' \in [Agents -> Nat \cup {NotLeader}],
             belief' \in [Agents -> Nat \cup {NotLeader}],
             \A b \in Agents : unreturned'[b] \in {unreturned[b], NotLeader},
             \A b \in Agents : belief'[b] \in {belief[b], unreturned[b], NotLeader}
      PROVE  Election!IInv'
  <2>1. ASSUME NEW b \in Agents, NEW s \in Nat, s \in {unreturned[b], belief[b]}
        PROVE  Election!GrantStands(b, s)'
    <3>1. Election!GrantStands(b, s)
      BY <1>1, <2>1, KubernetesLeaseAssumption
    <3> QED BY <1>2, <3>1, ElectionKeepsGrants
  <2>2. ASSUME NEW b \in Agents, unreturned'[b] # NotLeader
        PROVE  Election!GrantStands(b, unreturned[b])' 
    <3>1. PICK s \in Nat : s = unreturned'[b] /\ s = unreturned[b]
      BY <1>2, <2>2
    <3>2. Election!GrantStands(b, s)'
      BY <2>1, <3>1
    <3> QED BY <3>1, <3>2 DEF Election!GrantStands
  <2>3. ASSUME NEW b \in Agents, belief'[b] # NotLeader
        PROVE  Election!GrantStands(b, belief[b])'
    <3>1. PICK s \in Nat : s = belief'[b] /\ s \in {unreturned[b], belief[b]}
      BY <1>2, <2>3
    <3>2. Election!GrantStands(b, s)'
      BY <2>1, <3>1
    <3> QED BY <3>1, <3>2 DEF Election!GrantStands
  <2> QED BY <1>1, <1>2, <2>2, <2>3 DEF Election!IInv
<1>3. CASE Election!Tick
  BY <1>1, <1>2, <1>3 DEF Election!Tick
<1>4. ASSUME NEW a \in Agents, Election!Lead(a) \/ Election!Lose(a) \/ Election!StepDown(a)
      PROVE  Election!IInv'
  BY <1>1, <1>2, <1>4 DEF Election!Lead, Election!Lose, Election!StepDown
<1>5. ASSUME NEW a \in Agents, Election!Grant(a) PROVE Election!IInv'
  <2>1. PICK stamp \in Nat :
          /\ lease'.holder = a /\ lease'.renew = stamp
          /\ UNCHANGED <<now, belief>>
          /\ unreturned' \in {unreturned, [unreturned EXCEPT ![a] = stamp]}
    <3>1. lease'.renew \in Nat
      BY <1>1, <1>5, ElectionClocks DEF Election!Grant
    <3> QED BY <1>5, <3>1 DEF Election!Grant
  <2>2. a # Nobody
    BY KubernetesLeaseAssumption
  <2>3. Election!GrantStands(a, stamp)'
    BY <2>1, <2>2 DEF Election!GrantStands
  <2>4. ASSUME NEW b \in Agents, belief[b] # NotLeader
        PROVE  Election!GrantStands(b, belief[b])'
    <3>1. PICK s \in Nat : s = belief[b] /\ Election!GrantStands(b, s)
      BY <1>1, <2>4
    <3>2. Election!GrantStands(b, s)'
      BY <1>5, <3>1, GrantKeepsGrants
    <3> QED BY <2>1, <3>1, <3>2 DEF Election!GrantStands
  <2>5. ASSUME NEW b \in Agents, unreturned'[b] # NotLeader
        PROVE  Election!GrantStands(b, unreturned[b])'
    <3>1. CASE unreturned'[b] = unreturned[b]
      <4>1. PICK s \in Nat : s = unreturned[b] /\ Election!GrantStands(b, s)
        BY <1>1, <2>5, <3>1
      <4>2. Election!GrantStands(b, s)'
        BY <1>5, <4>1, GrantKeepsGrants
      <4> QED BY <3>1, <4>1, <4>2 DEF Election!GrantStands
    <3>2. CASE unreturned'[b] # unreturned[b]
      <4>1. b = a /\ unreturned'[b] = stamp
        BY <1>1, <2>1, <3>2
      <4> QED BY <2>3, <4>1 DEF Election!GrantStands
    <3> QED BY <3>1, <3>2
  <2>6. unreturned' \in [Agents -> Nat \cup {NotLeader}]
    BY <1>1, <2>1
  <2> QED BY <1>1, <2>1, <2>4, <2>5, <2>6 DEF Election!IInv
<1>6. CASE UNCHANGED Election!vars
  BY <1>1, <1>2, <1>6 DEF Election!vars
<1> QED BY <1>3, <1>4, <1>5, <1>6 DEF Election!Next

LEMMA LeaseInForceIsOne == Election!IInv => Election!OneLeader
<1> SUFFICES ASSUME Election!IInv, NEW a \in Agents, Election!Leads(a)
             PROVE  lease.holder = a
  BY DEF Election!OneLeader
<1>1. now \in Nat /\ belief[a] \in Nat /\ Election!GrantStands(a, belief[a])
  BY DEF Election!IInv, Election!Leads
<1>2. Election!Clock(a) \in Nat
  BY <1>1, ElectionClocks
<1> QED BY <1>1, <1>2 DEF Election!Leads, Election!GrantStands

(* LeaderLease keeps its promise, whatever implements it: no two leaders. *)
THEOREM ElectionHasOneLeader == Election!Spec => []Election!OneLeader
<1>1. Election!Init => Election!IInv
  BY DEF Election!Init, Election!IInv
<1>2. Election!IInv /\ [Election!Next]_Election!vars => Election!IInv'
  BY ElectionStep
<1> QED BY <1>1, <1>2, LeaseInForceIsOne, PTL DEF Election!Spec

(* Two agents never lead at the same time: LeaderLease promises it and the
   calls implement LeaderLease. *)
THEOREM NeverTwoLeaders == Spec => []OneLeader
BY CallsImplementElection, ElectionHasOneLeader, PTL DEF ImplementsLeaderLease, OneLeader

=============================================================================
