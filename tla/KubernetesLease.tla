--------------------------- MODULE KubernetesLease ---------------------------
(***************************************************************************)
(* Leader election by one Kubernetes Lease (core/leader.py). Every call of *)
(* acquire_or_renew_lease reads the clock of its pod, reads the lease and, *)
(* when it may, writes it; the API server accepts a write only of the      *)
(* version that was read. Pods' clocks differ by MaxSkew at most. Calls    *)
(* fail at any point, and a write whose caller is gone may land later.     *)
(*                                                                         *)
(* Left out: acquire_time, which no decision reads.                        *)
(***************************************************************************)
EXTENDS Integers

CONSTANTS
  Agents,
  Nobody,         \* holder of the lease that does not exist yet
  LeaseDuration,  \* lease_duration_seconds, the same for every agent
  MaxSkew,
  Skew,           \* Skew[a]: how far a's clock is ahead of real time
  NotLeader,      \* belief of an agent whose is_leader is False
  Horizon,        \* bound on the time modelled
  MaxVersion      \* no call starts from this version of the lease on

ASSUME KubernetesLeaseAssumption ==
  /\ Nobody \notin Agents
  /\ LeaseDuration \in Nat \ {0}
  /\ MaxSkew \in Nat
  /\ Skew \in [Agents -> 0 .. MaxSkew]
  /\ NotLeader \notin Nat
  /\ Horizon \in Nat
  /\ MaxVersion \in Nat

VARIABLES
  now,       \* real time
  lease,     \* holder, renew_time and resourceVersion; version 0: no lease yet
  call,      \* call[a]: where the call of a stands, its timestamp, the lease it read
  late,      \* writes of the current version whose caller has given up
  belief     \* belief[a]: is_leader, with the timestamp of the write that made it so

vars == <<now, lease, call, late, belief>>

Leases == [holder : Agents \cup {Nobody}, renew : Nat, version : Nat]

\* A call has read no lease ("absent"), wants to write, or has its result.
Calls ==
  [at : {"idle", "read", "absent", "write", "granted", "refused"},
   stamp : Nat, version : Nat]

TypeOK ==
  /\ now \in 0 .. Horizon
  /\ lease \in Leases
  /\ call \in [Agents -> Calls]
  /\ late \subseteq [agent : Agents, stamp : Nat]
  /\ belief \in [Agents -> Nat \cup {NotLeader}]

Idle == [at |-> "idle", stamp |-> 0, version |-> 0]
Refused == [at |-> "refused", stamp |-> 0, version |-> 0]

Init ==
  /\ now = 0
  /\ lease = [holder |-> Nobody, renew |-> 0, version |-> 0]
  /\ call = [a \in Agents |-> Idle]
  /\ late = {}
  /\ belief = [a \in Agents |-> NotLeader]

-----------------------------------------------------------------------------

\* datetime.now of the pod.
Clock(a) == now + Skew[a]

Tick ==
  /\ now < Horizon
  /\ now' = now + 1
  /\ UNCHANGED <<lease, call, late, belief>>

\* The clock is read before the lease is.
Call(a) ==
  /\ call[a].at = "idle"
  /\ lease.version < MaxVersion
  /\ call' = [call EXCEPT ![a] = [at |-> "read", stamp |-> Clock(a), version |-> 0]]
  /\ UNCHANGED <<now, lease, late, belief>>

\* Faulty form of Expired: the lease ends one tick early.
ExpiredEarly(stamp) == lease.renew + LeaseDuration <= stamp + 1

Expired(stamp) == lease.renew + LeaseDuration < stamp

CanAcquireOrRenew(a, stamp) == lease.holder = a \/ Expired(stamp)

\* The API server answers 404 or the lease; a lease that is held and not
\* expired ends the call without a write.
ReadReturns(a) ==
  /\ call[a].at = "read"
  /\ call' = [call EXCEPT ![a] =
       IF lease.version = 0 THEN [Idle EXCEPT !.at = "absent"]
       ELSE IF CanAcquireOrRenew(a, @.stamp)
            THEN [at |-> "write", stamp |-> @.stamp, version |-> lease.version]
            ELSE Refused]
  /\ UNCHANGED <<now, lease, late, belief>>

\* After a 404 the new lease takes a timestamp of its own.
BuildNewLease(a) ==
  /\ call[a].at = "absent"
  /\ call' = [call EXCEPT ![a] = [at |-> "write", stamp |-> Clock(a), version |-> 0]]
  /\ UNCHANGED <<now, lease, late, belief>>

\* A write of the version that is current. It voids every other write of that
\* version, whenever it comes: the answer to it will be 409.
Writes(a, stamp) ==
  /\ lease' = [holder |-> a, renew |-> stamp, version |-> lease.version + 1]
  /\ late' = {}

\* Faulty form of ServerWrites: the version is not compared.
ServerOverwrites(a) ==
  /\ call[a].at = "write"
  /\ Writes(a, call[a].stamp)
  /\ call' = [call EXCEPT ![a].at = "granted"]
  /\ UNCHANGED <<now, belief>>

\* The API server handles a create or a replace: 409 when the lease has been
\* created or replaced since the caller read it.
ServerWrites(a) ==
  /\ call[a].at = "write"
  /\ \/ /\ call[a].version = lease.version
        /\ Writes(a, call[a].stamp)
        /\ call' = [call EXCEPT ![a].at = "granted"]
     \/ /\ call[a].version # lease.version
        /\ call' = [call EXCEPT ![a] = Refused]
        /\ UNCHANGED <<lease, late>>
  /\ UNCHANGED <<now, belief>>

LateWrite(w) ==
  /\ w \in late
  /\ Writes(w.agent, w.stamp)
  /\ UNCHANGED <<now, call, belief>>

\* Faulty form of ReturnsTrue: leadership counts from the answer, not from the
\* timestamp that was written.
LeadsFromNow(a) ==
  /\ call[a].at = "granted"
  /\ belief' = [belief EXCEPT ![a] = Clock(a)]
  /\ call' = [call EXCEPT ![a] = Idle]
  /\ UNCHANGED <<now, lease, late>>

\* _set_leader, and the result of the call.
ReturnsTrue(a) ==
  /\ call[a].at = "granted"
  /\ belief' = [belief EXCEPT ![a] = call[a].stamp]
  /\ call' = [call EXCEPT ![a] = Idle]
  /\ UNCHANGED <<now, lease, late>>

ReturnsFalse(a) ==
  /\ call[a].at = "refused"
  /\ belief' = [belief EXCEPT ![a] = NotLeader]
  /\ call' = [call EXCEPT ![a] = Idle]
  /\ UNCHANGED <<now, lease, late>>

\* Nobody waits for the call any more. A write that was under way may still
\* land, if its version is current then.
Abandoned(a) ==
  /\ call' = [call EXCEPT ![a] = Idle]
  /\ late' = IF call[a].at = "write" /\ call[a].version = lease.version
             THEN late \cup {[agent |-> a, stamp |-> call[a].stamp]}
             ELSE late

\* Faulty form of Raises: is_leader becomes None.
RaisesUnset(a) ==
  /\ call[a].at # "idle"
  /\ Abandoned(a)
  /\ belief' = [belief EXCEPT ![a] = Nobody]
  /\ UNCHANGED <<now, lease>>

\* An error of the API or of the network: is_leader keeps its value.
Raises(a) ==
  /\ call[a].at # "idle"
  /\ Abandoned(a)
  /\ UNCHANGED <<now, lease, belief>>

\* The container crashes and comes back with the same host name and process
\* id, so with the same identity.
Restarts(a) ==
  /\ Abandoned(a)
  /\ belief' = [belief EXCEPT ![a] = NotLeader]
  /\ UNCHANGED <<now, lease>>

Next ==
  \/ Tick
  \/ \E a \in Agents :
       \/ Call(a) \/ ReadReturns(a) \/ BuildNewLease(a) \/ ServerWrites(a)
       \/ ReturnsTrue(a) \/ ReturnsFalse(a) \/ Raises(a) \/ Restarts(a)
  \/ \E w \in late : LateWrite(w)

Spec == Init /\ [][Next]_vars

-----------------------------------------------------------------------------
(* Properties *)

(* An agent that was told it leads does hold the lease, for as long as its own
   clock stays MaxSkew short of the end of the lease it was granted: nobody
   takes over before that, whatever was read, retried or delayed in between. *)
LeaseHonoured ==
  \A a \in Agents :
    belief[a] # NotLeader /\ Clock(a) + MaxSkew <= belief[a] + LeaseDuration
      => lease.holder = a

(* The lease changes hands only when the taker's timestamp is past the end of
   the lease it takes, even though it was judged on an earlier read. *)
TakeoverOnlyAfterExpiry ==
  [][lease.version > 0 /\ lease'.holder # lease.holder
       => lease.renew + LeaseDuration < lease'.renew]_vars

(* renew_time never goes back: a late or slow write cannot shorten a lease that
   was renewed in the meantime. *)
RenewTimeNeverGoesBack == [][lease'.renew >= lease.renew]_vars

\* The renewals that calls have made and not returned yet.
unreturned ==
  [a \in Agents |-> IF call[a].at = "granted" THEN call[a].stamp ELSE NotLeader]

Election == INSTANCE LeaderLease
  WITH holder <- lease.holder, renew <- lease.renew, granted <- unreturned

(* Seen from outside, the calls grant and end leadership as LeaderLease says: a
   lease is taken only when it is free or over by the clock of its taker, and an
   agent's belief is the timestamp of a grant made to that very agent, however
   late it learns of it: a call that was refused, that failed, or whose write
   landed after it had ended makes nobody a leader. *)
ImplementsLeaderLease == Election!Spec

(* Two agents never lead at the same time, each counting its grant down by its
   own clock until MaxSkew before the end. *)
OneLeader == Election!OneLeader

-----------------------------------------------------------------------------
(* Inductive invariant *)

\* What makes a write of the current version harmless.
MayWrite(a, stamp) ==
  lease.version > 0 =>
    \/ lease.holder = a /\ lease.renew <= stamp
    \/ lease.renew + LeaseDuration < stamp

\* A lease granted to a at `stamp' is still a's, renewed if anything, or over.
GrantStands(a, stamp) ==
  /\ lease.version > 0
  /\ \/ lease.holder = a /\ stamp <= lease.renew
     \/ stamp + LeaseDuration < Clock(a) + MaxSkew

\* Timestamps are never ahead of the clock they were read from.
StampsArePast ==
  /\ \A a \in Agents :
       /\ call[a].at # "idle" => call[a].stamp <= Clock(a)
       /\ lease.holder = a => lease.renew <= Clock(a)
  /\ \A w \in late : w.stamp <= Clock(w.agent)

CallIsSafe(a) ==
  /\ call[a].version <= lease.version
  /\ call[a].at = "read" =>
       /\ lease.holder = a => lease.renew <= call[a].stamp
       /\ \A w \in late : w.agent = a => w.stamp <= call[a].stamp
  /\ call[a].at = "absent" => call[a].version = 0
  /\ call[a].at = "write" /\ call[a].version = lease.version
       => MayWrite(a, call[a].stamp)
  /\ call[a].at = "granted" => GrantStands(a, call[a].stamp)

GrantsStand ==
  \A a \in Agents : belief[a] # NotLeader => GrantStands(a, belief[a])

(* What the properties above rest on: no write that can still be accepted, of
   a live call or a late one, shortens a lease or takes one that runs. *)
IInv ==
  /\ TypeOK
  /\ lease.version = 0 <=> lease.holder = Nobody
  /\ lease.version = 0 => lease.renew = 0
  /\ StampsArePast
  /\ \A a \in Agents : CallIsSafe(a)
  /\ GrantsStand
  /\ \A w \in late : MayWrite(w.agent, w.stamp)

=============================================================================
