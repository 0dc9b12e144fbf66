------------------------------ MODULE LeaderLease ------------------------------
(***************************************************************************)
(* What leader election promises, without calls, versions or errors: a     *)
(* lease that its holder renews and that others take only past its end,    *)
(* and agents that believe they lead for as long as the lease they were    *)
(* granted. An agent learns of a grant of its own and of no other, perhaps *)
(* late, when that lease is over already, and perhaps never.               *)
(***************************************************************************)
EXTENDS Integers

CONSTANTS
  Agents, Nobody,
  LeaseDuration,
  MaxSkew, Skew,   \* clocks of the agents are at most MaxSkew ahead of time
  NotLeader

VARIABLES
  now,
  holder, renew,   \* the lease ends LeaseDuration after renew
  granted,         \* granted[a]: renewal that a has got and not been told of
  belief           \* belief[a]: when the lease that a leads under was renewed

vars == <<now, holder, renew, granted, belief>>

Clock(a) == now + Skew[a]

Init ==
  /\ now = 0
  /\ holder = Nobody
  /\ renew = 0
  /\ granted = [a \in Agents |-> NotLeader]
  /\ belief = [a \in Agents |-> NotLeader]

Tick ==
  /\ now' = now + 1
  /\ UNCHANGED <<holder, renew, granted, belief>>

\* a gets the lease: it is free, a's own, or over. Either a is waiting to be
\* told, or it asked so long ago that it no longer listens.
Grant(a) ==
  /\ holder' = a
  /\ renew' \in 0 .. Clock(a)
  /\ \/ holder \in {Nobody, a} /\ renew <= renew'
     \/ renew + LeaseDuration < renew'
  /\ granted' \in {granted, [granted EXCEPT ![a] = renew']}
  /\ UNCHANGED <<now, belief>>

\* a learns of its grant, now or late.
Lead(a) ==
  /\ granted[a] # NotLeader
  /\ belief' = [belief EXCEPT ![a] = granted[a]]
  /\ granted' = [granted EXCEPT ![a] = NotLeader]
  /\ UNCHANGED <<now, holder, renew>>

\* The answer is lost: a goes on believing what it believed.
Lose(a) ==
  /\ granted' = [granted EXCEPT ![a] = NotLeader]
  /\ UNCHANGED <<now, holder, renew, belief>>

StepDown(a) ==
  /\ granted' = [granted EXCEPT ![a] = NotLeader]
  /\ belief' = [belief EXCEPT ![a] = NotLeader]
  /\ UNCHANGED <<now, holder, renew>>

Next ==
  \/ Tick
  \/ \E a \in Agents : Grant(a) \/ Lead(a) \/ Lose(a) \/ StepDown(a)

Spec == Init /\ [][Next]_vars

-----------------------------------------------------------------------------
(* Properties *)

\* a believes it leads, and its grant has not run out by its own clock.
Leads(a) ==
  /\ belief[a] # NotLeader
  /\ Clock(a) + MaxSkew <= belief[a] + LeaseDuration

(* Two agents never lead at the same time, although an agent counts on its grant
   without asking again, by a clock of its own. *)
OneLeader == \A a, b \in Agents : Leads(a) /\ Leads(b) => a = b

-----------------------------------------------------------------------------
(* Inductive invariant: who believes it leads, or is about to be told so, still
   holds its lease, or that lease is over by any clock. *)

GrantStands(a, stamp) ==
  /\ holder # Nobody
  /\ \/ holder = a /\ stamp <= renew
     \/ stamp + LeaseDuration < Clock(a) + MaxSkew

IInv ==
  /\ now \in Nat
  /\ holder \in Agents \cup {Nobody}
  /\ renew \in Nat
  /\ granted \in [Agents -> Nat \cup {NotLeader}]
  /\ belief \in [Agents -> Nat \cup {NotLeader}]
  /\ \A a \in Agents :
       /\ granted[a] # NotLeader => GrantStands(a, granted[a])
       /\ belief[a] # NotLeader => GrantStands(a, belief[a])

=============================================================================
