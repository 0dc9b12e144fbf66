--------------------------- MODULE ClaimSetDelivery ---------------------------
(***************************************************************************)
(* What the agents together promise for every claim set, without workers,  *)
(* requests or crashes: one agent at most is ever accepted as its owner,   *)
(* its claims are announced once, started once, one at a time and in       *)
(* order, ended once, and none starts after a failure that ends the set.   *)
(* A set may stay in any stage for ever: an agent may die with it.         *)
(***************************************************************************)
EXTENDS ClaimOrder

CONSTANTS Agents, Nobody

VARIABLES
  owner,     \* the agent whose acknowledgement the control plane accepted
  emitted    \* how often each event of each claim was emitted

vars == <<owner, emitted>>

Ended(c) == emitted[c]["success"] + emitted[c]["failed"] > 0

Init ==
  /\ owner = [cs \in ClaimSets |-> Nobody]
  /\ emitted = [c \in Claims |-> [e \in EventEnum |-> 0]]

Acknowledge(cs) ==
  /\ owner[cs] = Nobody
  /\ \E a \in Agents : owner' = [owner EXCEPT ![cs] = a]
  /\ UNCHANGED emitted

Queue(cs) ==
  /\ owner[cs] # Nobody
  /\ \A c \in ClaimsOf[cs], e \in EventEnum : emitted[c][e] = 0
  /\ emitted' = [c \in Claims |->
       IF c \in ClaimsOf[cs] THEN [emitted[c] EXCEPT !["queued"] = 1]
                             ELSE emitted[c]]
  /\ UNCHANGED owner

Start(cs, c) ==
  /\ \A d \in ClaimsOf[cs] : emitted[d]["queued"] = 1
  /\ emitted[c]["executing"] = 0
  /\ \A d \in ClaimsOf[cs] \ {c} :
       \/ /\ Before(d, c)
          /\ Ended(d)
          /\ StopsOnFailure(cs) => emitted[d]["failed"] = 0
       \/ /\ Before(c, d)
          /\ emitted[d]["executing"] = 0
  /\ emitted' = [emitted EXCEPT ![c]["executing"] = 1]
  /\ UNCHANGED owner

End(c) ==
  /\ emitted[c]["executing"] = 1
  /\ ~Ended(c)
  /\ \E outcome \in {"success", "failed"} :
       emitted' = [emitted EXCEPT ![c][outcome] = 1]
  /\ UNCHANGED owner

Next ==
  \E cs \in ClaimSets :
    \/ Acknowledge(cs)
    \/ Queue(cs)
    \/ \E c \in ClaimsOf[cs] : Start(cs, c) \/ End(c)

Spec == Init /\ [][Next]_vars

-----------------------------------------------------------------------------
(* Properties *)

TypeOK ==
  /\ owner \in [ClaimSets -> Agents \cup {Nobody}]
  /\ emitted \in [Claims -> [EventEnum -> Nat]]

(* A claim is queued once at most, starts only if it was queued and then once at
   most, and ends only if it has started, with one outcome. *)
AtMostOnce ==
  \A cs \in ClaimSets : \A c \in ClaimsOf[cs] :
    /\ emitted[c]["success"] + emitted[c]["failed"] <= emitted[c]["executing"]
    /\ emitted[c]["executing"] <= emitted[c]["queued"]
    /\ emitted[c]["queued"] <= 1

(* A claim has started only if every claim before it has ended, and in a set
   that stops on a failure every one of them with success. *)
InOrder ==
  \A cs \in ClaimSets : \A c, d \in ClaimsOf[cs] :
    Before(c, d) /\ emitted[d]["executing"] > 0 =>
      Ended(c) /\ (StopsOnFailure(cs) => emitted[c]["failed"] = 0)

Executing(c) == emitted[c]["executing"] > 0 /\ ~Ended(c)

(* Two claims of a set never run at the same time. *)
OneAtATime ==
  \A cs \in ClaimSets : \A c, d \in ClaimsOf[cs] :
    Executing(c) /\ Executing(d) => c = d

(* Nothing happens to a claim whose set nobody has been given. *)
OnlyGivenSetsMove ==
  \A cs \in ClaimSets : \A c \in ClaimsOf[cs] :
    emitted[c]["queued"] > 0 => owner[cs] # Nobody

(* A set that was given to an agent is never given to another. *)
OwnerIsFinal ==
  [][\A cs \in ClaimSets : owner[cs] # Nobody => owner'[cs] = owner[cs]]_vars

Promises == TypeOK /\ AtMostOnce /\ InOrder /\ OneAtATime /\ OnlyGivenSetsMove

=============================================================================
