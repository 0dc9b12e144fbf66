--------------------------- MODULE RequestContract ---------------------------
(***************************************************************************)
(* What a request to the control plane promises its caller, without        *)
(* attempts, tokens or timeouts: it is sent a bounded number of times,     *)
(* each copy is handled once at most, a result means that a copy has been  *)
(* handled - and a failure means nothing: copies may have been handled,    *)
(* and may still be handled after the caller has gone on.                  *)
(***************************************************************************)
EXTENDS Naturals

CONSTANTS
  Requests,
  MaxCopies  \* how often one request may be sent

VARIABLES
  result,  \* result[r]: "none" while the caller waits, then "ok" or "failed"
  copies,  \* copies[r]: how often r has been sent
  handled  \* handled[r]: how many copies the control plane has acted upon

vars == <<result, copies, handled>>

Init ==
  /\ result = [r \in Requests |-> "none"]
  /\ copies = [r \in Requests |-> 0]
  /\ handled = [r \in Requests |-> 0]

Send(r) ==
  /\ result[r] = "none"
  /\ copies[r] < MaxCopies
  /\ copies' = [copies EXCEPT ![r] = @ + 1]
  /\ UNCHANGED <<result, handled>>

Handle(r) ==
  /\ handled[r] < copies[r]
  /\ handled' = [handled EXCEPT ![r] = @ + 1]
  /\ UNCHANGED <<result, copies>>

Succeed(r) ==
  /\ result[r] = "none"
  /\ handled[r] > 0
  /\ result' = [result EXCEPT ![r] = "ok"]
  /\ UNCHANGED <<copies, handled>>

Fail(r) ==
  /\ result[r] = "none"
  /\ result' = [result EXCEPT ![r] = "failed"]
  /\ UNCHANGED <<copies, handled>>

Next == \E r \in Requests : Send(r) \/ Handle(r) \/ Succeed(r) \/ Fail(r)

Spec == Init /\ [][Next]_vars

-----------------------------------------------------------------------------
(* Properties *)

TypeOK ==
  /\ result \in [Requests -> {"none", "ok", "failed"}]
  /\ copies \in [Requests -> 0 .. MaxCopies]
  /\ handled \in [Requests -> Nat]

(* A request is never handled more often than it was sent, so MaxCopies times at
   most. *)
HandledAtMostSent == \A r \in Requests : handled[r] <= copies[r]

(* A caller is told of success only when its request has been handled. *)
OkMeansHandled == \A r \in Requests : result[r] = "ok" => handled[r] > 0

(* A result is final, and no further copy is sent once the caller has it. *)
ResultIsFinal ==
  [][\A r \in Requests : result[r] # "none" =>
       result'[r] = result[r] /\ copies'[r] = copies[r]]_vars

Promises == TypeOK /\ HandledAtMostSent /\ OkMeansHandled

=============================================================================
