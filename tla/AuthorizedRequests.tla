-------------------------- MODULE AuthorizedRequests --------------------------
(***************************************************************************)
(* The requests one agent's workers have under way to the control plane    *)
(* (clients/base.py, clients/control_plane.py) and the access token they   *)
(* share (clients/token.py, schemas/token.py): a cached token is used      *)
(* until its margin is reached, then one request fetches the next one      *)
(* while the others queue for the lock; a request is retried with headers  *)
(* of its own at each attempt, and given up after MAX_RETRIES of them.     *)
(*                                                                         *)
(* The clock of auth service and control plane is the reference; the       *)
(* agent's is Skew ahead of it. Time goes on while messages are under way, *)
(* for as long as it likes: a token may run out on its way to the agent,   *)
(* or in a copy of a request. Each member of Requests is one call of       *)
(* request(), whoever makes it. handled is a history variable; Revoke is   *)
(* the service voiding every token issued so far.                          *)
(***************************************************************************)
EXTENDS Integers, FiniteSets

CONSTANTS
  Requests,
  MAX_RETRIES,  \* attempts of a request
  ExpiresIn,    \* expires_in of every token
  Margin,       \* how long before its end a token stops being used
  Skew,
  Horizon       \* bound on the time modelled

ASSUME AuthorizedRequestsAssumption ==
  /\ MAX_RETRIES \in Nat \ {0}
  /\ ExpiresIn \in Nat /\ Margin \in Nat /\ Skew \in Int
  /\ Horizon \in Nat

VARIABLES
  now,
  issued,    \* number of tokens issued
  revoked,   \* tokens up to this number have been revoked
  cached,    \* _auth_m2m_token
  at,        \* at[r]: where request r stands
  ahead,     \* ahead[r]: the requests that are to have the token lock before r
  token,     \* token[r]: the answer of the auth service on its way to r
  attempt,   \* attempt[r]: how often r has been sent
  net,       \* copies of requests on their way to the control plane
  handled    \* handled[r]: how often the control plane acted upon r

vars == <<now, issued, revoked, cached, at, ahead, token, attempt, net, handled>>

Tokens == [id : Nat, issued : Nat, created : Int]

NoToken == [id |-> 0, issued |-> 0, created |-> 0]

\* A request needs headers, is queued for the lock, has asked for a token, has
\* one coming, has been sent, has an answer coming, or is over.
Positions ==
  {"headers", "queued", "asking", "issued", "sent", "accepted", "refused",
   "unavailable", "ok", "failed"}

\* A copy of a request; `first' is TRUE of the one that its sender made with a
\* token it had just been given.
Messages ==
  [request : Requests, number : Nat, token : Tokens, since : Nat, first : BOOLEAN]

TypeOK ==
  /\ now \in 0 .. Horizon
  /\ issued \in Nat
  /\ revoked \in 0 .. issued
  /\ cached \in Tokens
  /\ at \in [Requests -> Positions]
  /\ ahead \in [Requests -> SUBSET Requests]
  /\ token \in [Requests -> Tokens]
  /\ attempt \in [Requests -> 0 .. MAX_RETRIES]
  /\ net \subseteq Messages
  /\ handled \in [Requests -> Nat]

Init ==
  /\ now = 0 /\ issued = 0 /\ revoked = 0
  /\ cached = NoToken
  /\ at = [r \in Requests |-> "headers"]
  /\ ahead = [r \in Requests |-> {}]
  /\ token = [r \in Requests |-> NoToken]
  /\ attempt = [r \in Requests |-> 0]
  /\ net = {}
  /\ handled = [r \in Requests |-> 0]

-----------------------------------------------------------------------------
(* Time and the services *)

\* Time waits for no message: the 3 s of the client's timeout hold for each
\* operation of a request, and not at all for a copy nobody waits for.
Tick ==
  /\ now < Horizon
  /\ now' = now + 1
  /\ UNCHANGED <<issued, revoked, cached, at, ahead, token, attempt, net, handled>>

Revoke ==
  /\ revoked < issued
  /\ revoked' = issued
  /\ UNCHANGED <<now, issued, cached, at, ahead, token, attempt, net, handled>>

Issue(r) ==
  /\ at[r] = "asking"
  /\ issued' = issued + 1
  /\ token' = [token EXCEPT ![r] = [id |-> issued + 1, issued |-> now, created |-> now]]
  /\ at' = [at EXCEPT ![r] = "issued"]
  /\ UNCHANGED <<now, revoked, cached, ahead, attempt, net, handled>>

Valid(tok) == revoked < tok.id /\ now < tok.issued + ExpiresIn

\* A copy of a request arrives, whether its sender still waits or not. Without
\* a valid token the answer is 401; with one, any.
Arrives(m) ==
  /\ net' = net \ {m}
  /\ \E answer \in {"accepted", "refused", "unavailable"} :
       /\ Valid(m.token) \/ answer = "refused"
       /\ handled' = IF answer = "accepted"
                     THEN [handled EXCEPT ![m.request] = @ + 1] ELSE handled
       /\ at' = IF at[m.request] = "sent" /\ attempt[m.request] = m.number
                THEN [at EXCEPT ![m.request] = answer] ELSE at
  /\ UNCHANGED <<now, issued, revoked, cached, ahead, token, attempt>>

Lost(m) ==
  /\ net' = net \ {m}
  /\ UNCHANGED <<now, issued, revoked, cached, at, ahead, token, attempt, handled>>

-----------------------------------------------------------------------------
(* get_m2m_token *)

\* datetime.now of the agent.
Clock == now + Skew

\* Faulty form of Fresh: a token is used to its very end.
FreshToTheEnd(tok) == tok.id > 0 /\ Clock < tok.created + ExpiresIn

Fresh(tok) == tok.id > 0 /\ Clock < tok.created + ExpiresIn - Margin

InQueue == {r \in Requests : at[r] \in {"queued", "asking", "issued"}}

\* The lock goes to whoever has waited longest; a waiter that is cancelled is
\* passed over.
Leaves(r) == ahead' = [s \in Requests |-> ahead[s] \ {r}]

Sends(r, tok, first) ==
  /\ at' = [at EXCEPT ![r] = "sent"]
  /\ attempt' = [attempt EXCEPT ![r] = @ + 1]
  /\ net' = net \cup {[request |-> r, number |-> attempt[r] + 1, token |-> tok,
                       since |-> now, first |-> first]}

UsesCachedToken(r) ==
  /\ at[r] = "headers"
  /\ Fresh(cached)
  /\ Sends(r, cached, FALSE)
  /\ UNCHANGED <<now, issued, revoked, cached, ahead, token, handled>>

Queues(r) ==
  /\ at[r] = "headers"
  /\ ~Fresh(cached)
  /\ at' = [at EXCEPT ![r] = "queued"]
  /\ ahead' = [ahead EXCEPT ![r] = InQueue]
  /\ UNCHANGED <<now, issued, revoked, cached, token, attempt, net, handled>>

HasLock(r) == r \in InQueue /\ ahead[r] = {}

FindsFreshToken(r) ==
  /\ at[r] = "queued" /\ HasLock(r)
  /\ Fresh(cached)
  /\ Leaves(r)
  /\ Sends(r, cached, FALSE)
  /\ UNCHANGED <<now, issued, revoked, cached, token, handled>>

\* Faulty form of AsksForToken: the token is not looked at again under the lock.
AsksUnseen(r) ==
  /\ at[r] = "queued" /\ HasLock(r)
  /\ at' = [at EXCEPT ![r] = "asking"]
  /\ UNCHANGED <<now, issued, revoked, cached, ahead, token, attempt, net, handled>>

AsksForToken(r) ==
  /\ at[r] = "queued" /\ HasLock(r)
  /\ ~Fresh(cached)
  /\ at' = [at EXCEPT ![r] = "asking"]
  /\ UNCHANGED <<now, issued, revoked, cached, ahead, token, attempt, net, handled>>

\* created_at is the time of receipt unless the answer brings one of its own.
\* The token is not looked at before it is used.
TokenReceived(r) ==
  /\ at[r] = "issued"
  /\ \E created \in {Clock, token[r].issued} :
       /\ cached' = [token[r] EXCEPT !.created = created]
       /\ Sends(r, cached', TRUE)
  /\ token' = [token EXCEPT ![r] = NoToken]
  /\ Leaves(r)
  /\ UNCHANGED <<now, issued, revoked, handled>>

\* Faulty form of RefreshFails: the lock is not released.
RefreshFailsLocked(r) ==
  /\ at[r] \in {"asking", "issued"}
  /\ at' = [at EXCEPT ![r] = "failed"]
  /\ token' = [token EXCEPT ![r] = NoToken]
  /\ UNCHANGED <<now, issued, revoked, cached, ahead, attempt, net, handled>>

\* AuthServiceError is none of the errors that request() retries.
RefreshFails(r) ==
  /\ at[r] \in {"asking", "issued"}
  /\ at' = [at EXCEPT ![r] = "failed"]
  /\ token' = [token EXCEPT ![r] = NoToken]
  /\ Leaves(r)
  /\ UNCHANGED <<now, issued, revoked, cached, attempt, net, handled>>

-----------------------------------------------------------------------------
(* request *)

Succeeds(r) ==
  /\ at[r] = "accepted"
  /\ at' = [at EXCEPT ![r] = "ok"]
  /\ UNCHANGED <<now, issued, revoked, cached, ahead, token, attempt, net, handled>>

\* A status that is not retried, or a body that is not JSON.
Fails(r) ==
  /\ at[r] \in {"accepted", "refused"}
  /\ at' = [at EXCEPT ![r] = "failed"]
  /\ UNCHANGED <<now, issued, revoked, cached, ahead, token, attempt, net, handled>>

\* The request or its answer got lost or late, or the answer was 5xx.
NoResult(r) == at[r] \in {"sent", "accepted", "refused", "unavailable"}

\* Faulty form of Retries: the attempts are not counted.
RetriesForEver(r) ==
  /\ NoResult(r)
  /\ at' = [at EXCEPT ![r] = "headers"]
  /\ UNCHANGED <<now, issued, revoked, cached, ahead, token, attempt, net, handled>>

\* Faulty form of Retries: the headers of the attempt before are used again.
RetriesWithOldHeaders(r) ==
  /\ NoResult(r)
  /\ attempt[r] < MAX_RETRIES
  /\ \E m \in net : m.request = r /\ Sends(r, m.token, m.first)
  /\ UNCHANGED <<now, issued, revoked, cached, ahead, token, handled>>

Retries(r) ==
  /\ NoResult(r)
  /\ attempt[r] < MAX_RETRIES
  /\ at' = [at EXCEPT ![r] = "headers"]
  /\ UNCHANGED <<now, issued, revoked, cached, ahead, token, attempt, net, handled>>

GivesUp(r) ==
  /\ NoResult(r)
  /\ attempt[r] = MAX_RETRIES
  /\ at' = [at EXCEPT ![r] = "failed"]
  /\ UNCHANGED <<now, issued, revoked, cached, ahead, token, attempt, net, handled>>

Over(r) == at[r] \in {"ok", "failed"}

\* The task that makes the request is cancelled at one of its awaits.
Cancelled(r) ==
  /\ ~Over(r)
  /\ at' = [at EXCEPT ![r] = "failed"]
  /\ token' = [token EXCEPT ![r] = NoToken]
  /\ Leaves(r)
  /\ UNCHANGED <<now, issued, revoked, cached, attempt, net, handled>>

GetsToken(r) ==
  \/ UsesCachedToken(r) \/ Queues(r) \/ FindsFreshToken(r) \/ AsksForToken(r)
  \/ TokenReceived(r) \/ RefreshFails(r)

GetsResult(r) == Succeeds(r) \/ Fails(r) \/ Retries(r) \/ GivesUp(r)

Next ==
  \/ Tick \/ Revoke
  \/ \E r \in Requests : Issue(r) \/ GetsToken(r) \/ GetsResult(r) \/ Cancelled(r)
  \/ \E m \in net : Arrives(m) \/ Lost(m)

Spec == Init /\ [][Next]_vars

(* The event loop runs every request that can go on, and httpx ends every wait
   for an answer, of the auth service or the control plane, by its timeout.
   Nothing is assumed of the services, the network or the clock. *)
FairSpec ==
  /\ Spec
  /\ \A r \in Requests : WF_vars(GetsToken(r)) /\ WF_vars(GetsResult(r))

-----------------------------------------------------------------------------
(* Properties *)

(* Callers of request() get what RequestContract says, whatever happens to the
   token, the lock, the messages and the attempts. *)
Result == [r \in Requests |-> IF Over(r) THEN at[r] ELSE "none"]

Contract == INSTANCE RequestContract WITH
  MaxCopies <- MAX_RETRIES, result <- Result, copies <- attempt

ImplementsContract == Contract!Spec

(* However many requests find the token expired at once, one of them asks for
   the next one at a time, and none does while a usable one is cached: those
   that queued for the lock find what the one before them fetched. *)
RefreshesAreNeeded ==
  \A r \in Requests : at[r] \in {"asking", "issued"} =>
    /\ ~Fresh(cached)
    /\ \A s \in Requests \ {r} : at[s] \notin {"asking", "issued"}

(* The lock is never lost: as long as requests queue for it, one of them has it,
   and only one, whoever was cancelled or failed while waiting or holding it. *)
LockIsHeldByOne ==
  InQueue # {} =>
    \E r \in InQueue : HasLock(r) /\ \A s \in InQueue \ {r} : ~HasLock(s)

\* How much later than its issuer the agent takes a token to end: the way of the
\* token to the agent, or, when the issuer's own date is kept, what the agent's
\* clock is behind.
DatedLate(tok) == tok.created - Skew - tok.issued

(* What the margin of schemas/token.py buys: a copy of a request, of the first
   attempt or a later one, carries a token that has run out only if the ways of
   token and copy, or that of the copy and the lag of the agent's clock, took
   longer than the margin, or if its sender used a token it had just been given
   without looking at it. A revoked token too is no longer sent after that. *)
ExpiredOnlyIfSlow ==
  \A m \in net :
    now >= m.token.issued + ExpiresIn =>
      m.first \/ (now - m.since) + DatedLate(m.token) > Margin

(* Every request ends, whatever the requests before it in the queue for the
   token run into: each gives the lock back, with a token or without. *)
EveryRequestEnds == \A r \in Requests : <>Over(r)

-----------------------------------------------------------------------------
(* Inductive invariant *)

\* The queue for the lock is an order: whoever is there is ahead or behind.
QueueIsOrdered ==
  /\ \A r \in Requests : ahead[r] \subseteq InQueue \ {r}
  /\ \A r, s \in InQueue : r # s => (r \in ahead[s] <=> s \notin ahead[r])
  /\ \A r \in Requests : \A s \in ahead[r] : ahead[s] \subseteq ahead[r]
  /\ \A r \in Requests : at[r] \in {"asking", "issued"} => ahead[r] = {}
  /\ IsFiniteSet(InQueue)

\* The token of a copy was fresh by the clock of the agent when it was looked at.
MessagesAreDated ==
  \A m \in net :
    /\ m.since <= now
    /\ m.first \/ m.since + Margin < m.token.issued + ExpiresIn + DatedLate(m.token)

AttemptsAreLeft ==
  \A r \in Requests :
    at[r] \in {"headers", "queued", "asking", "issued"} => attempt[r] < MAX_RETRIES

Underway(r) == {m \in net : m.request = r}

CopiesAreCounted ==
  \A r \in Requests :
    /\ IsFiniteSet(Underway(r))
    /\ handled[r] + Cardinality(Underway(r)) <= attempt[r]

(* What the properties rest on: the order of the queue, that a token in use was
   fresh, or just received, when the headers were made, and that copies are
   counted. *)
IInv ==
  /\ TypeOK
  /\ QueueIsOrdered
  /\ RefreshesAreNeeded
  /\ MessagesAreDated
  /\ AttemptsAreLeft
  /\ CopiesAreCounted
  /\ \A r \in Requests : at[r] = "accepted" => handled[r] > 0

=============================================================================
