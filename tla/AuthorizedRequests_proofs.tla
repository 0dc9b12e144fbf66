---------------------- MODULE AuthorizedRequests_proofs ----------------------
(***************************************************************************)
(* AuthorizedRequests for any requests, any number of attempts, any margin *)
(* and messages that take any time: IInv is inductive, the safety properties      *)
(* follow, and every step is a step of RequestContract.                    *)
(***************************************************************************)
EXTENDS AuthorizedRequests, FiniteOrders, TLAPS

USE AuthorizedRequestsAssumption

-----------------------------------------------------------------------------
(* Initial states *)

LEMMA InitIInv == Init => IInv
<1> SUFFICES ASSUME Init PROVE IInv
  OBVIOUS
<1>1. TypeOK
  BY DEF Init, TypeOK, Tokens, NoToken, Positions
<1>2. QueueIsOrdered
  <2>1. InQueue = {}
    BY DEF Init, InQueue
  <2> QED
    BY <2>1, FS_EmptySet DEF Init, QueueIsOrdered
<1>3. CopiesAreCounted
  <2>1. \A r \in Requests : Underway(r) = {}
    BY DEF Init, Underway
  <2> QED
    BY <2>1, FS_EmptySet DEF Init, CopiesAreCounted
<1> QED
  BY <1>1, <1>2, <1>3 DEF Init, IInv, RefreshesAreNeeded, NoToken,
     MessagesAreDated, AttemptsAreLeft

-----------------------------------------------------------------------------
(* The queue for the token lock *)

(* Whoever leaves the queue leaves it ordered; those who stay keep their places. *)
LEMMA LeavingKeepsOrder ==
  ASSUME TypeOK, QueueIsOrdered, NEW r \in Requests, Leaves(r),
         NEW p \in Positions \ {"queued", "asking", "issued"},
         at' = [at EXCEPT ![r] = p]
  PROVE  QueueIsOrdered'
<1>1. \A s \in Requests : ahead'[s] = ahead[s] \ {r}
  BY DEF Leaves
<1>2. InQueue' = InQueue \ {r}
  BY DEF InQueue, TypeOK
<1>3. \A s \in Requests : s # r => at'[s] = at[s]
  BY DEF TypeOK
<1>4. at'[r] = p
  BY DEF TypeOK
<1>5. \A s \in Requests : ahead'[s] \subseteq InQueue' \ {s}
  BY <1>1, <1>2 DEF QueueIsOrdered
<1>6. \A s, t \in InQueue' : s # t => (s \in ahead'[t] <=> t \notin ahead'[s])
  <2> SUFFICES ASSUME NEW s \in InQueue', NEW t \in InQueue', s # t
               PROVE  s \in ahead'[t] <=> t \notin ahead'[s]
    OBVIOUS
  <2>1. s \in InQueue /\ t \in InQueue /\ s # r /\ t # r
    BY <1>2
  <2>2. s \in Requests /\ t \in Requests
    BY <2>1 DEF InQueue
  <2>3. s \in ahead[t] <=> t \notin ahead[s]
    BY <2>1 DEF QueueIsOrdered
  <2> QED
    BY <1>1, <2>1, <2>2, <2>3
<1>7. \A s \in Requests : at'[s] \in {"asking", "issued"} => ahead'[s] = {}
  BY <1>1, <1>3, <1>4 DEF QueueIsOrdered
<1>8. \A s \in Requests : \A t \in ahead'[s] : ahead'[t] \subseteq ahead'[s]
  <2> SUFFICES ASSUME NEW s \in Requests, NEW t \in ahead'[s]
               PROVE  ahead'[t] \subseteq ahead'[s]
    OBVIOUS
  <2>1. t \in ahead[s] /\ t \in Requests
    BY <1>1 DEF QueueIsOrdered, InQueue
  <2>2. ahead[t] \subseteq ahead[s]
    BY <2>1 DEF QueueIsOrdered
  <2> QED
    BY <1>1, <2>1, <2>2
<1>9. IsFiniteSet(InQueue')
  BY <1>2, FS_RemoveElement DEF QueueIsOrdered
<1> QED
  BY <1>5, <1>6, <1>7, <1>8, <1>9 DEF QueueIsOrdered

(* A step that leaves the members of the queue and their askers alone. *)
LEMMA QueueUntouched ==
  ASSUME TypeOK, QueueIsOrdered, NEW r \in Requests, r \notin InQueue,
         UNCHANGED ahead,
         NEW p \in Positions \ {"queued", "asking", "issued"},
         at' = [at EXCEPT ![r] = p]
  PROVE  QueueIsOrdered'
<1>1. InQueue' = InQueue
  BY DEF InQueue, TypeOK
<1>2. \A s \in Requests : at'[s] = at[s] \/ s = r
  BY DEF TypeOK
<1>3. at'[r] = p
  BY DEF TypeOK
<1> QED
  BY <1>1, <1>2, <1>3 DEF QueueIsOrdered

(* Two requests that both have the lock are one. *)
LEMMA OneHasTheLock ==
  ASSUME QueueIsOrdered, NEW r \in Requests, NEW s \in Requests,
         HasLock(r), HasLock(s)
  PROVE  r = s
  BY DEF QueueIsOrdered, HasLock

LEMMA AskersHaveTheLock ==
  ASSUME QueueIsOrdered, NEW r \in Requests, at[r] \in {"asking", "issued"}
  PROVE  HasLock(r)
  BY DEF QueueIsOrdered, HasLock, InQueue

(* Leaving the queue, and not caching a token, leaves at most the refresh that
   was under way, and it was needed. *)
LEMMA NeededStays ==
  ASSUME TypeOK, RefreshesAreNeeded, NEW r \in Requests,
         NEW p \in Positions \ {"asking", "issued"},
         at' = [at EXCEPT ![r] = p], UNCHANGED <<now, cached>>
  PROVE  RefreshesAreNeeded'
<1>1. \A s \in Requests : s # r => at'[s] = at[s]
  BY DEF TypeOK
<1>2. at'[r] = p
  BY DEF TypeOK
<1>3. \A s \in Requests : at'[s] \in {"asking", "issued"} => s # r /\ at[s] \in {"asking", "issued"}
  BY <1>1, <1>2
<1>4. Fresh(cached)' <=> Fresh(cached)
  BY DEF Fresh, Clock
<1> QED
  BY <1>3, <1>4 DEF RefreshesAreNeeded

-----------------------------------------------------------------------------
(* Tokens and messages *)

(* A fresh token has more than the margin left, but for its misdating. *)
LEMMA FreshHasMargin ==
  ASSUME TypeOK, Fresh(cached)
  PROVE  now + Margin < cached.issued + ExpiresIn + DatedLate(cached)
  BY DEF TypeOK, Tokens, Fresh, Clock, DatedLate

(* Sending keeps the types and the dates of the copies. *)
LEMMA SendingIsDated ==
  ASSUME TypeOK, MessagesAreDated, NEW r \in Requests, NEW tok \in Tokens,
         attempt[r] < MAX_RETRIES, NEW first \in BOOLEAN,
         first \/ now + Margin < tok.issued + ExpiresIn + DatedLate(tok),
         Sends(r, tok, first), now' = now
  PROVE  /\ MessagesAreDated'
         /\ net' \subseteq Messages
         /\ at' \in [Requests -> Positions]
         /\ attempt' \in [Requests -> 0 .. MAX_RETRIES]
<1> DEFINE m == [request |-> r, number |-> attempt[r] + 1, token |-> tok,
                 since |-> now, first |-> first]
<1>1. net' = net \cup {m}
  BY DEF Sends
<1>2. attempt[r] \in 0 .. MAX_RETRIES /\ now \in Nat
  BY DEF TypeOK
<1>3. m \in Messages
  BY <1>2 DEF Messages
<1>4. /\ m.since <= now
      /\ m.first \/ m.since + Margin < m.token.issued + ExpiresIn + DatedLate(m.token)
  BY <1>2
<1> HIDE DEF m
<1>5. MessagesAreDated'
  BY <1>1, <1>4 DEF MessagesAreDated, DatedLate
<1>6. at' \in [Requests -> Positions]
  BY DEF Sends, TypeOK, Positions
<1>7. attempt' \in [Requests -> 0 .. MAX_RETRIES]
  BY <1>2 DEF Sends, TypeOK
<1> QED
  BY <1>1, <1>3, <1>5, <1>6, <1>7 DEF TypeOK

(* Every copy is counted when it is sent ... *)
LEMMA SendingCounts ==
  ASSUME TypeOK, CopiesAreCounted, NEW r \in Requests, NEW tok \in Tokens,
         NEW first, Sends(r, tok, first), handled' = handled
  PROVE  CopiesAreCounted'
<1> DEFINE m == [request |-> r, number |-> attempt[r] + 1, token |-> tok,
                 since |-> now, first |-> first]
<1> SUFFICES ASSUME NEW s \in Requests
             PROVE  /\ IsFiniteSet(Underway(s)')
                    /\ handled'[s] + Cardinality(Underway(s)') <= attempt'[s]
  BY DEF CopiesAreCounted
<1>1. net' = net \cup {m}
  BY DEF Sends
<1>2. /\ IsFiniteSet(Underway(s)) /\ handled[s] + Cardinality(Underway(s)) <= attempt[s]
      /\ handled[s] \in Nat /\ attempt[s] \in Nat
      /\ Cardinality(Underway(s)) \in Nat
  BY FS_CardinalityType DEF CopiesAreCounted, TypeOK
<1>3. CASE s = r
  <2>1. Underway(s)' = Underway(s) \cup {m}
    BY <1>1, <1>3 DEF Underway
  <2>2. /\ IsFiniteSet(Underway(s) \cup {m})
        /\ \/ Cardinality(Underway(s) \cup {m}) = Cardinality(Underway(s))
           \/ Cardinality(Underway(s) \cup {m}) = Cardinality(Underway(s)) + 1
    BY <1>2, FS_AddElement
  <2>3. attempt'[s] = attempt[s] + 1
    BY <1>3 DEF Sends, TypeOK
  <2> QED
    BY <1>2, <2>1, <2>2, <2>3
<1>4. CASE s # r
  <2>1. Underway(s)' = Underway(s)
    BY <1>1, <1>4 DEF Underway
  <2>2. attempt'[s] = attempt[s]
    BY <1>4 DEF Sends, TypeOK
  <2> QED
    BY <1>2, <2>1, <2>2
<1> QED
  BY <1>3, <1>4

(* ... and handled once at most. *)
LEMMA RemovingCounts ==
  ASSUME TypeOK, CopiesAreCounted, NEW m \in net, net' = net \ {m},
         \/ handled' = handled
         \/ handled' = [handled EXCEPT ![m.request] = @ + 1],
         attempt' = attempt
  PROVE  /\ CopiesAreCounted'
         /\ handled[m.request] < attempt[m.request]
<1>1. m.request \in Requests
  BY DEF TypeOK, Messages
<1>2. \A s \in Requests :
        /\ IsFiniteSet(Underway(s)) /\ handled[s] + Cardinality(Underway(s)) <= attempt[s]
        /\ handled[s] \in Nat /\ attempt[s] \in Nat
        /\ Cardinality(Underway(s)) \in Nat
  BY FS_CardinalityType DEF CopiesAreCounted, TypeOK
<1> DEFINE U == Underway(m.request)
<1>3. m \in U /\ IsFiniteSet(U)
  BY <1>1, <1>2 DEF Underway
<1>4. /\ IsFiniteSet(U \ {m})
      /\ Cardinality(U \ {m}) = Cardinality(U) - 1
  BY <1>3, FS_RemoveElement
<1>5. Cardinality(U \ {m}) \in Nat
  BY <1>4, FS_CardinalityType
<1>6. handled[m.request] < attempt[m.request]
  BY <1>1, <1>2, <1>4, <1>5
<1>7. Underway(m.request)' = U \ {m}
  BY DEF Underway
<1>8. \A s \in Requests : s # m.request => Underway(s)' = Underway(s) /\ handled'[s] = handled[s]
  BY <1>1 DEF Underway, TypeOK
<1>9. handled'[m.request] <= handled[m.request] + 1 /\ handled'[m.request] \in Nat
  BY <1>1, <1>2 DEF TypeOK
<1>10. ASSUME NEW s \in Requests
       PROVE  /\ IsFiniteSet(Underway(s)')
              /\ handled'[s] + Cardinality(Underway(s)') <= attempt'[s]
  <2>1. CASE s = m.request
    <3>1. Underway(s)' = U \ {m} /\ U = Underway(s)
      BY <1>7, <2>1
    <3>2. handled'[s] <= handled[s] + 1 /\ handled'[s] \in Nat
      BY <1>9, <2>1
    <3>3. handled[s] + Cardinality(U) <= attempt[s] /\ Cardinality(U) \in Nat
      BY <1>2, <3>1
    <3>4. handled'[s] + Cardinality(U \ {m}) <= attempt[s]
      BY <1>2, <1>4, <1>5, <3>2, <3>3
    <3> QED
      BY <1>4, <3>1, <3>4
  <2>2. CASE s # m.request
    BY <1>2, <1>8, <2>2
  <2> QED
    BY <2>1, <2>2
<1> QED
  BY <1>6, <1>10 DEF CopiesAreCounted

LEMMA CountsUntouched ==
  ASSUME CopiesAreCounted, UNCHANGED <<net, handled, attempt>>
  PROVE  CopiesAreCounted'
  BY DEF CopiesAreCounted, Underway

LEMMA CachedIsAToken == TypeOK => cached \in Tokens
  BY DEF TypeOK

(* A request under way that has no token out. *)
LEMMA PositionOf ==
  ASSUME TypeOK, NEW r \in Requests, NEW p \in Positions, at' = [at EXCEPT ![r] = p]
  PROVE  /\ at' \in [Requests -> Positions]
         /\ at'[r] = p
         /\ \A s \in Requests : s # r => at'[s] = at[s]
  BY DEF TypeOK

-----------------------------------------------------------------------------
(* One lemma per action *)

LEMMA TickKeepsIInv == IInv /\ Tick => IInv'
<1> SUFFICES ASSUME IInv, Tick PROVE IInv'
  OBVIOUS
<1> USE DEF IInv
<1>1. now \in Nat /\ now' = now + 1 /\ now' \in 0 .. Horizon
  BY DEF TypeOK, Tick
<1>2. TypeOK'
  BY <1>1 DEF Tick, TypeOK
<1>3. QueueIsOrdered'
  BY DEF Tick, QueueIsOrdered, InQueue
<1>4. ~Fresh(cached) => ~Fresh(cached)'
  <2>1. cached \in Tokens /\ cached' = cached
    BY DEF TypeOK, Tick
  <2> QED
    BY <1>1, <2>1 DEF Fresh, Clock, Tokens
<1>5. RefreshesAreNeeded'
  BY <1>4 DEF RefreshesAreNeeded, Tick
<1>8. MessagesAreDated'
  <2>1. \A m \in net : m.since \in Nat
    BY DEF TypeOK, Messages
  <2> QED
    BY <1>1, <2>1 DEF MessagesAreDated, Tick
<1>9. AttemptsAreLeft'
  BY DEF AttemptsAreLeft, Tick
<1>10. CopiesAreCounted'
  BY CountsUntouched DEF Tick
<1> QED
  BY <1>2, <1>3, <1>5, <1>8, <1>9, <1>10 DEF Tick

LEMMA RevokeKeepsIInv == IInv /\ Revoke => IInv'
<1> SUFFICES ASSUME IInv, Revoke PROVE IInv'
  OBVIOUS
<1>1. TypeOK'
  BY DEF IInv, TypeOK, Revoke
<1> QED
  BY <1>1 DEF IInv, Revoke, QueueIsOrdered, InQueue, RefreshesAreNeeded, Fresh, Clock,
     MessagesAreDated, AttemptsAreLeft,
     CopiesAreCounted, Underway

LEMMA IssueKeepsIInv ==
  ASSUME IInv, NEW r \in Requests, Issue(r)
  PROVE  IInv'
<1> USE DEF IInv
<1>1. /\ at' \in [Requests -> Positions]
      /\ at'[r] = "issued"
      /\ \A s \in Requests : s # r => at'[s] = at[s]
  BY DEF Issue, TypeOK, Positions
<1>2. /\ now \in Nat /\ issued \in Nat /\ now' = now
  BY DEF TypeOK, Issue
<1>3. /\ token' \in [Requests -> Tokens]
      /\ token'[r].issued = now
      /\ \A s \in Requests : s # r => token'[s] = token[s]
  BY <1>2 DEF TypeOK, Issue, Tokens
<1>4. TypeOK'
  BY <1>1, <1>2, <1>3 DEF TypeOK, Issue
<1>5. InQueue' = InQueue
  BY <1>1 DEF InQueue, Issue
<1>6. QueueIsOrdered'
  BY <1>1, <1>5 DEF QueueIsOrdered, Issue
<1>7. RefreshesAreNeeded'
  BY <1>1 DEF RefreshesAreNeeded, Issue, Fresh, Clock
<1>9. AttemptsAreLeft'
  BY <1>1 DEF AttemptsAreLeft, Issue
<1> QED
  BY <1>1, <1>4, <1>6, <1>7, <1>9, CountsUntouched DEF Issue, MessagesAreDated

LEMMA ArrivesKeepsIInv ==
  ASSUME IInv, NEW m \in net, Arrives(m)
  PROVE  IInv'
<1> USE DEF IInv
<1>1. m \in Messages /\ m.request \in Requests
  BY DEF TypeOK, Messages
<1>2. PICK answer \in {"accepted", "refused", "unavailable"} :
        /\ handled' = IF answer = "accepted"
                      THEN [handled EXCEPT ![m.request] = @ + 1] ELSE handled
        /\ at' = IF at[m.request] = "sent" /\ attempt[m.request] = m.number
                 THEN [at EXCEPT ![m.request] = answer] ELSE at
  BY DEF Arrives
<1>3. /\ at' \in [Requests -> Positions]
      /\ \A s \in Requests :
           at'[s] = at[s] \/ (s = m.request /\ at[s] = "sent" /\ at'[s] = answer)
  BY <1>1, <1>2 DEF TypeOK, Positions
<1>4. /\ handled' \in [Requests -> Nat]
      /\ \A s \in Requests : handled'[s] >= handled[s]
      /\ answer = "accepted" => handled'[m.request] > 0
  BY <1>1, <1>2 DEF TypeOK
<1>5. net' \subseteq net
  BY DEF Arrives
<1>6. TypeOK'
  BY <1>3, <1>4, <1>5 DEF TypeOK, Arrives
<1>7. InQueue' = InQueue
  BY <1>3 DEF InQueue
<1>8. QueueIsOrdered'
  BY <1>3, <1>7 DEF QueueIsOrdered, Arrives
<1>9. RefreshesAreNeeded'
  BY <1>3 DEF RefreshesAreNeeded, Arrives, Fresh, Clock
<1>10. AttemptsAreLeft'
  BY <1>3 DEF AttemptsAreLeft, Arrives
<1>11. MessagesAreDated'
  BY <1>5 DEF MessagesAreDated, Arrives
<1>12. \A s \in Requests : at'[s] = "accepted" => handled'[s] > 0
  <2>1. \A s \in Requests : handled[s] \in Nat /\ handled'[s] \in Nat
    BY <1>4 DEF TypeOK
  <2> QED
    BY <1>3, <1>4, <2>1
<1>13. CopiesAreCounted'
  BY <1>2, RemovingCounts DEF Arrives
<1> QED
  BY <1>6, <1>8, <1>9, <1>10, <1>11, <1>12, <1>13 DEF Arrives

LEMMA LostKeepsIInv ==
  ASSUME IInv, NEW m \in net, Lost(m)
  PROVE  IInv'
<1>1. TypeOK'
  BY DEF IInv, TypeOK, Lost
<1>2. CopiesAreCounted'
  BY RemovingCounts DEF IInv, Lost
<1> QED
  BY <1>1, <1>2 DEF IInv, Lost, QueueIsOrdered, InQueue, RefreshesAreNeeded, Fresh, Clock,
     MessagesAreDated, AttemptsAreLeft

(* Sending with the token that is cached, from outside the queue or as its head. *)
LEMMA SendsCachedKeepsIInv ==
  ASSUME IInv, NEW r \in Requests, at[r] \in {"headers", "queued"}, Fresh(cached),
         Sends(r, cached, FALSE), Leaves(r) \/ (r \notin InQueue /\ UNCHANGED ahead),
         UNCHANGED <<now, issued, revoked, cached, token, handled>>
  PROVE  IInv'
<1> USE DEF IInv
<1>1. attempt[r] < MAX_RETRIES
  BY DEF AttemptsAreLeft
<1>2. /\ MessagesAreDated'
      /\ net' \subseteq Messages
      /\ at' \in [Requests -> Positions]
      /\ attempt' \in [Requests -> 0 .. MAX_RETRIES]
  BY <1>1, FreshHasMargin, SendingIsDated, CachedIsAToken
<1>3. at' = [at EXCEPT ![r] = "sent"] /\ "sent" \in Positions \ {"queued", "asking", "issued"}
  BY DEF Sends, Positions
<1>4. ahead' \in [Requests -> SUBSET Requests]
  BY DEF TypeOK, Leaves
<1>5. TypeOK'
  BY <1>2, <1>4 DEF TypeOK
<1>6. QueueIsOrdered'
  BY <1>3, LeavingKeepsOrder, QueueUntouched
<1>7. RefreshesAreNeeded'
  BY <1>3, NeededStays
<1>8. /\ at'[r] = "sent"
      /\ \A s \in Requests : s # r => at'[s] = at[s] /\ attempt'[s] = attempt[s]
  BY DEF TypeOK, Sends
<1>9. CopiesAreCounted'
  BY CachedIsAToken, SendingCounts
<1> QED
  BY <1>2, <1>5, <1>6, <1>7, <1>8, <1>9 DEF AttemptsAreLeft

LEMMA QueuesKeepsIInv ==
  ASSUME IInv, NEW r \in Requests, Queues(r)
  PROVE  IInv'
<1> USE DEF IInv
<1>1. /\ at' \in [Requests -> Positions]
      /\ at'[r] = "queued"
      /\ \A s \in Requests : s # r => at'[s] = at[s]
  BY DEF Queues, TypeOK, Positions
<1>2. /\ ahead' \in [Requests -> SUBSET Requests]
      /\ ahead'[r] = InQueue
      /\ \A s \in Requests : s # r => ahead'[s] = ahead[s]
  BY DEF Queues, TypeOK, InQueue
<1>3. r \notin InQueue /\ InQueue' = InQueue \cup {r}
  BY <1>1 DEF InQueue, Queues
<1>4. TypeOK'
  BY <1>1, <1>2 DEF TypeOK, Queues
<1>5. \A s \in Requests : ahead'[s] \subseteq InQueue' \ {s}
  BY <1>2, <1>3 DEF QueueIsOrdered
<1>6. \A s, t \in InQueue' : s # t => (s \in ahead'[t] <=> t \notin ahead'[s])
  <2> SUFFICES ASSUME NEW s \in InQueue', NEW t \in InQueue', s # t
               PROVE  s \in ahead'[t] <=> t \notin ahead'[s]
    OBVIOUS
  <2>1. s \in Requests /\ t \in Requests
    BY DEF InQueue
  <2>2. \A u \in Requests : r \notin ahead[u]
    BY <1>3 DEF QueueIsOrdered
  <2>3. CASE s = r
    BY <1>2, <1>3, <2>1, <2>2, <2>3
  <2>4. CASE t = r
    BY <1>2, <1>3, <2>1, <2>2, <2>4
  <2>5. CASE s # r /\ t # r
    BY <1>2, <1>3, <2>1, <2>5 DEF QueueIsOrdered
  <2> QED
    BY <2>3, <2>4, <2>5
<1>7. \A s \in Requests : at'[s] \in {"asking", "issued"} => ahead'[s] = {}
  BY <1>1, <1>2 DEF QueueIsOrdered
<1>8. QueueIsOrdered'
  <2>1. \A s \in Requests : \A t \in ahead'[s] : ahead'[t] \subseteq ahead'[s]
    <3> SUFFICES ASSUME NEW s \in Requests, NEW t \in ahead'[s]
                 PROVE  ahead'[t] \subseteq ahead'[s]
      OBVIOUS
    <3>1. t \in InQueue /\ t \in Requests /\ t # r
      BY <1>2, <1>3 DEF QueueIsOrdered, InQueue
    <3>2. ahead'[t] = ahead[t] /\ ahead[t] \subseteq InQueue
      BY <1>2, <3>1 DEF QueueIsOrdered
    <3> QED
      BY <1>2, <3>1, <3>2 DEF QueueIsOrdered
  <2>2. IsFiniteSet(InQueue')
    BY <1>3, FS_AddElement DEF QueueIsOrdered
  <2> QED
    BY <1>5, <1>6, <1>7, <2>1, <2>2 DEF QueueIsOrdered
<1>9. RefreshesAreNeeded'
  BY <1>1 DEF RefreshesAreNeeded, Queues, Fresh, Clock
<1>10. AttemptsAreLeft'
  BY <1>1 DEF AttemptsAreLeft, Queues
<1> QED
  BY <1>1, <1>4, <1>8, <1>9, <1>10, CountsUntouched DEF Queues, MessagesAreDated

LEMMA AsksForTokenKeepsIInv ==
  ASSUME IInv, NEW r \in Requests, AsksForToken(r)
  PROVE  IInv'
<1> USE DEF IInv
<1>1. /\ at' \in [Requests -> Positions]
      /\ at'[r] = "asking"
      /\ \A s \in Requests : s # r => at'[s] = at[s]
  BY DEF AsksForToken, TypeOK, Positions
<1>2. TypeOK'
  BY <1>1 DEF TypeOK, AsksForToken
<1>3. InQueue' = InQueue
  BY <1>1 DEF InQueue, AsksForToken
<1>4. QueueIsOrdered'
  BY <1>1, <1>3 DEF QueueIsOrdered, AsksForToken, HasLock
<1>5. \A s \in Requests : at[s] \in {"asking", "issued"} => s = r
  BY AskersHaveTheLock, OneHasTheLock DEF AsksForToken
<1>6. RefreshesAreNeeded'
  BY <1>1, <1>5 DEF RefreshesAreNeeded, AsksForToken, Fresh, Clock
<1>7. AttemptsAreLeft'
  BY <1>1 DEF AttemptsAreLeft, AsksForToken
<1> QED
  BY <1>1, <1>2, <1>4, <1>6, <1>7, CountsUntouched DEF AsksForToken, MessagesAreDated

LEMMA TokenReceivedKeepsIInv ==
  ASSUME IInv, NEW r \in Requests, TokenReceived(r)
  PROVE  IInv'
<1> USE DEF IInv
<1>1. PICK created \in {Clock, token[r].issued} :
        /\ cached' = [token[r] EXCEPT !.created = created]
        /\ Sends(r, cached', TRUE)
  BY DEF TokenReceived
<1>2. /\ token[r] \in Tokens /\ now \in Nat /\ now' = now
      /\ attempt[r] < MAX_RETRIES
      /\ at[r] = "issued"
  BY DEF TokenReceived, TypeOK, AttemptsAreLeft
<1>3. /\ cached' \in Tokens
      /\ cached'.issued = token[r].issued
      /\ cached'.created = created
  BY <1>1, <1>2 DEF Tokens, Clock
<1>5. /\ MessagesAreDated'
      /\ net' \subseteq Messages
      /\ at' \in [Requests -> Positions]
      /\ attempt' \in [Requests -> 0 .. MAX_RETRIES]
  BY <1>1, <1>2, <1>3, SendingIsDated
<1>6. token' \in [Requests -> Tokens]
  BY DEF TokenReceived, TypeOK, NoToken, Tokens
<1>7. ahead' \in [Requests -> SUBSET Requests]
  BY DEF TokenReceived, TypeOK, Leaves
<1>8. TypeOK'
  BY <1>3, <1>5, <1>6, <1>7 DEF TypeOK, TokenReceived
<1>9. at' = [at EXCEPT ![r] = "sent"] /\ "sent" \in Positions \ {"queued", "asking", "issued"}
  BY <1>1 DEF Sends, Positions
<1>10. QueueIsOrdered'
  BY <1>9, LeavingKeepsOrder DEF TokenReceived
<1>12. /\ at'[r] = "sent"
       /\ \A s \in Requests : s # r =>
            at'[s] = at[s] /\ attempt'[s] = attempt[s] /\ token'[s] = token[s]
  BY <1>1 DEF TypeOK, Sends, TokenReceived
<1>13. \A s \in Requests : at'[s] \notin {"asking", "issued"}
  BY <1>2, <1>12 DEF RefreshesAreNeeded
<1>14. CopiesAreCounted'
  BY <1>1, <1>3, SendingCounts DEF TokenReceived
<1> QED
  BY <1>2, <1>5, <1>8, <1>10, <1>12, <1>13, <1>14
  DEF RefreshesAreNeeded, AttemptsAreLeft, TokenReceived

(* A request whose result is known, or that is cancelled, wherever it stood. *)
LEMMA EndsKeepsIInv ==
  ASSUME IInv, NEW r \in Requests, NEW p \in {"ok", "failed"},
         at' = [at EXCEPT ![r] = p],
         \/ token' = [token EXCEPT ![r] = NoToken] /\ Leaves(r)
         \/ r \notin InQueue /\ UNCHANGED <<ahead, token>>,
         UNCHANGED <<now, issued, revoked, cached, attempt, net, handled>>
  PROVE  IInv'
<1> USE DEF IInv
<1>1. p \in Positions \ {"queued", "asking", "issued"}
  BY DEF Positions
<1>2. /\ at' \in [Requests -> Positions]
      /\ at'[r] = p
      /\ \A s \in Requests : s # r => at'[s] = at[s]
  BY <1>1, PositionOf
<1>3. /\ token' \in [Requests -> Tokens]
      /\ \A s \in Requests : s # r => token'[s] = token[s]
  BY DEF TypeOK, NoToken, Tokens
<1>4. ahead' \in [Requests -> SUBSET Requests]
  BY DEF TypeOK, Leaves
<1>5. TypeOK'
  BY <1>2, <1>3, <1>4 DEF TypeOK
<1>6. QueueIsOrdered'
  BY <1>1, LeavingKeepsOrder, QueueUntouched
<1>7. RefreshesAreNeeded'
  BY <1>1, NeededStays
<1> QED
  BY <1>2, <1>3, <1>5, <1>6, <1>7, CountsUntouched
  DEF AttemptsAreLeft, MessagesAreDated

LEMMA RetriesKeepsIInv ==
  ASSUME IInv, NEW r \in Requests, Retries(r)
  PROVE  IInv'
<1> USE DEF IInv
<1>1. /\ at' = [at EXCEPT ![r] = "headers"]
      /\ "headers" \in Positions \ {"queued", "asking", "issued"}
  BY DEF Retries, Positions
<1>2. /\ at' \in [Requests -> Positions]
      /\ at'[r] = "headers"
      /\ \A s \in Requests : s # r => at'[s] = at[s]
  BY <1>1, PositionOf
<1>3. TypeOK'
  BY <1>2 DEF TypeOK, Retries
<1>4. QueueIsOrdered'
  BY <1>1, QueueUntouched DEF Retries, NoResult, InQueue
<1>5. RefreshesAreNeeded'
  BY <1>1, NeededStays DEF Retries
<1> QED
  BY <1>2, <1>3, <1>4, <1>5, CountsUntouched
  DEF Retries, AttemptsAreLeft, MessagesAreDated

-----------------------------------------------------------------------------
(* Every step *)

LEMMA RequestStepKeepsIInv ==
  ASSUME IInv, NEW r \in Requests,
         GetsToken(r) \/ GetsResult(r) \/ Cancelled(r)
  PROVE  IInv'
<1>1. CASE UsesCachedToken(r)
  BY <1>1, SendsCachedKeepsIInv DEF UsesCachedToken, InQueue
<1>2. CASE Queues(r)
  BY <1>2, QueuesKeepsIInv
<1>3. CASE FindsFreshToken(r)
  BY <1>3, SendsCachedKeepsIInv DEF FindsFreshToken
<1>4. CASE AsksForToken(r)
  BY <1>4, AsksForTokenKeepsIInv
<1>5. CASE TokenReceived(r)
  BY <1>5, TokenReceivedKeepsIInv
<1>6. CASE RefreshFails(r)
  BY <1>6, EndsKeepsIInv DEF RefreshFails
<1>7. CASE Succeeds(r)
  BY <1>7, EndsKeepsIInv DEF Succeeds, InQueue
<1>8. CASE Fails(r)
  BY <1>8, EndsKeepsIInv DEF Fails, InQueue
<1>9. CASE Retries(r)
  BY <1>9, RetriesKeepsIInv
<1>10. CASE GivesUp(r)
  BY <1>10, EndsKeepsIInv DEF GivesUp, NoResult, InQueue
<1>11. CASE Cancelled(r)
  BY <1>11, EndsKeepsIInv DEF Cancelled
<1> QED
  BY <1>1, <1>2, <1>3, <1>4, <1>5, <1>6, <1>7, <1>8, <1>9, <1>10, <1>11
  DEF GetsToken, GetsResult

LEMMA NextIInv == IInv /\ [Next]_vars => IInv'
<1> SUFFICES ASSUME IInv, [Next]_vars PROVE IInv'
  OBVIOUS
<1>1. CASE Tick
  BY <1>1, TickKeepsIInv
<1>2. CASE Revoke
  BY <1>2, RevokeKeepsIInv
<1>3. ASSUME NEW r \in Requests,
             Issue(r) \/ GetsToken(r) \/ GetsResult(r) \/ Cancelled(r)
      PROVE  IInv'
  BY <1>3, IssueKeepsIInv, RequestStepKeepsIInv
<1>4. ASSUME NEW m \in net, Arrives(m) \/ Lost(m) PROVE IInv'
  BY <1>4, ArrivesKeepsIInv, LostKeepsIInv
<1>5. CASE UNCHANGED vars
  BY <1>5 DEF vars, IInv, TypeOK, QueueIsOrdered, InQueue, RefreshesAreNeeded, Fresh, Clock,
     MessagesAreDated, AttemptsAreLeft,
     CopiesAreCounted, Underway
<1> QED
  BY <1>1, <1>2, <1>3, <1>4, <1>5 DEF Next

(* The inductive invariant holds in every reachable state. *)
THEOREM Invariance == Spec => []IInv
<1> QED
  BY InitIInv, NextIInv, PTL DEF Spec

(* One token request at a time, and none that is not needed. *)
THEOREM RefreshesNeeded == Spec => []RefreshesAreNeeded
<1>1. IInv => RefreshesAreNeeded
  BY DEF IInv
<1> QED
  BY <1>1, Invariance, PTL

(* A queue that is not empty has a head, however long it is, and only one. *)
LEMMA QueueHasHead ==
  ASSUME IInv, InQueue # {}
  PROVE  \E r \in InQueue : HasLock(r) /\ \A s \in InQueue \ {r} : ~HasLock(s)
<1>1. \A r \in InQueue : ahead[r] \subseteq InQueue /\ IsFiniteSet(ahead[r])
  <2> SUFFICES ASSUME NEW r \in InQueue PROVE ahead[r] \subseteq InQueue /\ IsFiniteSet(ahead[r])
    OBVIOUS
  <2>1. ahead[r] \in SUBSET InQueue /\ IsFiniteSet(InQueue)
    BY DEF IInv, QueueIsOrdered, InQueue
  <2> QED
    BY <2>1, FS_Subset
<1>2. \A r \in InQueue : \A s \in ahead[r] : s \notin ahead[s] /\ ahead[s] \subseteq ahead[r]
  BY DEF IInv, QueueIsOrdered, InQueue
<1>3. PICK r \in InQueue : ahead[r] = {}
  BY <1>1, <1>2, NestedSetsEnd
<1>4. \A s \in InQueue \ {r} : ~HasLock(s)
  BY <1>3, OneHasTheLock DEF IInv, HasLock, InQueue
<1> QED
  BY <1>3, <1>4 DEF HasLock

(* As long as requests queue for the token lock one of them has it: a request
   that fails, ends or is cancelled never takes the lock with it. *)
THEOREM LockIsNeverLost == Spec => []LockIsHeldByOne
<1>1. IInv => LockIsHeldByOne
  BY QueueHasHead DEF LockIsHeldByOne
<1> QED
  BY <1>1, Invariance, PTL

(* A token runs out in a copy of a request only when messages take longer than
   the margin, clocks included, or when it was not looked at: whatever the
   margin, the skew and the retries are, and without any bound on delays. *)
THEOREM MarginCovers == Spec => []ExpiredOnlyIfSlow
<1>1. IInv => ExpiredOnlyIfSlow
  <2> SUFFICES ASSUME IInv, NEW m \in net, now >= m.token.issued + ExpiresIn, ~m.first
               PROVE  (now - m.since) + DatedLate(m.token) > Margin
    BY DEF ExpiredOnlyIfSlow
  <2>1. /\ now \in Nat /\ m.since \in Nat
        /\ m.token.issued \in Nat /\ m.token.created \in Int
    BY DEF IInv, TypeOK, Messages, Tokens
  <2>2. m.since + Margin < m.token.issued + ExpiresIn + DatedLate(m.token)
    BY DEF IInv, MessagesAreDated
  <2> QED
    BY <2>1, <2>2 DEF DatedLate
<1> QED
  BY <1>1, Invariance, PTL

-----------------------------------------------------------------------------
(* The refinement *)

LEMMA InitRefines == Init => Contract!Init
  BY DEF Init, Contract!Init, Result, Over

(* A step of r that is not its end is none of the caller's business. *)
LEMMA SameResult ==
  ASSUME TypeOK, NEW r \in Requests, NEW p \in Positions \ {"ok", "failed"},
         at' = [at EXCEPT ![r] = p], ~Over(r)
  PROVE  Result' = Result
<1>1. \A s \in Requests : (IF Over(s) THEN at[s] ELSE "none")'
                          = (IF Over(s) THEN at[s] ELSE "none")
  BY DEF TypeOK, Over
<1> QED
  BY <1>1 DEF Result

LEMMA ResultOfEnd ==
  ASSUME TypeOK, NEW r \in Requests, NEW p \in {"ok", "failed"},
         at' = [at EXCEPT ![r] = p], ~Over(r)
  PROVE  Result[r] = "none" /\ Result' = [Result EXCEPT ![r] = p]
<1>1. \A s \in Requests : (IF Over(s) THEN at[s] ELSE "none")'
                          = IF s = r THEN p ELSE (IF Over(s) THEN at[s] ELSE "none")
  BY DEF TypeOK, Over
<1>2. Result[r] = "none"
  BY DEF Result
<1>3. Result' = [Result EXCEPT ![r] = p]
  BY <1>1 DEF Result
<1> QED
  BY <1>2, <1>3

LEMMA SendRefines ==
  ASSUME IInv, NEW r \in Requests, NEW tok, NEW first, Sends(r, tok, first),
         handled' = handled,
         at[r] \in {"headers", "queued", "issued"}
  PROVE  Contract!Send(r)
<1>1. TypeOK /\ attempt[r] < MAX_RETRIES
  BY DEF IInv, AttemptsAreLeft
<1>2. ~Over(r)
  BY DEF Over
<1>3. Result' = Result /\ Result[r] = "none"
  <2>1. at' = [at EXCEPT ![r] = "sent"] /\ "sent" \in Positions \ {"ok", "failed"}
    BY DEF Sends, Positions
  <2> QED
    BY <1>1, <1>2, <2>1, SameResult DEF Result
<1> QED
  BY <1>1, <1>3 DEF Contract!Send, Sends

LEMMA EndRefines ==
  ASSUME IInv, NEW r \in Requests, ~Over(r), at' = [at EXCEPT ![r] = "failed"],
         UNCHANGED <<attempt, handled>>
  PROVE  Contract!Fail(r)
  BY ResultOfEnd DEF IInv, Contract!Fail

LEMMA StutterRefines ==
  ASSUME IInv, NEW r \in Requests, ~Over(r), NEW p \in Positions \ {"ok", "failed"},
         at' = [at EXCEPT ![r] = p], UNCHANGED <<attempt, handled>>
  PROVE  UNCHANGED Contract!vars
  BY SameResult DEF IInv, Contract!vars

LEMMA ArrivesRefines ==
  ASSUME IInv, NEW m \in net, Arrives(m)
  PROVE  [Contract!Next]_Contract!vars
<1>1. m.request \in Requests /\ TypeOK
  BY DEF IInv, TypeOK, Messages
<1>2. PICK answer \in {"accepted", "refused", "unavailable"} :
        /\ handled' = IF answer = "accepted"
                      THEN [handled EXCEPT ![m.request] = @ + 1] ELSE handled
        /\ at' = IF at[m.request] = "sent" /\ attempt[m.request] = m.number
                 THEN [at EXCEPT ![m.request] = answer] ELSE at
  BY DEF Arrives
<1>3. Result' = Result
  <2>1. CASE at' = at
    BY <2>1 DEF Result, Over
  <2>2. CASE at' # at
    <3>1. at[m.request] = "sent" /\ at' = [at EXCEPT ![m.request] = answer]
      BY <1>2, <2>2
    <3>2. ~Over(m.request) /\ answer \in Positions \ {"ok", "failed"}
      BY <3>1 DEF Over, Positions
    <3> QED
      BY <1>1, <3>1, <3>2, SameResult
  <2> QED
    BY <2>1, <2>2
<1>4. attempt' = attempt
  BY DEF Arrives
<1>5. CASE answer = "accepted"
  <2>1. handled[m.request] < attempt[m.request]
    BY <1>1, <1>2, <1>4, RemovingCounts DEF IInv, Arrives
  <2>2. Contract!Handle(m.request)
    BY <1>2, <1>3, <1>4, <1>5, <2>1 DEF Contract!Handle
  <2> QED
    BY <1>1, <2>2 DEF Contract!Next
<1>6. CASE answer # "accepted"
  BY <1>2, <1>3, <1>4, <1>6 DEF Contract!vars
<1> QED
  BY <1>5, <1>6

LEMMA RequestStepRefines ==
  ASSUME IInv, NEW r \in Requests,
         Issue(r) \/ GetsToken(r) \/ GetsResult(r) \/ Cancelled(r)
  PROVE  [Contract!Next]_Contract!vars
<1> USE DEF Positions, Over
<1>1. CASE Issue(r)
  BY <1>1, StutterRefines DEF Issue
<1>2. CASE UsesCachedToken(r)
  BY <1>2, SendRefines DEF UsesCachedToken, Contract!Next
<1>3. CASE Queues(r)
  BY <1>3, StutterRefines DEF Queues
<1>4. CASE FindsFreshToken(r)
  BY <1>4, SendRefines DEF FindsFreshToken, Contract!Next
<1>5. CASE AsksForToken(r)
  BY <1>5, StutterRefines DEF AsksForToken
<1>6. CASE TokenReceived(r)
  <2>1. Sends(r, cached', TRUE) /\ handled' = handled /\ at[r] = "issued"
    BY <1>6 DEF TokenReceived
  <2>2. Contract!Send(r)
    BY <2>1, SendRefines
  <2> QED
    BY <2>2 DEF Contract!Next
<1>7. CASE RefreshFails(r)
  BY <1>7, EndRefines DEF RefreshFails, Contract!Next
<1>8. CASE Succeeds(r)
  <2>1. handled[r] > 0 /\ TypeOK
    BY <1>8 DEF Succeeds, IInv
  <2>2. Contract!Succeed(r)
    BY <1>8, <2>1, ResultOfEnd DEF Succeeds, Contract!Succeed
  <2> QED
    BY <2>2 DEF Contract!Next
<1>9. CASE Fails(r)
  BY <1>9, EndRefines DEF Fails, Contract!Next
<1>10. CASE Retries(r)
  BY <1>10, StutterRefines DEF Retries, NoResult
<1>11. CASE GivesUp(r)
  BY <1>11, EndRefines DEF GivesUp, NoResult, Contract!Next
<1>12. CASE Cancelled(r)
  BY <1>12, EndRefines DEF Cancelled, Contract!Next
<1> QED
  BY <1>1, <1>2, <1>3, <1>4, <1>5, <1>6, <1>7, <1>8, <1>9, <1>10, <1>11, <1>12
  DEF GetsToken, GetsResult

LEMMA NextRefines == IInv /\ [Next]_vars => [Contract!Next]_Contract!vars
<1> SUFFICES ASSUME IInv, [Next]_vars PROVE [Contract!Next]_Contract!vars
  OBVIOUS
<1>1. ASSUME UNCHANGED <<at, attempt, handled>> PROVE UNCHANGED Contract!vars
  BY <1>1 DEF Contract!vars, Result, Over
<1>2. CASE Tick \/ Revoke \/ UNCHANGED vars
  BY <1>1, <1>2 DEF Tick, Revoke, vars
<1>3. ASSUME NEW m \in net, Lost(m) PROVE UNCHANGED Contract!vars
  BY <1>1, <1>3 DEF Lost
<1> QED
  BY <1>2, <1>3, RequestStepRefines, ArrivesRefines DEF Next

(* Requests keep the contract, whatever becomes of tokens, messages and attempts. *)
THEOREM ContractImplemented == Spec => ImplementsContract
<1> QED
  BY InitRefines, Invariance, NextRefines, PTL DEF Spec, ImplementsContract, Contract!Spec

-----------------------------------------------------------------------------
(* What RequestContract promises *)

LEMMA ContractStep ==
  ASSUME Contract!Promises, [Contract!Next]_Contract!vars
  PROVE  /\ Contract!Promises'
         /\ \A r \in Requests : Result[r] # "none" =>
              Result'[r] = Result[r] /\ attempt'[r] = attempt[r]
<1>1. /\ Result \in [Requests -> {"none", "ok", "failed"}]
      /\ attempt \in [Requests -> 0 .. MAX_RETRIES]
      /\ handled \in [Requests -> Nat]
      /\ \A r \in Requests : handled[r] <= attempt[r]
      /\ \A r \in Requests : Result[r] = "ok" => handled[r] > 0
  BY DEF Contract!Promises, Contract!TypeOK, Contract!HandledAtMostSent,
         Contract!OkMeansHandled
<1> USE DEF Contract!Promises, Contract!TypeOK, Contract!HandledAtMostSent,
            Contract!OkMeansHandled
<1>2. ASSUME NEW r \in Requests, Contract!Send(r)
      PROVE  /\ Contract!Promises'
             /\ \A s \in Requests : Result[s] # "none" =>
                  Result'[s] = Result[s] /\ attempt'[s] = attempt[s]
  <2>1. /\ Result[r] = "none" /\ attempt[r] < MAX_RETRIES
        /\ attempt' = [attempt EXCEPT ![r] = @ + 1]
        /\ Result' = Result /\ handled' = handled
    BY <1>2 DEF Contract!Send
  <2>2. attempt' \in [Requests -> 0 .. MAX_RETRIES]
    BY <1>1, <2>1
  <2>3. \A s \in Requests : handled'[s] <= attempt'[s]
    BY <1>1, <2>1
  <2> QED
    BY <1>1, <2>1, <2>2, <2>3
<1>3. ASSUME NEW r \in Requests, Contract!Handle(r)
      PROVE  /\ Contract!Promises'
             /\ \A s \in Requests : Result[s] # "none" =>
                  Result'[s] = Result[s] /\ attempt'[s] = attempt[s]
  <2>1. /\ handled[r] < attempt[r]
        /\ handled' = [handled EXCEPT ![r] = @ + 1]
        /\ Result' = Result /\ attempt' = attempt
    BY <1>3 DEF Contract!Handle
  <2>2. /\ handled' \in [Requests -> Nat]
        /\ \A s \in Requests : handled'[s] <= attempt[s] /\ handled'[s] >= handled[s]
    BY <1>1, <2>1
  <2>3. \A s \in Requests : Result[s] = "ok" => handled'[s] > 0
    BY <1>1, <2>2
  <2> QED
    BY <1>1, <2>1, <2>2, <2>3
<1>4. ASSUME NEW r \in Requests, Contract!Succeed(r) \/ Contract!Fail(r)
      PROVE  /\ Contract!Promises'
             /\ \A s \in Requests : Result[s] # "none" =>
                  Result'[s] = Result[s] /\ attempt'[s] = attempt[s]
  <2>1. PICK p \in {"ok", "failed"} :
          /\ Result[r] = "none"
          /\ p = "ok" => handled[r] > 0
          /\ Result' = [Result EXCEPT ![r] = p]
          /\ attempt' = attempt /\ handled' = handled
    BY <1>4 DEF Contract!Succeed, Contract!Fail
  <2>2. /\ Result' \in [Requests -> {"none", "ok", "failed"}]
        /\ Result'[r] = p
        /\ \A s \in Requests \ {r} : Result'[s] = Result[s]
    BY <1>1, <2>1
  <2> QED
    BY <1>1, <2>1, <2>2
<1>5. CASE UNCHANGED Contract!vars
  BY <1>1, <1>5 DEF Contract!vars
<1> QED
  BY <1>2, <1>3, <1>4, <1>5 DEF Contract!Next

(* RequestContract keeps its promises, whatever implements it. *)
THEOREM ContractKeepsPromises ==
  Contract!Spec => []Contract!Promises /\ Contract!ResultIsFinal
<1>1. Contract!Init => Contract!Promises
  BY DEF Contract!Init, Contract!Promises, Contract!TypeOK, Contract!HandledAtMostSent,
         Contract!OkMeansHandled
<1>2. Contract!Promises /\ [Contract!Next]_Contract!vars => Contract!Promises'
  BY ContractStep
<1>3. Contract!Promises /\ [Contract!Next]_Contract!vars =>
        [\A r \in Requests : Result[r] # "none" =>
           Result'[r] = Result[r] /\ attempt'[r] = attempt[r]]_Contract!vars
  BY ContractStep
<1> QED
  BY <1>1, <1>2, <1>3, PTL DEF Contract!Spec, Contract!ResultIsFinal

(* So do the requests of the agent: one is handled once for each time it was
   sent at most, a success means that it was handled, and a caller that has its
   result is not sent for again. *)
THEOREM RequestsKeepPromises ==
  Spec => []Contract!Promises /\ Contract!ResultIsFinal
<1> QED
  BY ContractImplemented, ContractKeepsPromises, PTL DEF ImplementsContract

=============================================================================
