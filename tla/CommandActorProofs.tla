------------------------- MODULE CommandActorProofs -------------------------
(***************************************************************************)
(* Proofs, for any number of commands and attempts and any size and TTL of *)
(* the cache, that the cache is consistent, never replays an expired       *)
(* answer, and that a command is executed once unless it was dropped.      *)
(***************************************************************************)
EXTENDS CommandActor, FiniteSetTheorems, WellFoundedInduction, SequenceTheorems, TLAPS

\* A non-empty set of numbers has a least element.
LEMMA LeastNat ==
  ASSUME NEW T \in SUBSET Nat, T # {}
  PROVE  \E x \in T : \A y \in T : x <= y
<1> DEFINE R == OpToRel(<, Nat)
<1>1. IsWellFoundedOn(R, Nat)
  BY Zenon, NatLessThanWellFounded
<1>2. PICK x \in T : \A y \in T : <<y, x>> \notin R
  <2> HIDE DEF R
  <2> QED
    BY ZenonT(30), <1>1, WFMin
<1>3. \A y \in T : ~(y < x)
  BY ZenonT(30), <1>2 DEF OpToRel
<1> QED
  BY <1>3

\* prune_expired stops inside the queue, in front of an entry that is fresh.
LEMMA PrunedLenProperties ==
  ASSUME TypeOK
  PROVE  /\ PrunedLen \in 0..Len(order)
         /\ PrunedLen < Len(order) => Ttl # 0 /\ Fresh(PrunedLen + 1)
<1>1. CASE Ttl = 0 \/ \A i \in 1..Len(order) : ~Fresh(i)
  BY <1>1 DEF PrunedLen, TypeOK
<1>2. CASE ~(Ttl = 0 \/ \A i \in 1..Len(order) : ~Fresh(i))
  <2> DEFINE T == {i \in 1..Len(order) : Fresh(i)}
  <2>1. T \in SUBSET Nat /\ T # {}
    <3>1. 1..Len(order) \subseteq Nat
      OBVIOUS
    <3>2. PICK i \in 1..Len(order) : Fresh(i)
      BY Zenon, <1>2
    <3> QED
      BY Zenon, <3>1, <3>2
  <2>2. PICK x \in T : \A y \in T : x <= y
    <3> HIDE DEF T
    <3> QED BY Zenon, <2>1, LeastNat
  <2>3. Len(order) \in Nat
    BY DEF TypeOK
  <2>4. \E k \in 0..(Len(order) - 1) : Fresh(k + 1) /\ \A i \in 1..k : ~Fresh(i)
    <3>1. x - 1 \in 0..(Len(order) - 1) /\ (x - 1) + 1 = x
      BY <2>2, <2>3
    <3>2. \A i \in 1..(x - 1) : ~Fresh(i)
      BY <2>2, <2>3
    <3> QED
      BY Zenon, <2>2, <3>1, <3>2
  <2> DEFINE P(k) == Fresh(k + 1) /\ \A i \in 1..k : ~Fresh(i)
  <2>5. PrunedLen = CHOOSE k \in 0..(Len(order) - 1) : P(k)
    BY Zenon, <1>2 DEF PrunedLen
  <2>6. PrunedLen \in 0..(Len(order) - 1) /\ P(PrunedLen)
    <3>1. \E k \in 0..(Len(order) - 1) : P(k)
      BY Zenon, <2>4
    <3> HIDE DEF P
    <3> QED
      BY Zenon, <2>5, <3>1
  <2> QED
    BY <1>2, <2>3, <2>6
<1> QED
  BY Zenon, <1>1, <1>2
EntryMap == [Requests -> CachedCommandResponse \cup {None}]

\* The two halves of a cache agree, ...
Consistent(o, m) ==
    /\ \A i, j \in 1..Len(o) : o[i] = o[j] => i = j
    /\ \A r \in Requests : m[r] # None <=> \E i \in 1..Len(o) : o[i] = r

\* ... and the order is that of the completion times, none in the future.
InTimeOrder(o, m, time) ==
    /\ \A i, j \in 1..Len(o) : i <= j => m[o[i]].completed_at <= m[o[j]].completed_at
    /\ \A i \in 1..Len(o) : m[o[i]].completed_at <= time

\* What is left of a queue after popping its first k elements.
LEMMA DropProperties ==
  ASSUME NEW o \in Seq(Requests), NEW k \in Nat
  PROVE  LET t == SubSeq(o, k + 1, Len(o)) IN
         /\ t \in Seq(Requests)
         /\ Len(t) = IF k <= Len(o) THEN Len(o) - k ELSE 0
         /\ \A i \in 1..Len(t) : t[i] = o[k + i]
<1>1. \A i \in (k + 1)..Len(o) : o[i] \in Requests
  OBVIOUS
<1>2. k + 1 \in Int /\ Len(o) \in Int
  OBVIOUS
<1> QED
  BY <1>1, <1>2, SubSeqProperties

\* Popping ids and removing them from the map keeps the cache consistent and
\* in order.
LEMMA DropKeeps ==
  ASSUME NEW o \in Seq(Requests), NEW m \in EntryMap, NEW k \in Nat, NEW time \in Nat,
         Consistent(o, m), InTimeOrder(o, m, time)
  PROVE  LET t == SubSeq(o, k + 1, Len(o))
             n == Without(m, Front(o, k))
         IN  Consistent(t, n) /\ InTimeOrder(t, n, time) /\ n \in EntryMap
<1> DEFINE t == SubSeq(o, k + 1, Len(o))
           n == Without(m, Front(o, k))
<1>1. /\ t \in Seq(Requests)
      /\ Len(t) = IF k <= Len(o) THEN Len(o) - k ELSE 0
      /\ \A i \in 1..Len(t) : t[i] = o[k + i] /\ k + i \in 1..Len(o)
  <2>1. /\ t \in Seq(Requests)
        /\ Len(t) = IF k <= Len(o) THEN Len(o) - k ELSE 0
        /\ \A i \in 1..Len(t) : t[i] = o[k + i]
    BY ZenonT(30), DropProperties
  <2> HIDE DEF t
  <2> QED
    BY <2>1
<1> HIDE DEF t
<1>2. \A r \in Requests : n[r] = IF r \in Front(o, k) THEN None ELSE m[r]
  BY Zenon DEF Without
<1>3. ASSUME NEW i \in 1..Len(t), t[i] \in Front(o, k) PROVE FALSE
  <2>1. PICK j \in 1..Len(o) : j <= k /\ o[j] = t[i]
    BY Zenon, <1>3 DEF Front
  <2>2. o[k + i] = o[j] /\ k + i \in 1..Len(o)
    BY Zenon, <1>1, <2>1
  <2>3. k + i = j
    BY Zenon, <2>1, <2>2 DEF Consistent
  <2> QED
    BY <1>1, <2>1, <2>3
<1>4. n \in EntryMap
  BY Zenon DEF Without, EntryMap
<1> HIDE DEF n
<1>5. ASSUME NEW i \in 1..Len(t), NEW j \in 1..Len(t), t[i] = t[j] PROVE i = j
  <2>1. k + i \in 1..Len(o) /\ k + j \in 1..Len(o) /\ o[k + i] = o[k + j]
    BY Zenon, <1>1, <1>5
  <2>2. k + i = k + j
    BY Zenon, <2>1 DEF Consistent
  <2>3. Len(t) \in Nat
    BY <1>1
  <2> QED
    BY <2>2, <2>3
<1>6. ASSUME NEW r \in Requests, n[r] # None PROVE \E i \in 1..Len(t) : t[i] = r
  <2>1. m[r] # None /\ r \notin Front(o, k)
    BY Zenon, <1>2, <1>6
  <2>2. PICK i \in 1..Len(o) : o[i] = r
    BY Zenon, <2>1 DEF Consistent
  <2>3. i > k
    BY <2>1, <2>2 DEF Front
  <2>4. i - k \in 1..Len(t) /\ k + (i - k) = i
    BY <1>1, <2>3
  <2> QED
    BY ZenonT(30), <1>1, <2>2, <2>4
<1>7. ASSUME NEW i \in 1..Len(t) PROVE n[t[i]] # None /\ n[t[i]] = m[o[k + i]]
  <2>1. t[i] \in Requests
    BY <1>1
  <2> QED
    BY <1>1, <1>2, <1>3, <2>1 DEF Consistent
<1>8. Consistent(t, n)
  BY Zenon, <1>5, <1>6, <1>7 DEF Consistent
<1>9. InTimeOrder(t, n, time)
  <2>1. \A i, j \in 1..Len(t) : i <= j => k + i <= k + j
    BY <1>1
  <2>2. ASSUME NEW i \in 1..Len(t), NEW j \in 1..Len(t), i <= j
        PROVE  n[t[i]].completed_at <= n[t[j]].completed_at
    <3>1. k + i \in 1..Len(o) /\ k + j \in 1..Len(o) /\ k + i <= k + j
      BY Zenon, <1>1, <2>1, <2>2
    <3>2. m[o[k + i]].completed_at <= m[o[k + j]].completed_at
      BY Zenon, <3>1 DEF InTimeOrder
    <3> QED
      BY Zenon, <1>7, <3>2
  <2>3. ASSUME NEW i \in 1..Len(t) PROVE n[t[i]].completed_at <= time
    BY Zenon, <1>1, <1>7 DEF InTimeOrder
  <2> QED
    BY Zenon, <2>2, <2>3 DEF InTimeOrder
<1> QED
  BY Zenon, <1>4, <1>8, <1>9 DEF t, n

\* A consistent cache holds as many entries as its queue has ids.
LEMMA SizeIsLength ==
  ASSUME NEW o \in Seq(Requests), NEW m \in EntryMap, Consistent(o, m)
  PROVE  Cardinality({r \in Requests : m[r] # None}) = Len(o)
<1> DEFINE S == {r \in Requests : m[r] # None}
<1>1. o \in Bijection(1..Len(o), S)
  <2>1. o \in [1..Len(o) -> S]
    BY DEF Consistent
  <2>2. \A r \in S : \E i \in 1..Len(o) : o[i] = r
    BY Zenon DEF Consistent
  <2>3. \A i, j \in 1..Len(o) : o[i] = o[j] => i = j
    BY Zenon DEF Consistent
  <2> QED
    BY Zenon, <2>1, <2>2, <2>3 DEF Bijection, Injection, Surjection, IsInjective
<1>2. ExistsBijection(1..Len(o), S)
  BY Zenon, <1>1 DEF ExistsBijection
<1>3. IsFiniteSet(1..Len(o)) /\ Cardinality(1..Len(o)) = Len(o)
  <2>1. 1 \in Int /\ Len(o) \in Int /\ Len(o) >= 0
    OBVIOUS
  <2>2. IsFiniteSet(1..Len(o)) /\ Cardinality(1..Len(o)) = IF 1 > Len(o) THEN 0 ELSE Len(o) - 1 + 1
    BY Zenon, <2>1, FS_Interval
  <2> QED
    BY <2>1, <2>2
<1> QED
  BY Zenon, <1>2, <1>3, FS_Bijection

----------------------------------------------------------------------------
\* What is popped from a queue of request ids is a set of request ids.
LEMMA FrontIsRequests ==
  ASSUME NEW o \in Seq(Requests), NEW k PROVE Front(o, k) \subseteq Requests
BY DEF Front

\* What prune_expired leaves: the entries it did not pop, as they were.
LEMMA PrunedTypes ==
  ASSUME TypeOK
  PROVE  /\ PrunedOrder \in Seq(Requests)
         /\ PrunedEntries \in EntryMap
         /\ Front(order, PrunedLen) \subseteq Requests
         /\ \A r \in Requests :
              PrunedEntries[r] = IF r \in Front(order, PrunedLen) THEN None ELSE entries[r]
<1>1. PrunedLen \in Nat /\ order \in Seq(Requests) /\ entries \in EntryMap
  BY PrunedLenProperties DEF TypeOK, EntryMap
<1>2. PrunedOrder \in Seq(Requests)
  BY Zenon, <1>1, DropProperties DEF PrunedOrder
<1>3. PrunedEntries \in EntryMap
  BY Zenon, <1>1 DEF PrunedEntries, Without, EntryMap
<1>4. Front(order, PrunedLen) \subseteq Requests
  BY Zenon, <1>1, FrontIsRequests
<1> QED
  BY Zenon, <1>2, <1>3, <1>4 DEF PrunedEntries, Without

\* The limit of the cache is a number.
LEMMA LimitIsNat ==
  ASSUME TypeOK PROVE max_entries \in Nat
BY LimitsAssumption DEF TypeOK

\* The number of entries above the limit is a number.
LEMMA ExcessIsNat ==
  ASSUME TypeOK, NEW m PROVE Excess(m) \in Nat
<1> DEFINE S == {r \in Requests : m[r] # None}
<1>1. S \in SUBSET Requests
  OBVIOUS
<1>2. IsFiniteSet(S)
  BY Zenon, <1>1, RequestsAssumption, FS_Subset
<1>3. Cardinality(S) \in Nat
  BY Zenon, <1>2, FS_CardinalityType
<1>4. max_entries \in Nat
  BY Zenon, LimitIsNat
<1> QED
  BY <1>3, <1>4 DEF Excess

\* What Insert leaves, and what it forgets.
LEMMA InsertTypes ==
  ASSUME TypeOK, NEW r \in Requests, NEW response \in CommandResponse, Insert(r, response)
  PROVE  /\ order' \in Seq(Requests)
         /\ entries' \in EntryMap
         /\ forgotten' \subseteq Requests
         /\ forgotten \subseteq forgotten'
         /\ r \in forgotten' \/ (entries'[r] # None /\ entries'[r].response = response)
         /\ \A x \in Requests \ {r} : x \in forgotten' \/ entries'[x] = entries[x]
         /\ \A x \in Requests \ {r} : entries[x] = None => entries'[x] = None
<1>1. CASE max_entries = 0
  BY Zenon, <1>1 DEF Insert, TypeOK, EntryMap
<1>2. CASE max_entries # 0
  <2> DEFINE o == IF PrunedEntries[r] # None THEN PrunedOrder ELSE Append(PrunedOrder, r)
             m == [PrunedEntries EXCEPT ![r] = [response |-> response, completed_at |-> now]]
             k == Excess(m)
  <2>1. /\ order' = SubSeq(o, k + 1, Len(o))
        /\ entries' = Without(m, Front(o, k))
        /\ forgotten' = forgotten \cup Front(order, PrunedLen) \cup Front(o, k)
    BY ZenonT(30), <1>2 DEF Insert
  <2>2. o \in Seq(Requests)
    BY PrunedTypes
  <2>3. [response |-> response, completed_at |-> now] \in CachedCommandResponse
    BY Zenon DEF CachedCommandResponse, TypeOK
  <2>4. /\ m \in EntryMap
        /\ m[r] = [response |-> response, completed_at |-> now]
        /\ \A x \in Requests \ {r} : m[x] = PrunedEntries[x]
    BY Zenon, <2>3, PrunedTypes DEF EntryMap
  <2>5. k \in Nat
    BY Zenon, ExcessIsNat
  <2> HIDE DEF o, m, k
  <2>6. order' \in Seq(Requests)
    BY ZenonT(30), <2>1, <2>2, <2>5, DropProperties
  <2>7. entries' \in EntryMap
    BY Zenon, <2>1, <2>4 DEF Without, EntryMap
  <2>8. forgotten' \subseteq Requests /\ forgotten \subseteq forgotten'
    BY Zenon, <2>1, <2>2, PrunedTypes, FrontIsRequests DEF TypeOK
  <2>9. \A x \in Requests : entries'[x] = IF x \in Front(o, k) THEN None ELSE m[x]
    BY Zenon, <2>1 DEF Without
  <2>10. r \in forgotten' \/ (entries'[r] # None /\ entries'[r].response = response)
    BY <2>1, <2>3, <2>4, <2>9, NoneAssumption
  <2>11. \A x \in Requests \ {r} : x \in forgotten' \/ entries'[x] = entries[x]
    BY Zenon, <2>1, <2>4, <2>9, PrunedTypes
  <2>12. \A x \in Requests \ {r} : entries[x] = None => entries'[x] = None
    BY Zenon, <2>4, <2>9, PrunedTypes
  <2> QED
    BY Zenon, <2>6, <2>7, <2>8, <2>10, <2>11, <2>12
<1> QED
  BY Zenon, <1>1, <1>2

\* The state of the runner, the worker's handlers, the actor and the cache is
\* well typed.
THEOREM TypeCorrect == Spec => []TypeOK
<1>1. Init => TypeOK
  BY DEF Init, TypeOK, CallState
<1>2. TypeOK /\ [Next]_vars => TypeOK'
  <2> SUFFICES ASSUME TypeOK, [Next]_vars PROVE TypeOK'
    OBVIOUS
  <2>1. ASSUME NEW r \in Requests, Send(r) PROVE TypeOK'
    <3>1. calls[r].attempt + 1 \in Nat
      BY DEF TypeOK
    <3>2. [request_id |-> r, attempt |-> calls[r].attempt + 1] \in Post
      BY Zenon, <3>1 DEF Post
    <3>3. calls' \in [Requests -> [state : CallState, attempt : Nat, answer : CommandResponse \cup {None}]]
      BY Zenon, <2>1, <3>1 DEF Send, TypeOK, CallState
    <3> QED
      BY Zenon, <2>1, <3>2, <3>3 DEF Send, TypeOK, actorVars, cacheVars
  <2>2. ASSUME NEW r \in Requests, TransportError(r) PROVE TypeOK'
    BY ZenonT(30), <2>2 DEF TransportError, TypeOK, CallState, actorVars, cacheVars
  <2>3. ASSUME NEW r \in Requests, ReceiveAnswer(r) PROVE TypeOK'
    BY <2>3 DEF ReceiveAnswer, TypeOK, CallState, actorVars, cacheVars
  <2>4. ASSUME NEW p \in posted, Enqueue(p) PROVE TypeOK'
    BY <2>4 DEF Enqueue, TypeOK, actorVars, cacheVars
  <2>5. ASSUME NEW p \in posted, Disconnect(p) PROVE TypeOK'
    BY Zenon, <2>5 DEF Disconnect, TypeOK, actorVars, cacheVars
  <2>6. ASSUME Replay PROVE TypeOK'
    <3>1. Head(queue) \in Post /\ Tail(queue) \in Seq(Post)
      BY <2>6 DEF Replay, TypeOK
    <3>2. Head(queue).request_id \in Requests
      BY Zenon, <3>1 DEF Post
    <3>3. PrunedEntries[Head(queue).request_id].response \in CommandResponse
      BY Zenon, <2>6, <3>2, PrunedTypes DEF Replay, EntryMap, CachedCommandResponse
    <3>4. order' \in Seq(Requests) /\ entries' \in EntryMap /\ forgotten' \subseteq Requests
          /\ max_entries' = max_entries
      BY Zenon, <2>6, PrunedTypes DEF Replay, Get, TypeOK
    <3> QED
      BY <2>6, <3>1, <3>3, <3>4 DEF Replay, TypeOK, EntryMap, actorVars
  <2>7. ASSUME Begin PROVE TypeOK'
    <3>1. Head(queue) \in Post /\ Tail(queue) \in Seq(Post)
      BY <2>7 DEF Begin, TypeOK
    <3>2. Head(queue).request_id \in Requests
      BY Zenon, <3>1 DEF Post
    <3>3. executed' \in [Requests -> Nat]
      BY SMTT(30), <2>7, <3>2 DEF Begin, TypeOK
    <3>4. order' \in Seq(Requests) /\ entries' \in EntryMap /\ forgotten' \subseteq Requests
          /\ max_entries' = max_entries
      BY Zenon, <2>7, PrunedTypes DEF Begin, Get, TypeOK
    <3> QED
      BY Zenon, <2>7, <3>1, <3>3, <3>4 DEF Begin, TypeOK, EntryMap
  <2>8. ASSUME NEW status \in {"ok", "error"}, Finish(status) PROVE TypeOK'
    <3> DEFINE r == running.request_id
               response == [status |-> status, nth |-> executed[r]]
    <3>1. running \in Post /\ r \in Requests
      BY Zenon, <2>8 DEF Finish, TypeOK, Post
    <3>2. response \in CommandResponse
      BY Zenon, <3>1 DEF CommandResponse, TypeOK
    <3>3. Insert(r, response) /\ answers' = answers \cup {[post |-> running, response |-> response]}
      BY Zenon, <2>8 DEF Finish
    <3> HIDE DEF r, response
    <3>4. order' \in Seq(Requests) /\ entries' \in EntryMap /\ forgotten' \subseteq Requests
      BY Zenon, <3>1, <3>2, <3>3, InsertTypes
    <3>5. max_entries' = max_entries
      BY Zenon, <3>3 DEF Insert
    <3> QED
      BY SMTT(30), <2>8, <3>1, <3>2, <3>3, <3>4, <3>5 DEF Finish, TypeOK, EntryMap
  <2>9. CASE Tick
    BY <2>9 DEF Tick, TypeOK, actorVars, cacheVars
  <2>10. CASE UNCHANGED vars
    BY Zenon, <2>10 DEF vars, TypeOK, actorVars, cacheVars
  <2> QED
    BY Zenon, <2>1, <2>2, <2>3, <2>4, <2>5, <2>6, <2>7, <2>8, <2>9, <2>10 DEF Next
<1> QED
  BY <1>1, <1>2, PTL DEF Spec
-----------------------------------------------------------------------------
\* The inductive invariant of the cache: its halves agree, it is in time order
\* and within its size, and what the actor executes is not in it (so that an
\* insert always appends, and never refreshes an entry in mid-queue).
CacheInv ==
    /\ Consistent(order, entries)
    /\ InTimeOrder(order, entries, now)
    /\ Len(order) <= max_entries
    /\ running # None => entries[running.request_id] = None

\* prune_expired keeps the cache consistent and in time order.
LEMMA PrunedKeeps ==
  ASSUME TypeOK, Consistent(order, entries), InTimeOrder(order, entries, now)
  PROVE  /\ Consistent(PrunedOrder, PrunedEntries)
         /\ InTimeOrder(PrunedOrder, PrunedEntries, now)
         /\ Len(PrunedOrder) <= Len(order)
<1>1. PrunedLen \in Nat /\ order \in Seq(Requests) /\ entries \in EntryMap /\ now \in Nat
  BY PrunedLenProperties DEF TypeOK, EntryMap
<1>2. Consistent(PrunedOrder, PrunedEntries) /\ InTimeOrder(PrunedOrder, PrunedEntries, now)
  BY Zenon, <1>1, DropKeeps DEF PrunedOrder, PrunedEntries
<1>3. Len(PrunedOrder) = IF PrunedLen <= Len(order) THEN Len(order) - PrunedLen ELSE 0
  BY ZenonT(30), <1>1, DropProperties DEF PrunedOrder
<1> QED
  BY <1>1, <1>2, <1>3

\* Inserting a request id that is not in the cache keeps it consistent, in time
\* order and within its limit: the eviction loop pops exactly the excess.
LEMMA InsertKeeps ==
  ASSUME TypeOK, Consistent(order, entries), InTimeOrder(order, entries, now),
         Len(order) <= max_entries,
         NEW r \in Requests, NEW response \in CommandResponse,
         entries[r] = None, Insert(r, response)
  PROVE  Consistent(order, entries)' /\ InTimeOrder(order', entries', now)
         /\ Len(order') <= max_entries /\ max_entries' = max_entries
<1>1. CASE max_entries = 0
  BY Zenon, <1>1 DEF Insert, Consistent
<1>2. CASE max_entries # 0
  <2> DEFINE q == PrunedOrder
             o == Append(q, r)
             e == [response |-> response, completed_at |-> now]
             m == [PrunedEntries EXCEPT ![r] = e]
             k == Excess(m)
  <2>1. PrunedEntries[r] = None
    BY Zenon, PrunedTypes
  <2>2. order' = SubSeq(o, k + 1, Len(o)) /\ entries' = Without(m, Front(o, k))
    BY ZenonT(30), <1>2, <2>1 DEF Insert
  <2>3. /\ q \in Seq(Requests) /\ Consistent(q, PrunedEntries)
        /\ InTimeOrder(q, PrunedEntries, now)
        /\ Len(q) <= max_entries /\ Len(q) \in Nat /\ max_entries \in Nat /\ now \in Nat
    BY SMTT(30), PrunedTypes, PrunedKeeps, LimitIsNat DEF TypeOK
  <2>4. e \in CachedCommandResponse /\ e # None /\ e.completed_at = now
    BY SMTT(30), <2>3, NoneAssumption DEF CachedCommandResponse
  <2>5. /\ m \in EntryMap
        /\ m[r] = e
        /\ \A x \in Requests \ {r} : m[x] = PrunedEntries[x]
    BY Zenon, <2>4, PrunedTypes DEF EntryMap
  <2> HIDE DEF q, e, m
  <2>6. /\ o \in Seq(Requests)
        /\ Len(o) = Len(q) + 1
        /\ \A i \in 1..Len(q) : o[i] = q[i]
        /\ o[Len(q) + 1] = r
    BY <2>3
  <2> HIDE DEF o
  <2>7. \A i \in 1..Len(q) : q[i] \in Requests \ {r}
    BY <2>1, <2>3 DEF Consistent
  <2>8. Consistent(o, m)
    <3>1. \A i, j \in 1..Len(o) : o[i] = o[j] => i = j
      <4> SUFFICES ASSUME NEW i \in 1..Len(o), NEW j \in 1..Len(o), o[i] = o[j] PROVE i = j
        OBVIOUS
      <4>1. (i \in 1..Len(q) \/ i = Len(q) + 1) /\ (j \in 1..Len(q) \/ j = Len(q) + 1)
        BY <2>3, <2>6
      <4>2. CASE i \in 1..Len(q) /\ j \in 1..Len(q)
        BY <2>3, <2>6, <4>2 DEF Consistent
      <4>3. CASE ~(i \in 1..Len(q) /\ j \in 1..Len(q))
        BY Zenon, <2>6, <2>7, <4>1, <4>3
      <4> QED
        BY Zenon, <4>2, <4>3
    <3>2. ASSUME NEW x \in Requests, m[x] # None PROVE \E i \in 1..Len(o) : o[i] = x
      <4>1. CASE x = r
        <5>1. Len(q) + 1 \in 1..Len(o)
          BY <2>3, <2>6
        <5> QED
          BY Zenon, <2>6, <4>1, <5>1
      <4>2. CASE x # r
        <5>1. PICK i \in 1..Len(q) : q[i] = x
          BY Zenon, <2>3, <2>5, <3>2, <4>2 DEF Consistent
        <5>2. i \in 1..Len(o) /\ o[i] = x
          BY <2>3, <2>6, <5>1
        <5> QED
          BY Zenon, <5>2
      <4> QED
        BY Zenon, <4>1, <4>2
    <3>3. ASSUME NEW i \in 1..Len(o) PROVE m[o[i]] # None
      <4>1. CASE i \in 1..Len(q)
        BY Zenon, <2>3, <2>5, <2>6, <2>7, <4>1 DEF Consistent
      <4>2. CASE i = Len(q) + 1
        BY Zenon, <2>4, <2>5, <2>6, <4>2
      <4> QED
        BY SMTT(30), <2>3, <2>6, <4>1, <4>2
    <3> QED
      BY Zenon, <3>1, <3>2, <3>3 DEF Consistent
  <2>9. InTimeOrder(o, m, now)
    <3>1. \A i \in 1..Len(q) : m[o[i]] = PrunedEntries[q[i]] /\ m[o[i]].completed_at <= now
      BY ZenonT(30), <2>3, <2>5, <2>6, <2>7 DEF InTimeOrder
    <3>2. m[o[Len(q) + 1]].completed_at = now
      BY Zenon, <2>4, <2>5, <2>6
    <3>3. \A i \in 1..Len(o) : i \in 1..Len(q) \/ i = Len(q) + 1
      BY <2>3, <2>6
    <3>4. \A i \in 1..Len(o) : m[o[i]].completed_at <= now
      BY SMTT(30), <2>3, <3>1, <3>2, <3>3
    <3>5. ASSUME NEW i \in 1..Len(o), NEW j \in 1..Len(o), i <= j
          PROVE  m[o[i]].completed_at <= m[o[j]].completed_at
      <4>1. CASE j = Len(q) + 1
        BY Zenon, <3>2, <3>4, <4>1
      <4>2. CASE j \in 1..Len(q)
        <5>1. i \in 1..Len(q)
          BY <2>3, <3>5, <4>2
        <5> QED
          BY Zenon, <2>3, <3>1, <3>5, <4>2, <5>1 DEF InTimeOrder
      <4> QED
        BY Zenon, <3>3, <4>1, <4>2
    <3> QED
      BY Zenon, <3>4, <3>5 DEF InTimeOrder
  <2>10. k \in Nat /\ Len(o) - k <= max_entries
    <3>1. Cardinality({x \in Requests : m[x] # None}) = Len(o)
      BY Zenon, <2>5, <2>6, <2>8, SizeIsLength
    <3> QED
      BY SMTT(30), <2>3, <2>6, <3>1 DEF Excess
  <2> HIDE DEF k
  <2>11. Consistent(order', entries') /\ InTimeOrder(order', entries', now)
    BY Zenon, <2>2, <2>3, <2>5, <2>6, <2>8, <2>9, <2>10, DropKeeps
  <2>12. Len(order') <= max_entries
    <3>1. Len(order') = IF k <= Len(o) THEN Len(o) - k ELSE 0
      BY Zenon, <2>2, <2>6, <2>10, DropProperties
    <3> QED
      BY SMTT(30), <2>3, <2>10, <3>1
  <2>13. max_entries' = max_entries
    BY Zenon DEF Insert
  <2> QED
    BY Zenon, <2>11, <2>12, <2>13 DEF Consistent
<1> QED
  BY Zenon, <1>1, <1>2
\* A step that does not touch the cache, the clock or the actor.
LEMMA CacheInvStutter ==
  ASSUME CacheInv, UNCHANGED <<entries, order, max_entries, running, now>>
  PROVE  CacheInv'
BY DEF CacheInv, Consistent, InTimeOrder

\* The inductive invariant of the cache, from which the two theorems below
\* follow: get, insert, the clock and the actor all keep it.
THEOREM CacheInvHolds == Spec => []CacheInv
<1>1. Init => CacheInv
  BY LimitsAssumption DEF Init, CacheInv, Consistent, InTimeOrder
<1>2. TypeOK /\ CacheInv /\ [Next]_vars => CacheInv'
  <2> SUFFICES ASSUME TypeOK, CacheInv, [Next]_vars PROVE CacheInv'
    OBVIOUS
  <2>1. ASSUME NEW r \in Requests, Send(r) \/ TransportError(r) \/ ReceiveAnswer(r) PROVE CacheInv'
    BY Zenon, <2>1, CacheInvStutter DEF Send, TransportError, ReceiveAnswer, actorVars, cacheVars
  <2>2. ASSUME NEW p \in posted, Enqueue(p) \/ Disconnect(p) PROVE CacheInv'
    BY Zenon, <2>2, CacheInvStutter DEF Enqueue, Disconnect, actorVars, cacheVars
  <2>3. ASSUME Get, now' = now
        PROVE  Consistent(order, entries)' /\ InTimeOrder(order, entries, now)'
               /\ Len(order') <= max_entries /\ max_entries' = max_entries
    <3>1. Len(order) \in Nat /\ Len(PrunedOrder) \in Nat /\ max_entries \in Nat
      BY PrunedTypes, LimitIsNat DEF TypeOK
    <3>2. /\ Consistent(PrunedOrder, PrunedEntries)
          /\ InTimeOrder(PrunedOrder, PrunedEntries, now)
          /\ Len(PrunedOrder) <= Len(order)
      BY Zenon, PrunedKeeps DEF CacheInv
    <3>3. order' = PrunedOrder /\ entries' = PrunedEntries /\ max_entries' = max_entries
      BY Zenon, <2>3 DEF Get
    <3>4. Len(order') <= max_entries
      BY <3>1, <3>2, <3>3 DEF CacheInv
    <3>5. Consistent(order, entries)'
      BY Zenon, <3>2, <3>3 DEF Consistent
    <3>6. InTimeOrder(order, entries, now)'
      BY Zenon, <2>3, <3>2, <3>3 DEF InTimeOrder
    <3> QED
      BY Zenon, <3>3, <3>4, <3>5, <3>6
  <2>4. CASE Replay
    BY Zenon, <2>3, <2>4 DEF Replay, CacheInv, actorVars
  <2>5. CASE Begin
    <3>1. running' = Head(queue) /\ entries'[Head(queue).request_id] = None
      BY Zenon, <2>5 DEF Begin, Get
    <3> QED
      BY Zenon, <2>3, <2>5, <3>1 DEF Begin, CacheInv
  <2>6. ASSUME NEW status \in {"ok", "error"}, Finish(status) PROVE CacheInv'
    <3> DEFINE r == running.request_id
               response == [status |-> status, nth |-> executed[r]]
    <3>1. running # None /\ r \in Requests
      BY Zenon, <2>6 DEF Finish, TypeOK, Post
    <3>2. response \in CommandResponse
      BY Zenon, <3>1 DEF CommandResponse, TypeOK
    <3>3. Insert(r, response) /\ running' = None /\ now' = now
      BY Zenon, <2>6 DEF Finish
    <3>4. entries[r] = None
      BY Zenon, <3>1 DEF CacheInv
    <3> HIDE DEF r, response
    <3>5. Consistent(order, entries)' /\ InTimeOrder(order', entries', now)
          /\ Len(order') <= max_entries /\ max_entries' = max_entries
      BY Zenon, <3>1, <3>2, <3>3, <3>4, InsertKeeps DEF CacheInv
    <3> QED
      BY Zenon, <3>3, <3>5 DEF CacheInv, InTimeOrder
  <2>7. CASE Tick
    <3>1. now \in Nat /\ \A i \in 1..Len(order) : order[i] \in Requests
      BY SMTT(30) DEF TypeOK
    <3>2. \A i \in 1..Len(order) : entries[order[i]].completed_at \in Nat
      BY SMTT(30), <3>1 DEF TypeOK, CacheInv, Consistent, CachedCommandResponse
    <3>3. \A i \in 1..Len(order) : entries[order[i]].completed_at <= now + 1
      BY <3>1, <3>2 DEF CacheInv, InTimeOrder
    <3> QED
      BY <2>7, <3>3 DEF Tick, CacheInv, Consistent, InTimeOrder, actorVars, cacheVars
  <2>8. CASE UNCHANGED vars
    BY Zenon, <2>8, CacheInvStutter DEF vars, actorVars, cacheVars
  <2> QED
    BY Zenon, <2>1, <2>2, <2>4, <2>5, <2>6, <2>7, <2>8 DEF Next
<1> QED
  BY <1>1, <1>2, TypeCorrect, PTL DEF Spec

\* The order queue and the entry map of CompletedCommandCache never drift
\* apart and never outgrow max_entries.
THEOREM CacheExactHolds == Spec => []CacheExact
<1>1. CacheInv => CacheExact
  BY Zenon DEF CacheInv, CacheExact, Consistent
<1> QED
  BY <1>1, CacheInvHolds, PTL

\* prune_expired, which only looks at the front, leaves no expired entry: the
\* actor never replays an answer older than the TTL.
THEOREM NoExpiredReplayHolds == Spec => []NoExpiredReplay
<1>1. TypeOK /\ CacheInv => NoExpiredReplay
  <2> SUFFICES ASSUME TypeOK, CacheInv, NEW r \in Requests, PrunedEntries[r] # None
               PROVE  now - PrunedEntries[r].completed_at <= Ttl
    BY Zenon DEF NoExpiredReplay
  <2>1. r \notin Front(order, PrunedLen) /\ PrunedEntries[r] = entries[r]
    BY Zenon, PrunedTypes
  <2>2. PICK i \in 1..Len(order) : order[i] = r
    BY Zenon, <2>1 DEF CacheInv, Consistent
  <2>3. PrunedLen \in 0..Len(order) /\ Len(order) \in Nat
    BY PrunedLenProperties DEF TypeOK
  <2>4. i > PrunedLen
    BY <2>1, <2>2, <2>3 DEF Front
  <2> DEFINE f == PrunedLen + 1
  <2>5. f \in 1..Len(order) /\ f <= i /\ PrunedLen < Len(order)
    BY <2>3, <2>4
  <2>6. Fresh(f)
    BY Zenon, <2>5, PrunedLenProperties
  <2> HIDE DEF f
  <2>7. entries[order[f]].completed_at <= entries[r].completed_at
    BY Zenon, <2>2, <2>5 DEF CacheInv, InTimeOrder
  <2>8. now - entries[order[f]].completed_at <= Ttl
    BY Zenon, <2>6 DEF Fresh
  <2>9. /\ now \in Nat /\ Ttl \in Nat
        /\ entries[order[f]].completed_at \in Nat
        /\ entries[r].completed_at \in Nat
    <3>1. order[f] \in Requests
      BY <2>5 DEF TypeOK
    <3>2. entries[order[f]] \in CachedCommandResponse /\ entries[r] \in CachedCommandResponse
      BY Zenon, <2>1, <2>6, <3>1 DEF Fresh, TypeOK
    <3> QED
      BY Zenon, <3>2, LimitsAssumption DEF TypeOK, CachedCommandResponse
  <2> QED
    BY SMTT(30), <2>1, <2>7, <2>8, <2>9
<1> QED
  BY <1>1, TypeCorrect, CacheInvHolds, PTL
-----------------------------------------------------------------------------
IsRunning(r) == running # None /\ running.request_id = r

\* The life of a request that was not dropped from the cache: not executed and
\* unknown, or executed once and running, or executed once and remembered; and
\* only in the last case is there an answer to it, the remembered one.
Lives(r) ==
    \/ executed[r] = 0 /\ ~IsRunning(r) /\ entries[r] = None
    \/ executed[r] = 1 /\ IsRunning(r) /\ entries[r] = None
    \/ executed[r] = 1 /\ ~IsRunning(r) /\ entries[r] # None

OnceInv == (\A r \in Requests : r \in forgotten \/ Lives(r)) /\ AnswersAgree

\* A step that does not touch the cache, the actor or the answers.
LEMMA OnceInvStutter ==
  ASSUME OnceInv, UNCHANGED <<entries, running, executed, forgotten, answers>>
  PROVE  OnceInv'
BY Zenon DEF OnceInv, Lives, IsRunning, AnswersAgree

\* What Get does to an entry: it stays, or its request id is forgotten.
LEMMA GetForgets ==
  ASSUME TypeOK, Get
  PROVE  /\ forgotten \subseteq forgotten'
         /\ \A r \in Requests : r \in forgotten' \/ entries'[r] = entries[r]
BY Zenon, PrunedTypes DEF Get

\* Every request id that the cache has not dropped leads one of the three lives,
\* whatever posts are repeated, delayed, queued or abandoned.
THEOREM OnceInvHolds == Spec => []OnceInv
<1>1. Init => OnceInv
  BY Zenon DEF Init, OnceInv, Lives, IsRunning, AnswersAgree
<1>2. TypeOK /\ CacheInv /\ OnceInv /\ [Next]_vars => OnceInv'
  <2> SUFFICES ASSUME TypeOK, CacheInv, OnceInv, [Next]_vars PROVE OnceInv'
    OBVIOUS
  <2>1. ASSUME NEW r \in Requests, Send(r) \/ TransportError(r) \/ ReceiveAnswer(r) PROVE OnceInv'
    BY Zenon, <2>1, OnceInvStutter DEF Send, TransportError, ReceiveAnswer, actorVars, cacheVars
  <2>2. ASSUME NEW p \in posted, Enqueue(p) \/ Disconnect(p) PROVE OnceInv'
    BY Zenon, <2>2, OnceInvStutter DEF Enqueue, Disconnect, actorVars, cacheVars
  <2>3. \A a \in answers : a.post.request_id \in Requests
    BY Zenon DEF TypeOK, Post
  <2>4. CASE Replay
    <3>0. PICK p \in Post : p = Head(queue)
      BY <2>4 DEF Replay, TypeOK
    <3> DEFINE h == p.request_id
               new == [post |-> p, response |-> PrunedEntries[h].response]
    <3>1. h \in Requests
      BY Zenon DEF Post
    <3>2. /\ Get /\ entries' = PrunedEntries /\ entries'[h] # None
          /\ answers' = answers \cup {new}
          /\ running' = running /\ executed' = executed
      BY Zenon, <2>4, <3>0 DEF Replay, Get, actorVars
    <3>3. /\ forgotten \subseteq forgotten'
          /\ \A x \in Requests : x \in forgotten' \/ entries'[x] = entries[x]
      BY Zenon, <3>2, GetForgets
    <3>4. \A x \in Requests : x \in forgotten' \/ Lives(x)'
      BY Zenon, <3>2, <3>3 DEF OnceInv, Lives, IsRunning
    <3>5. new.post.request_id = h /\ entries'[h].response = new.response
      BY Zenon, <3>2
    <3> HIDE DEF new, h
    <3>6. AnswersAgree'
      BY Zenon, <2>3, <3>2, <3>3, <3>5 DEF OnceInv, AnswersAgree
    <3> QED
      BY Zenon, <3>4, <3>6 DEF OnceInv
  <2>5. CASE Begin
    <3>0. PICK p \in Post : p = Head(queue)
      BY <2>5 DEF Begin, TypeOK
    <3> DEFINE h == p.request_id
    <3>1. h \in Requests
      BY Zenon DEF Post
    <3>2. p # None
      BY Zenon, NoneAssumption
    <3>3. /\ Get /\ entries'[h] = None /\ running = None /\ running' = p
          /\ executed' = [executed EXCEPT ![h] = @ + 1]
          /\ answers' = answers
      BY Zenon, <2>5, <3>0 DEF Begin, Get
    <3>4. /\ forgotten \subseteq forgotten'
          /\ \A x \in Requests : x \in forgotten' \/ entries'[x] = entries[x]
      BY Zenon, <3>3, GetForgets
    <3>5. /\ executed'[h] = executed[h] + 1
          /\ \A x \in Requests \ {h} : executed'[x] = executed[x]
      BY Zenon, <3>1, <3>3 DEF TypeOK
    <3>6. IsRunning(h)' /\ \A x \in Requests \ {h} : ~IsRunning(x)' /\ ~IsRunning(x)
      BY Zenon, <3>2, <3>3 DEF IsRunning
    <3> HIDE DEF h
    <3>7. h \in forgotten' \/ Lives(h)'
      <4>1. SUFFICES ASSUME h \notin forgotten' PROVE Lives(h)'
        OBVIOUS
      <4>2. entries[h] = None /\ ~IsRunning(h) /\ Lives(h)
        BY Zenon, <3>1, <3>3, <3>4, <4>1 DEF OnceInv, IsRunning
      <4>3. executed'[h] = 1
        BY SMTT(30), <3>5, <4>2 DEF Lives
      <4> QED
        BY Zenon, <3>3, <3>6, <4>3 DEF Lives
    <3>8. \A x \in Requests \ {h} : x \in forgotten' \/ Lives(x)'
      BY Zenon, <3>4, <3>5, <3>6 DEF OnceInv, Lives
    <3>9. AnswersAgree'
      BY Zenon, <2>3, <3>3, <3>4 DEF OnceInv, AnswersAgree
    <3> QED
      BY Zenon, <3>7, <3>8, <3>9 DEF OnceInv
  <2>6. ASSUME NEW status \in {"ok", "error"}, Finish(status) PROVE OnceInv'
    <3>0. PICK p \in Post : p = running /\ running # None
      BY Zenon, <2>6 DEF Finish, TypeOK
    <3> DEFINE r == p.request_id
               response == [status |-> status, nth |-> executed[r]]
               new == [post |-> p, response |-> response]
    <3>1. r \in Requests /\ IsRunning(r)
      BY Zenon, <3>0 DEF Post, IsRunning
    <3>2. response \in CommandResponse
      BY Zenon, <3>1 DEF CommandResponse, TypeOK
    <3>3. /\ Insert(r, response) /\ running' = None /\ executed' = executed
          /\ answers' = answers \cup {new}
      BY Zenon, <2>6, <3>0 DEF Finish
    <3>4. new.post.request_id = r /\ new.response = response
      OBVIOUS
    <3>5. \A x \in Requests \ {r} : ~IsRunning(x)
      BY Zenon, <3>0 DEF IsRunning
    <3> HIDE DEF r, response, new
    <3>6. /\ forgotten \subseteq forgotten'
          /\ r \in forgotten' \/ (entries'[r] # None /\ entries'[r].response = response)
          /\ \A x \in Requests \ {r} : x \in forgotten' \/ entries'[x] = entries[x]
      BY Zenon, <3>1, <3>2, <3>3, InsertTypes
    <3>7. \A x \in Requests : ~IsRunning(x)'
      BY Zenon, <3>3 DEF IsRunning
    <3>8. r \in forgotten' \/ Lives(r)'
      BY Zenon, <3>1, <3>3, <3>6, <3>7 DEF OnceInv, Lives
    <3>9. \A x \in Requests \ {r} : x \in forgotten' \/ Lives(x)'
      BY Zenon, <3>3, <3>5, <3>6, <3>7 DEF OnceInv, Lives
    <3>10. \A a \in answers : a.post.request_id = r => r \in forgotten
      BY Zenon, <3>1 DEF OnceInv, AnswersAgree, Lives
    <3>11. AnswersAgree'
      BY Zenon, <2>3, <3>3, <3>4, <3>6, <3>10 DEF OnceInv, AnswersAgree
    <3> QED
      BY Zenon, <3>8, <3>9, <3>11 DEF OnceInv
  <2>7. CASE Tick
    BY Zenon, <2>7, OnceInvStutter DEF Tick, actorVars, cacheVars
  <2>8. CASE UNCHANGED vars
    BY Zenon, <2>8, OnceInvStutter DEF vars, actorVars, cacheVars
  <2> QED
    BY Zenon, <2>1, <2>2, <2>4, <2>5, <2>6, <2>7, <2>8 DEF Next
<1> QED
  BY <1>1, <1>2, TypeCorrect, CacheInvHolds, PTL DEF Spec

\* Repeated posts, however delayed or reordered, execute a command once unless
\* its request id was evicted or expired.
THEOREM ExecutedOnceHolds == Spec => []ExecutedOnce
<1>1. OnceInv => ExecutedOnce
  BY DEF OnceInv, Lives, ExecutedOnce
<1> QED
  BY <1>1, OnceInvHolds, PTL

\* All answers to the posts of a command that was not dropped from the cache
\* are the answer of its one execution.
THEOREM AnswersAgreeHolds == Spec => []AnswersAgree
<1>1. OnceInv => AnswersAgree
  BY Zenon DEF OnceInv
<1> QED
  BY <1>1, OnceInvHolds, PTL
=============================================================================
