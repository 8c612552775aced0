--------------------- MODULE ApplicationMessagesProofs ----------------------
(***************************************************************************)
(* Theorems about the application messages, for any clients, tolerance,    *)
(* forward distance and bounds.                                            *)
(*                                                                         *)
(* No client gets into an epoch twice: a step forward leads to an epoch it *)
(* has not visited, because a visit needs a visit of the epoch before or a *)
(* welcome, and a welcome to an epoch is only for those who were not in    *)
(* the one before.  So every epoch starts with ratchets nothing was        *)
(* encrypted or opened with.                                               *)
(***************************************************************************)
EXTENDS ApplicationMessages, TLAPS

-----------------------------------------------------------------------------
(* The decryption ratchets: the queue of past secrets mirrors the opened.  *)

\* The ratchet d for the messages of s mirrors the opened messages O of epoch e.
Exact(d, s, e, O) ==
    /\ Len(d.past_secrets) = Pruned(d.head)
    /\ \A i \in 1..Len(d.past_secrets) :
         d.past_secrets[i] <=> [from |-> s, epoch |-> e, gen |-> d.head - i] \notin O
    /\ \A m \in O : m.from = s /\ m.epoch = e => m.gen < d.head

\* A function on 1..n is a sequence of length n.
LEMMA SeqOf ==
    ASSUME NEW S, NEW n \in Nat, NEW q \in [1..n -> S]
    PROVE  q \in Seq(S) /\ Len(q) = n
  OBVIOUS

\* RatchetForward keeps the length of the queue at what prune_past_secrets
\* allows, and yields a ratchet.
LEMMA ForwardShape ==
    ASSUME NEW d \in Ratchet, NEW g \in Nat, g >= d.head,
           Len(d.past_secrets) = Pruned(d.head)
    PROVE  /\ RatchetForward(d, g) \in Ratchet
           /\ RatchetForward(d, g).head = g + 1
           /\ Len(RatchetForward(d, g).past_secrets) = Pruned(g + 1)
           /\ \A i \in 1..Pruned(g + 1) :
                RatchetForward(d, g).past_secrets[i] =
                   (i # 1 /\ (i <= g - d.head + 1 \/ d.past_secrets[i - (g - d.head) - 1]))
<1> DEFINE k == g - d.head
           n == Pruned(Len(d.past_secrets) + k + 1)
           q == [i \in 1..n |-> i # 1 /\ (i <= k + 1 \/ d.past_secrets[i - k - 1])]
<1>1. d.head \in Nat /\ d.past_secrets \in Seq(BOOLEAN) /\ k \in Nat
  BY DEF Ratchet
<1>2. n = Pruned(g + 1) /\ n \in Nat
  BY SMTT(30), <1>1, WindowAssumption DEF Pruned
<1>3. \A i \in 1..n : (i # 1 /\ (i <= k + 1 \/ d.past_secrets[i - k - 1])) \in BOOLEAN
  OBVIOUS
<1>4. q \in Seq(BOOLEAN) /\ Len(q) = n
  <2>1. q \in [1..n -> BOOLEAN]
    BY Zenon, <1>3
  <2> HIDE DEF q, n
  <2> QED BY Zenon, <2>1, <1>2, SeqOf
<1>5. RatchetForward(d, g) = [head |-> g + 1, past_secrets |-> q]
  BY Zenon DEF RatchetForward, NextGeneration
<1> QED
  BY <1>1, <1>2, <1>4, <1>5 DEF Ratchet

\* Replacing one element keeps the length of a sequence.
LEMMA SeqExcept ==
    ASSUME NEW S, NEW q \in Seq(S), NEW j \in 1..Len(q), NEW v \in S
    PROVE  /\ [q EXCEPT ![j] = v] \in Seq(S)
           /\ Len([q EXCEPT ![j] = v]) = Len(q)
           /\ \A i \in 1..Len(q) : [q EXCEPT ![j] = v][i] = IF i = j THEN v ELSE q[i]
  OBVIOUS

\* A message is determined by its sender, epoch and generation.
LEMMA MessageKey ==
    ASSUME NEW m \in Message
    PROVE  /\ m.from \in Clients /\ m.epoch \in Nat /\ m.gen \in Nat
           /\ m = [from |-> m.from, epoch |-> m.epoch, gen |-> m.gen]
  BY Zenon DEF Message

\* A key that secret_for_decryption hands out is the key of a message that was
\* not opened, and afterwards the ratchet mirrors that it was opened.
LEMMA ExactOpen ==
    ASSUME NEW d \in Ratchet, NEW s \in Clients, NEW e \in Nat,
           NEW O \in SUBSET Message, NEW m \in Message, m.from = s, m.epoch = e,
           Exact(d, s, e, O), SecretFor(d, m.gen) = "Ok"
    PROVE  /\ m \notin O
           /\ AfterSecretFor(d, m.gen) \in Ratchet
           /\ Exact(AfterSecretFor(d, m.gen), s, e, O \cup {m})
<1> DEFINE g == m.gen
           Key(j) == [from |-> s, epoch |-> e, gen |-> j]
<1>1. d.head \in Nat /\ d.past_secrets \in Seq(BOOLEAN) /\ g \in Nat /\ m = Key(g)
  BY Zenon, MessageKey DEF Ratchet
<1>2. /\ Len(d.past_secrets) = Pruned(d.head)
      /\ \A i \in 1..Len(d.past_secrets) : d.past_secrets[i] <=> Key(d.head - i) \notin O
      /\ \A x \in O : x.from = s /\ x.epoch = e => x.gen < d.head
  BY Zenon DEF Exact
<1>3. \A j \in Nat : j >= d.head => Key(j) \notin O
  BY <1>1, <1>2
<1>4. \A j \in Nat : Key(j) = m <=> j = g
  BY <1>1
<1>5. CASE g >= d.head
  <2> DEFINE r == RatchetForward(d, g)
             k == g - d.head
  <2>1. /\ r \in Ratchet /\ r.head = g + 1 /\ Len(r.past_secrets) = Pruned(g + 1)
        /\ \A i \in 1..Pruned(g + 1) :
             r.past_secrets[i] = (i # 1 /\ (i <= k + 1 \/ d.past_secrets[i - k - 1]))
    BY ZenonT(30), <1>1, <1>2, <1>5, ForwardShape
  <2>2. AfterSecretFor(d, g) = r
    BY Zenon, <1>5 DEF AfterSecretFor
  <2> HIDE DEF r
  <2>3. ASSUME NEW i \in 1..Pruned(g + 1)
        PROVE  r.past_secrets[i] <=> Key(r.head - i) \notin O \cup {m}
    <3>1. /\ i \in Nat /\ i >= 1 /\ i <= g + 1 /\ i <= Tolerance
          /\ r.head - i \in Nat /\ r.head - i = g + 1 - i
      BY SMTT(30), <1>1, <2>1, WindowAssumption DEF Pruned
    <3>2. CASE i = 1
      <4>1. ~r.past_secrets[i]
        BY ZenonT(30), <2>1, <3>2
      <4>2. Key(r.head - i) = m
        BY <1>1, <1>4, <3>1, <3>2
      <4> QED BY Zenon, <4>1, <4>2
    <3>3. CASE i # 1 /\ i <= k + 1
      <4>1. r.past_secrets[i]
        BY ZenonT(30), <2>1, <3>3
      <4>2. r.head - i >= d.head /\ r.head - i # g
        BY SMTT(30), <1>1, <3>1, <3>3
      <4> QED BY Zenon, <1>3, <1>4, <3>1, <4>1, <4>2
    <3>4. CASE i # 1 /\ ~(i <= k + 1)
      <4>1. r.past_secrets[i] <=> d.past_secrets[i - k - 1]
        BY ZenonT(30), <2>1, <3>4
      <4>2. i - k - 1 \in 1..Len(d.past_secrets)
        <5> DEFINE j == i - k - 1
        <5>0. d.head \in Nat /\ g \in Nat
          BY Zenon, <1>1
        <5>1. j \in Nat /\ j >= 1 /\ j <= d.head /\ j <= Tolerance
          BY <1>5, <3>1, <3>4, <5>0, WindowAssumption
        <5> HIDE DEF j
        <5>2. j \in 1..Pruned(d.head)
          BY <1>1, <5>1, WindowAssumption DEF Pruned
        <5> QED BY Zenon, <1>2, <5>2 DEF j
      <4>3. r.head - i = d.head - (i - k - 1) /\ r.head - i # g
        BY SMTT(30), <1>1, <1>5, <3>1, <3>4
      <4>4. d.past_secrets[i - k - 1] <=> Key(r.head - i) \notin O
        BY Zenon, <1>2, <4>2, <4>3
      <4>5. Key(r.head - i) # m
        BY Zenon, <1>4, <3>1, <4>3
      <4> QED BY Zenon, <4>1, <4>4, <4>5
    <3> QED BY Zenon, <3>2, <3>3, <3>4
  <2>4. \A x \in O \cup {m} : x.from = s /\ x.epoch = e => x.gen < r.head
    <3>1. \A x \in O : x.gen \in Nat
      BY Zenon, MessageKey
    <3> QED BY <1>1, <1>2, <1>5, <2>1, <3>1
  <2>5. Exact(r, s, e, O \cup {m})
    BY Zenon, <2>1, <2>3, <2>4 DEF Exact
  <2> QED BY Zenon, <1>1, <1>3, <1>5, <2>1, <2>2, <2>5
<1>6. CASE g < d.head
  <2> DEFINE j == d.head - g
             q == [d.past_secrets EXCEPT ![j] = FALSE]
             r == [head |-> d.head, past_secrets |-> q]
  <2>1. j \in 1..Len(d.past_secrets) /\ d.past_secrets[j] = TRUE
    BY <1>1, <1>6, WindowAssumption DEF SecretFor, Ratchet
  <2>2. m \notin O
    BY <1>1, <1>2, <2>1
  <2>3. AfterSecretFor(d, g) = r
    BY <1>1, <1>6 DEF AfterSecretFor
  <2>4. /\ r \in Ratchet /\ r.head = d.head
        /\ Len(r.past_secrets) = Len(d.past_secrets)
        /\ \A i \in 1..Len(d.past_secrets) :
             r.past_secrets[i] = IF i = j THEN FALSE ELSE d.past_secrets[i]
    <3> HIDE DEF j
    <3>1. /\ q \in Seq(BOOLEAN) /\ Len(q) = Len(d.past_secrets)
          /\ \A i \in 1..Len(d.past_secrets) :
               q[i] = IF i = j THEN FALSE ELSE d.past_secrets[i]
      <4> DEFINE p == d.past_secrets
      <4>1. p \in Seq(BOOLEAN) /\ j \in 1..Len(p) /\ FALSE \in BOOLEAN
        BY Zenon, <1>1, <2>1
      <4> HIDE DEF p
      <4>2. \A v \in BOOLEAN :
              /\ [p EXCEPT ![j] = v] \in Seq(BOOLEAN)
              /\ Len([p EXCEPT ![j] = v]) = Len(p)
              /\ \A i \in 1..Len(p) : [p EXCEPT ![j] = v][i] = IF i = j THEN v ELSE p[i]
        BY <4>1, SeqExcept
      <4> QED BY ZenonT(30), <4>1, <4>2 DEF p
    <3> HIDE DEF q
    <3> QED BY ZenonT(30), <1>1, <3>1 DEF Ratchet
  <2> HIDE DEF r, q
  <2>5. ASSUME NEW i \in 1..Len(r.past_secrets)
        PROVE  r.past_secrets[i] <=> Key(r.head - i) \notin O \cup {m}
    <3>1. i \in Nat /\ i <= d.head
      BY <1>1, <1>2, <2>4, WindowAssumption DEF Pruned
    <3>2. Key(r.head - i) = m <=> i = j
      BY SMTT(30), <1>1, <1>4, <2>4, <3>1
    <3>3. d.past_secrets[i] <=> Key(r.head - i) \notin O
      BY Zenon, <1>2, <2>4
    <3> QED BY ZenonT(30), <2>4, <3>2, <3>3
  <2>6. \A x \in O \cup {m} : x.from = s /\ x.epoch = e => x.gen < r.head
    BY Zenon, <1>1, <1>2, <1>6, <2>4
  <2>7. Exact(r, s, e, O \cup {m})
    BY Zenon, <1>2, <2>4, <2>5, <2>6 DEF Exact
  <2> QED BY Zenon, <2>2, <2>3, <2>4, <2>7
<1> QED BY <1>1, <1>5, <1>6

\* Opening a message of another sender leaves a ratchet exact.
LEMMA ExactOther ==
    ASSUME NEW d \in Ratchet, NEW s \in Clients, NEW e \in Nat,
           NEW O \in SUBSET Message, NEW m \in Message, m.from # s,
           Exact(d, s, e, O)
    PROVE  Exact(d, s, e, O \cup {m})
  BY DEF Exact

\* A new ratchet is exact in an epoch of which nothing was opened.
LEMMA ExactFresh ==
    ASSUME NEW s \in Clients, NEW e \in Nat, NEW O \in SUBSET Message,
           \A m \in O : m.epoch # e
    PROVE  NewRatchet \in Ratchet /\ Exact(NewRatchet, s, e, O)
  BY WindowAssumption DEF Exact, NewRatchet, Ratchet, Pruned

-----------------------------------------------------------------------------
(* The invariant, and that the steps of the group keep it.                 *)

GroupState == [epoch : Nat, members : SUBSET Clients]

\* The one history, and where the clients are in it.
HistoryOK ==
    /\ history \in Seq(GroupState)
    /\ \A e \in 1..Len(history) : history[e].epoch = e
    /\ view \in [Clients -> GroupState \cup {None}]
    /\ \A c \in Clients : view[c] # None =>
         /\ view[c].epoch <= Len(history)
         /\ view[c].epoch \in visited[c]
         /\ view[c].epoch + 1 \notin visited[c]
         /\ c \in view[c].members
         /\ view[c].epoch # 0 => view[c] = history[view[c].epoch]

\* How a client got into the epochs it has visited.
VisitsOK ==
    \A c \in Clients :
      /\ \A e \in visited[c] :
           /\ e <= Len(history)
           /\ e = 0 => 0 \in welcomed[c]
           /\ e # 0 => /\ c \in history[e].members
                       /\ e \in welcomed[c] \/ e - 1 \in visited[c]
      /\ \A e \in welcomed[c] :
           /\ e \in visited[c]
           /\ e > 1 => c \notin history[e - 1].members
           /\ e = 1 => 0 \notin visited[c]

\* The keys that were used belong to visited epochs, in the present one to
\* generations before the ratchet's.
SentOK ==
    \A m \in sent :
      /\ m.epoch \in visited[m.from]
      /\ view[m.from] # None /\ m.epoch = view[m.from].epoch => m.gen < enc[m.from]

\* What was opened is of visited epochs, and the ratchets mirror it.
OpenedOK ==
    \A c \in Clients :
      /\ \A m \in opened[c] : m.epoch \in visited[c]
      /\ view[c] # None =>
           \A s \in Clients : Exact(dec[c][s], s, view[c].epoch, opened[c])

\* The inductive invariant.
IInv == TypeOK /\ HistoryOK /\ VisitsOK /\ SentOK /\ OpenedOK
-----------------------------------------------------------------------------
\* A client that gets into a state of an epoch it has not visited starts with
\* ratchets nothing was encrypted or opened with.
LEMMA NewEpoch ==
    ASSUME IInv, NEW c \in Clients, NEW st \in GroupState,
           view' = [view EXCEPT ![c] = st], UNCHANGED history,
           st.epoch \notin visited[c], st.epoch + 1 \notin visited[c],
           st.epoch <= Len(history), c \in st.members,
           st.epoch # 0 => st = history[st.epoch],
           FreshSecrets(c), welcomed' \in [Clients -> SUBSET Nat],
           UNCHANGED <<relay, worker, lost, past>>
    PROVE  /\ TypeOK' /\ HistoryOK' /\ SentOK' /\ OpenedOK'
           /\ visited' = [visited EXCEPT ![c] = @ \cup {st.epoch}]
<1> USE DEF IInv
<1>1. /\ st.epoch \in Nat /\ view'[c] = st /\ st # None
      /\ \A o \in Clients \ {c} : view'[o] = view[o]
  BY Zenon, FounderAssumption DEF HistoryOK, GroupState
<1>2. /\ visited' = [visited EXCEPT ![c] = @ \cup {st.epoch}]
      /\ visited' \in [Clients -> SUBSET Nat]
      /\ \A o \in Clients : visited[o] \subseteq visited'[o]
      /\ visited'[c] = visited[c] \cup {st.epoch}
      /\ \A o \in Clients \ {c} : visited'[o] = visited[o]
  <2>1. visited' = [visited EXCEPT ![c] = @ \cup {st.epoch}]
    BY ZenonT(30), <1>1 DEF FreshSecrets
  <2>2. visited \in [Clients -> SUBSET Nat]
    BY Zenon DEF TypeOK
  <2> QED BY Zenon, <1>1, <2>1, <2>2
<1>3. NewRatchet \in Ratchet
  BY DEF NewRatchet, Ratchet
<1>4. TypeOK'
  BY Zenon, <1>2, <1>3 DEF TypeOK, FreshSecrets, relay, past
<1>5. HistoryOK'
  <2>1. view' \in [Clients -> GroupState \cup {None}]
    BY Zenon DEF HistoryOK
  <2>2. ASSUME NEW o \in Clients, view'[o] # None
        PROVE  /\ view'[o].epoch <= Len(history)
               /\ view'[o].epoch \in visited'[o]
               /\ view'[o].epoch + 1 \notin visited'[o]
               /\ o \in view'[o].members
               /\ view'[o].epoch # 0 => view'[o] = history[view'[o].epoch]
    <3>1. CASE o = c
      BY <1>1, <1>2, <3>1
    <3>2. CASE o # c
      BY Zenon, <1>1, <1>2, <2>2, <3>2 DEF HistoryOK
    <3> QED BY Zenon, <3>1, <3>2
  <2> QED BY Zenon, <2>1, <2>2 DEF HistoryOK
<1>6. SentOK'
  <2> SUFFICES ASSUME NEW m \in sent
               PROVE  /\ m.epoch \in visited'[m.from]
                      /\ view'[m.from] # None /\ m.epoch = view'[m.from].epoch
                           => m.gen < enc'[m.from]
    BY Zenon DEF SentOK, past
  <2>1. m.from \in Clients
    BY Zenon, MessageKey DEF TypeOK
  <2>2. m.epoch \in visited[m.from]
    BY Zenon DEF SentOK
  <2>3. CASE m.from = c
    BY <1>1, <1>2, <2>1, <2>2, <2>3
  <2>4. CASE m.from # c
    <3>1. enc'[m.from] = enc[m.from] /\ view'[m.from] = view[m.from]
      BY Zenon, <1>1, <2>1, <2>4 DEF FreshSecrets, TypeOK
    <3> QED BY Zenon, <1>2, <2>1, <2>2, <3>1 DEF SentOK
  <2> QED BY Zenon, <2>3, <2>4
<1>7. OpenedOK'
  <2> SUFFICES ASSUME NEW o \in Clients
               PROVE  /\ \A m \in opened[o] : m.epoch \in visited'[o]
                      /\ view'[o] # None =>
                           \A s \in Clients : Exact(dec'[o][s], s, view'[o].epoch, opened[o])
    BY Zenon DEF OpenedOK, past
  <2>1. \A m \in opened[o] : m.epoch \in visited[o]
    BY Zenon DEF OpenedOK
  <2>2. CASE o = c
    <3>1. \A m \in opened[c] : m.epoch # st.epoch
      BY Zenon, <2>1, <2>2
    <3>2. \A s \in Clients : dec'[c][s] = NewRatchet
      BY Zenon DEF FreshSecrets, TypeOK
    <3>3. opened[c] \in SUBSET Message
      BY Zenon DEF TypeOK
    <3>4. \A s \in Clients : Exact(NewRatchet, s, st.epoch, opened[c])
      BY Zenon, <1>1, <3>1, <3>3, ExactFresh
    <3> QED BY <1>1, <1>2, <2>1, <2>2, <3>2, <3>4
  <2>3. CASE o # c
    <3>1. dec'[o] = dec[o] /\ view'[o] = view[o]
      BY Zenon, <1>1, <2>3 DEF FreshSecrets, TypeOK
    <3> QED BY Zenon, <1>2, <2>1, <3>1 DEF OpenedOK
  <2> QED BY Zenon, <2>2, <2>3
<1> QED BY Zenon, <1>2, <1>4, <1>5, <1>6, <1>7

\* The founder has not been anywhere.
LEMMA CreateGroupInv ==
    ASSUME IInv, NEW c \in Clients, CreateGroup(c)
    PROVE  IInv'
<1> DEFINE st == [epoch |-> 0, members |-> {c}]
<1>1. st \in GroupState /\ st.epoch = 0 /\ st.members = {c}
  BY Zenon DEF GroupState
<1>2. /\ view' = [view EXCEPT ![c] = st] /\ history = <<>> /\ UNCHANGED history
      /\ welcomed[c] = {} /\ welcomed' = [welcomed EXCEPT ![c] = {0}]
      /\ FreshSecrets(c) /\ UNCHANGED <<relay, worker, lost, past>>
  BY Zenon DEF CreateGroup, Found
<1> HIDE DEF st
<1>3. /\ \A o \in Clients : visited[o] \subseteq {0} /\ welcomed[o] \subseteq {0}
      /\ visited[c] = {}
  <2>1. visited \in [Clients -> SUBSET Nat] /\ welcomed \in [Clients -> SUBSET Nat] /\ Len(history) = 0
    BY Zenon, <1>2 DEF IInv, TypeOK
  <2> QED BY <1>2, <2>1 DEF IInv, VisitsOK
<1>4. welcomed' \in [Clients -> SUBSET Nat]
  BY <1>2 DEF IInv, TypeOK
<1>5. /\ TypeOK' /\ HistoryOK' /\ SentOK' /\ OpenedOK'
      /\ visited' = [visited EXCEPT ![c] = @ \cup {0}]
  <2>1. 0 <= Len(history) /\ 0 + 1 = 1
    BY <1>2
  <2> QED BY ZenonT(30), <1>1, <1>2, <1>3, <1>4, <2>1, NewEpoch
<1>6. VisitsOK'
  BY SMTT(30), <1>2, <1>3, <1>4, <1>5 DEF IInv, VisitsOK, TypeOK
<1> QED BY Zenon, <1>5, <1>6 DEF IInv

\* The next epoch is new to a client, because those who go on to an epoch from
\* the one before, and those who are welcomed to it, are different clients.
LEMMA MergeCommitInv ==
    ASSUME IInv, NEW c \in Clients, MergeCommit(c)
    PROVE  IInv'
<1> DEFINE e == view[c].epoch
           st == history[e + 1]
<1>1. /\ view[c] # None /\ e < Len(history) /\ c \in st.members
      /\ view' = [view EXCEPT ![c] = st] /\ UNCHANGED history
      /\ FreshSecrets(c) /\ UNCHANGED <<welcomed, relay, worker, lost, past>>
  BY Zenon DEF MergeCommit, Advance
<1>2. e \in Nat /\ e \in visited[c] /\ e + 1 \notin visited[c]
  BY Zenon, <1>1 DEF IInv, HistoryOK, GroupState
<1>3. st \in GroupState /\ st.epoch = e + 1 /\ e + 1 \in 1..Len(history)
  <2>1. e + 1 \in 1..Len(history)
    BY <1>1, <1>2 DEF IInv, HistoryOK
  <2> HIDE DEF e
  <2> QED BY <2>1 DEF IInv, HistoryOK
<1> HIDE DEF e
<1>4. (e + 1) + 1 \notin visited[c]
  <2> SUFFICES ASSUME (e + 1) + 1 \in visited[c] PROVE FALSE
    OBVIOUS
  <2>1. (e + 1) + 1 \in welcomed[c]
    BY <1>2 DEF IInv, VisitsOK
  <2> QED BY <1>1, <1>2, <2>1 DEF IInv, VisitsOK
<1>5. /\ TypeOK' /\ HistoryOK' /\ SentOK' /\ OpenedOK'
      /\ visited' = [visited EXCEPT ![c] = @ \cup {e + 1}]
  <2>1. welcomed' \in [Clients -> SUBSET Nat]
    BY Zenon, <1>1 DEF IInv, TypeOK
  <2>2. e + 1 <= Len(history)
    BY <1>3
  <2> HIDE DEF st
  <2>3. st = history[st.epoch]
    BY Zenon, <1>3 DEF st
  <2> QED BY ZenonT(30), <1>1, <1>2, <1>3, <1>4, <2>1, <2>2, <2>3, NewEpoch
<1>6. VisitsOK'
  <2>1. visited \in [Clients -> SUBSET Nat] /\ welcomed \in [Clients -> SUBSET Nat]
    BY Zenon DEF IInv, TypeOK
  <2>2. /\ visited'[c] = visited[c] \cup {e + 1}
        /\ \A o \in Clients \ {c} : visited'[o] = visited[o]
        /\ \A o \in Clients : visited[o] \subseteq visited'[o]
    BY Zenon, <1>5, <2>1
  <2>3. ASSUME NEW o \in Clients, NEW x \in visited'[o]
        PROVE  /\ x <= Len(history)
               /\ x = 0 => 0 \in welcomed[o]
               /\ x # 0 => /\ o \in history[x].members
                           /\ x \in welcomed[o] \/ x - 1 \in visited'[o]
    <3>1. CASE x \in visited[o]
      BY Zenon, <2>2, <3>1 DEF IInv, VisitsOK
    <3>2. CASE x \notin visited[o]
      <4>1. o = c /\ x = e + 1
        BY Zenon, <2>2, <2>3, <3>2
      <4> QED BY <1>1, <1>2, <1>3, <2>2, <4>1
    <3> QED BY Zenon, <3>1, <3>2
  <2>4. ASSUME NEW o \in Clients, NEW x \in welcomed[o]
        PROVE  /\ x \in visited'[o]
               /\ x > 1 => o \notin history[x - 1].members
               /\ x = 1 => 0 \notin visited'[o]
    BY <1>2, <2>2 DEF IInv, VisitsOK
  <2> QED BY Zenon, <1>1, <2>3, <2>4 DEF VisitsOK
<1> QED BY Zenon, <1>5, <1>6 DEF IInv

\* An epoch a client is welcomed to is new to it: it was not a member of the
\* one before, so it could only have been welcomed, with another key package.
LEMMA JoinInv ==
    ASSUME IInv, NEW c \in Clients, JoinFromWelcome(c)
    PROVE  IInv'
<1>1. PICK e \in 1..Len(history) :
         /\ c \in history[e].members
         /\ e > 1 => c \notin history[e - 1].members
         /\ view' = [view EXCEPT ![c] = history[e]]
  BY ZenonT(30) DEF JoinFromWelcome, Enter
<1> DEFINE st == history[e]
<1>2. /\ UNCHANGED history /\ FreshSecrets(c) /\ UNCHANGED <<relay, worker, lost, past>>
      /\ KeyPackageUnused(c, view'[c].epoch)
      /\ welcomed' = [welcomed EXCEPT ![c] = @ \cup {view'[c].epoch}]
  BY Zenon DEF JoinFromWelcome, Enter
<1>3. st \in GroupState /\ st.epoch = e /\ e \in Nat /\ e >= 1 /\ view'[c] = st
  BY <1>1 DEF IInv, HistoryOK
<1> HIDE DEF st
<1>4. visited \in [Clients -> SUBSET Nat] /\ welcomed \in [Clients -> SUBSET Nat]
  BY Zenon DEF IInv, TypeOK
<1>5. e \notin welcomed[c] /\ (e = 1 => 0 \notin welcomed[c])
  BY Zenon, <1>2, <1>3 DEF KeyPackageUnused, NotFounder
<1>6. e \notin visited[c] /\ e + 1 \notin visited[c] /\ (e = 1 => 0 \notin visited[c])
  <2>1. e = 1 => 0 \notin visited[c]
    BY Zenon, <1>5 DEF IInv, VisitsOK
  <2>2. e > 1 => e - 1 \notin visited[c]
    BY <1>1, <1>3 DEF IInv, VisitsOK
  <2>3. e \notin visited[c]
    BY <1>3, <1>5, <2>1, <2>2 DEF IInv, VisitsOK
  <2>4. ASSUME e + 1 \in visited[c] PROVE FALSE
    <3>1. e + 1 \in welcomed[c]
      BY <1>3, <2>3, <2>4 DEF IInv, VisitsOK
    <3> QED BY SMTT(30), <1>1, <1>3, <3>1 DEF IInv, VisitsOK
  <2> QED BY Zenon, <2>1, <2>3, <2>4
<1>7. /\ welcomed' = [welcomed EXCEPT ![c] = @ \cup {e}]
      /\ welcomed' \in [Clients -> SUBSET Nat]
  BY ZenonT(30), <1>2, <1>3, <1>4
<1>8. /\ TypeOK' /\ HistoryOK' /\ SentOK' /\ OpenedOK'
      /\ visited' = [visited EXCEPT ![c] = @ \cup {e}]
  <2>1. /\ view' = [view EXCEPT ![c] = st] /\ st = history[st.epoch] /\ c \in st.members
        /\ e <= Len(history)
    BY SMTT(30), <1>1, <1>3 DEF st
  <2> QED BY ZenonT(30), <1>2, <1>3, <1>6, <1>7, <2>1, NewEpoch
<1>9. VisitsOK'
  <2>1. /\ visited'[c] = visited[c] \cup {e} /\ welcomed'[c] = welcomed[c] \cup {e}
        /\ \A o \in Clients \ {c} : visited'[o] = visited[o] /\ welcomed'[o] = welcomed[o]
    BY Zenon, <1>4, <1>7, <1>8
  <2>2. ASSUME NEW o \in Clients, NEW x \in visited'[o]
        PROVE  /\ x <= Len(history)
               /\ x = 0 => 0 \in welcomed'[o]
               /\ x # 0 => /\ o \in history[x].members
                           /\ x \in welcomed'[o] \/ x - 1 \in visited'[o]
    <3>1. CASE o = c /\ x = e
      BY SMTT(30), <1>1, <1>3, <2>1, <3>1
    <3>2. CASE ~(o = c /\ x = e)
      <4>1. x \in visited[o]
        BY Zenon, <2>1, <2>2, <3>2
      <4> QED BY Zenon, <2>1, <4>1 DEF IInv, VisitsOK
    <3> QED BY Zenon, <3>1, <3>2
  <2>3. ASSUME NEW o \in Clients, NEW x \in welcomed'[o]
        PROVE  /\ x \in visited'[o]
               /\ x > 1 => o \notin history[x - 1].members
               /\ x = 1 => 0 \notin visited'[o]
    <3>1. CASE o = c /\ x = e
      BY SMTT(30), <1>1, <1>3, <1>6, <2>1, <3>1
    <3>2. CASE ~(o = c /\ x = e)
      <4>1. x \in welcomed[o]
        BY Zenon, <2>1, <2>3, <3>2
      <4> QED BY SMTT(30), <1>3, <2>1, <4>1 DEF IInv, VisitsOK
    <3> QED BY Zenon, <3>1, <3>2
  <2> QED BY Zenon, <1>2, <2>2, <2>3 DEF VisitsOK
<1> QED BY Zenon, <1>8, <1>9 DEF IInv

\* A commit appends to the history and moves nobody.
LEMMA CommitInv ==
    ASSUME IInv, NEW c \in Clients, CommitAccepted(c)
    PROVE  IInv'
<1>1. PICK members \in SUBSET Clients :
         history' = Append(history, [epoch |-> Len(history) + 1, members |-> members])
  BY ZenonT(30) DEF CommitAccepted
<1> DEFINE st == [epoch |-> Len(history) + 1, members |-> members]
<1>2. UNCHANGED <<view, welcomed, visited, ratchets, relay, worker, lost, past>>
  BY Zenon DEF CommitAccepted, Extend
<1>3. history \in Seq(GroupState) /\ st \in GroupState /\ st.epoch = Len(history) + 1
  BY DEF IInv, HistoryOK, GroupState
<1> HIDE DEF st
<1>4. /\ history' \in Seq(GroupState) /\ Len(history') = Len(history) + 1
      /\ Len(history) \in Nat
      /\ \A e \in 1..Len(history) : history'[e] = history[e]
      /\ history'[Len(history) + 1] = st
  <2>1. history' = Append(history, st)
    BY Zenon, <1>1 DEF st
  <2> QED BY <1>3, <2>1
<1>5. TypeOK' /\ SentOK' /\ OpenedOK'
  BY Zenon, <1>2 DEF IInv, TypeOK, SentOK, OpenedOK, Exact, ratchets, relay, past
<1>6. HistoryOK'
  <2>1. \A e \in 1..Len(history') : history'[e].epoch = e
    BY SMTT(30), <1>3, <1>4 DEF IInv, HistoryOK
  <2>2. ASSUME NEW o \in Clients, view[o] # None
        PROVE  /\ view[o].epoch <= Len(history')
               /\ view[o].epoch # 0 => view[o] = history'[view[o].epoch]
    <3>1. view[o].epoch \in Nat /\ view[o].epoch <= Len(history)
      BY Zenon, <2>2 DEF IInv, HistoryOK, GroupState
    <3> QED BY SMTT(30), <1>4, <2>2, <3>1 DEF IInv, HistoryOK
  <2> QED BY Zenon, <1>2, <1>4, <2>1, <2>2 DEF IInv, HistoryOK
<1>7. VisitsOK'
  <2>1. visited \in [Clients -> SUBSET Nat] /\ welcomed \in [Clients -> SUBSET Nat]
    BY Zenon DEF IInv, TypeOK
  <2>2. ASSUME NEW o \in Clients, NEW x \in visited[o]
        PROVE  /\ x <= Len(history')
               /\ x # 0 => o \in history'[x].members
    <3>1. x \in Nat /\ x <= Len(history) /\ (x # 0 => o \in history[x].members)
      BY Zenon, <2>1 DEF IInv, VisitsOK
    <3> QED BY SMTT(30), <1>4, <3>1
  <2>3. ASSUME NEW o \in Clients, NEW x \in welcomed[o], x > 1
        PROVE  o \notin history'[x - 1].members
    <3>1. x \in Nat /\ x <= Len(history) /\ o \notin history[x - 1].members
      BY Zenon, <2>1, <2>3 DEF IInv, VisitsOK
    <3> QED BY <1>4, <2>3, <3>1
  <2> QED BY Zenon, <1>2, <2>2, <2>3 DEF IInv, VisitsOK
<1> QED BY Zenon, <1>5, <1>6, <1>7 DEF IInv

\* A client that leaves forgets where it was, not where it has been.
LEMMA LeaveInv ==
    ASSUME IInv, NEW c \in Clients, LeaveGroup(c)
    PROVE  IInv'
<1>1. /\ view' = [view EXCEPT ![c] = None]
      /\ UNCHANGED <<history, welcomed, visited, ratchets, relay, worker, lost, past>>
  BY Zenon DEF LeaveGroup, Leave
<1>2. /\ view' \in [Clients -> GroupState \cup {None}] /\ view'[c] = None
      /\ \A o \in Clients \ {c} : view'[o] = view[o]
  BY Zenon, <1>1 DEF IInv, HistoryOK
<1>3. TypeOK' /\ VisitsOK'
  BY Zenon, <1>1 DEF IInv, TypeOK, VisitsOK, ratchets, relay, past
<1>4. HistoryOK'
  BY Zenon, <1>1, <1>2 DEF IInv, HistoryOK
<1>5. SentOK'
  <2>1. \A m \in sent : m.from \in Clients
    BY Zenon, MessageKey DEF IInv, TypeOK
  <2> QED BY Zenon, <1>1, <1>2, <2>1 DEF IInv, SentOK, ratchets, past
<1>6. OpenedOK'
  BY <1>1, <1>2 DEF IInv, OpenedOK, Exact, ratchets, past
<1> QED BY Zenon, <1>3, <1>4, <1>5, <1>6 DEF IInv

-----------------------------------------------------------------------------
(* The steps of the workers and of the relay keep it.                      *)

\* A client that posts is in the group, because its worker does one command at
\* a time.
PostersInGroup ==
    \A c \in Clients : worker[c].pc \in {"post", "posting"} => view[c] # None
-----------------------------------------------------------------------------
(* Commands of a worker, and queues.                                       *)

\* The forms of a command.
LEMMA WorkerForms ==
    ASSUME NEW m \in Message, NEW id \in Nat
    PROVE  /\ Idle \in Worker /\ Post(m) \in Worker /\ Posting(m, id) \in Worker
           /\ Acking(m, id, "received") \in Worker
           /\ Acking(m, id, "duplicate") \in Worker
  BY Zenon DEF Worker, Idle, Post, Posting, Acking

\* The fields of an acknowledgement.
LEMMA AckingFields ==
    ASSUME NEW w, NEW m, NEW id,
           \/ w = Acking(m, id, "duplicate")
           \/ w = Acking(m, id, "received")
    PROVE  /\ w.pc = "acking" /\ w.msg = m
           /\ w.answer = "received" => w # Acking(m, id, "duplicate")
  BY DEF Acking

\* A worker that posts has a message.
LEMMA WorkerFields ==
    ASSUME NEW w \in Worker
    PROVE  w.pc \in {"post", "posting"} => w.msg \in Message
<1>1. CASE w \in [pc : {"idle"}]
  BY Zenon, <1>1
<1>2. CASE w \in [pc : {"post"}, msg : Message]
  BY Zenon, <1>2
<1>3. CASE w \in [pc : {"posting"}, msg : Message, id : Nat]
  BY Zenon, <1>3
<1>4. CASE w \in [pc : {"acking"}, msg : Message, id : Nat,
                  answer : {"received", "duplicate"}]
  BY Zenon, <1>4
<1> QED BY Zenon, <1>1, <1>2, <1>3, <1>4 DEF Worker

\* What is left of a queue of envelopes is one.
LEMMA RetainedType ==
    ASSUME NEW S, NEW q \in Seq(S), NEW id
    PROVE  Retained(q, id) \in Seq(S)
<1> DEFINE found == {i \in 1..Len(q) : q[i].id = id}
           i == CHOOSE i \in found : TRUE
<1>1. CASE found = {}
  BY Zenon, <1>1 DEF Retained
<1>2. CASE found # {}
  <2>1. i \in 1..Len(q)
    BY Zenon, <1>2
  <2>2. Retained(q, id) = SubSeq(q, 1, i - 1) \o SubSeq(q, i + 1, Len(q))
    BY ZenonT(30), <1>2 DEF Retained
  <2> HIDE DEF i
  <2> QED BY <2>1, <2>2
<1> QED BY Zenon, <1>1, <1>2
-----------------------------------------------------------------------------
(* Steps of workers and relay.                                             *)

\* Steps that touch neither group nor ratchets only have to keep the types.
LEMMA RelayStep ==
    ASSUME IInv, TypeOK', UNCHANGED <<group, ratchets, past>>
    PROVE  IInv'
<1>1. UNCHANGED <<history, view, welcomed, visited, enc, dec, sent, opened>>
  BY Zenon DEF group, ratchets, past
<1>2. HistoryOK'
  BY Zenon, <1>1 DEF IInv, HistoryOK
<1>3. VisitsOK'
  BY Zenon, <1>1 DEF IInv, VisitsOK
<1>4. SentOK'
  BY Zenon, <1>1 DEF IInv, SentOK
<1>5. OpenedOK'
  BY Zenon, <1>1 DEF IInv, OpenedOK, Exact
<1> QED BY Zenon, <1>2, <1>3, <1>4, <1>5 DEF IInv

\* A message takes the ratchet's generation, and the ratchet moves past it.
LEMMA EncryptInv ==
    ASSUME IInv, NEW c \in Clients, Encrypt(c)
    PROVE  /\ IInv'
           /\ \A m \in sent :
                m # [from |-> c, epoch |-> view[c].epoch, gen |-> enc[c]]
<1> DEFINE m == [from |-> c, epoch |-> view[c].epoch, gen |-> enc[c]]
<1>1. /\ view[c] # None /\ enc' = [enc EXCEPT ![c] = @ + 1]
      /\ sent' = sent \cup {m} /\ worker' = [worker EXCEPT ![c] = Post(m)]
      /\ UNCHANGED <<history, view, welcomed, visited, dec, inboxes, next_message_id,
                     running, acks, lost, opened>>
  BY Zenon DEF Encrypt, NextGeneration, group, relay
<1>2. /\ view[c].epoch \in Nat /\ view[c].epoch \in visited[c] /\ enc[c] \in Nat
      /\ m \in Message /\ m.from = c /\ m.epoch = view[c].epoch /\ m.gen = enc[c]
  BY Zenon, <1>1 DEF IInv, HistoryOK, GroupState, TypeOK, Message
<1>3. ASSUME NEW x \in sent PROVE x # m
  BY SMTT(30), <1>1, <1>2 DEF IInv, SentOK
<1> HIDE DEF m
<1>4. TypeOK'
  <2>1. Post(m) \in Worker
    BY Zenon, <1>2, WorkerForms
  <2> QED BY SMTT(30), <1>1, <1>2, <2>1 DEF IInv, TypeOK
<1>5. HistoryOK' /\ VisitsOK'
  BY Zenon, <1>1 DEF IInv, HistoryOK, VisitsOK
<1>6. OpenedOK'
  BY Zenon, <1>1 DEF IInv, OpenedOK, Exact
<1>7. SentOK'
  <2> SUFFICES ASSUME NEW x \in sent \cup {m}
               PROVE  /\ x.epoch \in visited[x.from]
                      /\ view[x.from] # None /\ x.epoch = view[x.from].epoch
                           => x.gen < enc'[x.from]
    BY Zenon, <1>1 DEF SentOK
  <2>1. /\ enc'[c] = enc[c] + 1 /\ \A o \in Clients \ {c} : enc'[o] = enc[o]
    BY Zenon, <1>1 DEF IInv, TypeOK
  <2>2. CASE x = m
    BY SMTT(30), <1>2, <2>1, <2>2
  <2>3. CASE x \in sent
    <3>1. x.from \in Clients /\ x.gen \in Nat
      BY Zenon, <2>3, MessageKey DEF IInv, TypeOK
    <3> QED BY <1>2, <2>1, <2>3, <3>1 DEF IInv, SentOK
  <2> QED BY Zenon, <2>2, <2>3
<1> QED BY Zenon, <1>3, <1>4, <1>5, <1>6, <1>7 DEF IInv, m

\* A message that is opened is of the present epoch and was not opened before.
LEMMA ReceiveInv ==
    ASSUME IInv, NEW c \in Clients, ReceiveApplicationMessage(c)
    PROVE  /\ IInv'
           /\ \E m \in Message, id \in Nat :
                \/ worker'[c] = Acking(m, id, "duplicate")
                \/ worker'[c] = Acking(m, id, "received") /\ m \notin opened[c]
<1> DEFINE e == PendingMessage(c)
           m == e.msg
           d == dec[c][m.from]
<1>1. /\ inboxes[c] # <<>> /\ view[c] # None
      /\ acks' = acks \cup {[to |-> c, id |-> e.id]}
      /\ UNCHANGED <<history, view, welcomed, visited, enc, inboxes, next_message_id,
                     running, lost, sent>>
  BY Zenon DEF ReceiveApplicationMessage, group
<1>2. e \in Envelope
  <2>1. inboxes[c] \in Seq(Envelope)
    BY Zenon DEF IInv, TypeOK
  <2> QED BY <1>1, <2>1 DEF PendingMessage
<1> HIDE DEF e
<1>3. m \in Message /\ e.id \in Nat /\ [to |-> c, id |-> e.id] \in [to : Clients, id : Nat]
  BY Zenon, <1>2 DEF Envelope
<1>4. /\ Acking(m, e.id, "received") \in Worker
      /\ Acking(m, e.id, "duplicate") \in Worker
  BY Zenon, <1>3, WorkerForms
<1>5. m.from \in Clients /\ m.epoch \in Nat /\ m.gen \in Nat
  BY Zenon, <1>3, MessageKey
<1>6. CASE /\ worker' = [worker EXCEPT ![c] = Acking(m, e.id, "duplicate")]
           /\ UNCHANGED <<dec, opened>>
  <2>1. TypeOK'
    BY Zenon, <1>1, <1>3, <1>4, <1>6 DEF IInv, TypeOK
  <2>2. UNCHANGED <<group, ratchets, past>>
    BY Zenon, <1>1, <1>6 DEF group, ratchets, past
  <2>3. IInv'
    BY Zenon, <2>1, <2>2, RelayStep
  <2>4. worker'[c] = Acking(m, e.id, "duplicate")
    BY Zenon, <1>6 DEF IInv, TypeOK
  <2> QED BY Zenon, <1>3, <2>3, <2>4
<1>7. CASE /\ ProcessMessage(c, m) = "Ok"
           /\ dec' = [dec EXCEPT ![c][m.from] = AfterSecretFor(d, m.gen)]
           /\ opened' = [opened EXCEPT ![c] = @ \cup {m}]
           /\ worker' = [worker EXCEPT ![c] = Acking(m, e.id, "received")]
  <2>1. view[c].epoch \in Nat /\ view[c].epoch \in visited[c]
    BY Zenon, <1>1 DEF IInv, HistoryOK, GroupState
  <2>2. m.epoch = view[c].epoch /\ SecretFor(d, m.gen) = "Ok"
    BY SMTT(30), <1>5, <1>7, <2>1 DEF ProcessMessage, WrongEpoch, NoMessageSecrets
  <2>3. /\ d \in Ratchet /\ opened[c] \in SUBSET Message
        /\ dec \in [Clients -> [Clients -> Ratchet]]
        /\ opened \in [Clients -> SUBSET Message]
    BY Zenon, <1>5 DEF IInv, TypeOK
  <2>4. \A s \in Clients : Exact(dec[c][s], s, view[c].epoch, opened[c])
    BY Zenon, <1>1 DEF IInv, OpenedOK
  <2>5. /\ m \notin opened[c]
        /\ AfterSecretFor(d, m.gen) \in Ratchet
        /\ Exact(AfterSecretFor(d, m.gen), m.from, view[c].epoch, opened[c] \cup {m})
    <3>1. Exact(d, m.from, view[c].epoch, opened[c])
      BY Zenon, <1>5, <2>4
    <3> HIDE DEF d, m
    <3> QED BY ZenonT(30), <1>3, <1>5, <2>1, <2>2, <2>3, <3>1, ExactOpen
  <2> DEFINE r == AfterSecretFor(d, m.gen)
  <2> HIDE DEF r
  <2>6. /\ dec' \in [Clients -> [Clients -> Ratchet]]
        /\ dec'[c][m.from] = r
        /\ \A s \in Clients \ {m.from} : dec'[c][s] = dec[c][s]
        /\ \A o \in Clients \ {c} : dec'[o] = dec[o]
    <3>1. r \in Ratchet /\ dec' = [dec EXCEPT ![c][m.from] = r]
      BY Zenon, <1>7, <2>5 DEF r
    <3> HIDE DEF m
    <3> QED BY Zenon, <1>5, <2>3, <3>1
  <2>7. /\ opened' \in [Clients -> SUBSET Message]
        /\ opened'[c] = opened[c] \cup {m}
        /\ \A o \in Clients \ {c} : opened'[o] = opened[o]
    BY Zenon, <1>3, <1>7, <2>3
  <2>8. TypeOK'
    BY Zenon, <1>1, <1>3, <1>4, <1>7, <2>6, <2>7 DEF IInv, TypeOK
  <2>9. HistoryOK' /\ VisitsOK' /\ SentOK'
    BY Zenon, <1>1 DEF IInv, HistoryOK, VisitsOK, SentOK
  <2>10. OpenedOK'
    <3>1. \A s \in Clients : Exact(dec'[c][s], s, view[c].epoch, opened'[c])
      <4> SUFFICES ASSUME NEW s \in Clients
                   PROVE  Exact(dec'[c][s], s, view[c].epoch, opened[c] \cup {m})
        BY Zenon, <2>7
      <4>1. CASE s = m.from
        BY Zenon, <2>5, <2>6, <4>1 DEF r
      <4>2. CASE s # m.from
        <5>1. dec[c][s] \in Ratchet /\ dec'[c][s] = dec[c][s]
          BY Zenon, <2>3, <2>6, <4>2
        <5> QED BY ZenonT(30), <1>3, <2>1, <2>3, <2>4, <4>2, <5>1, ExactOther
      <4> QED BY Zenon, <4>1, <4>2
    <3>2. \A x \in opened'[c] : x.epoch \in visited[c]
      BY Zenon, <2>1, <2>2, <2>7 DEF IInv, OpenedOK
    <3>3. ASSUME NEW o \in Clients \ {c}
          PROVE  /\ \A x \in opened'[o] : x.epoch \in visited[o]
                 /\ view[o] # None =>
                      \A s \in Clients : Exact(dec'[o][s], s, view[o].epoch, opened'[o])
      BY Zenon, <2>6, <2>7 DEF IInv, OpenedOK
    <3> QED BY Zenon, <1>1, <3>1, <3>2, <3>3 DEF OpenedOK
  <2>11. worker'[c] = Acking(m, e.id, "received")
    BY Zenon, <1>7 DEF IInv, TypeOK
  <2> QED BY Zenon, <1>3, <2>5, <2>8, <2>9, <2>10, <2>11 DEF IInv
<1> QED BY Zenon, <1>6, <1>7 DEF ReceiveApplicationMessage, e

\* The other steps keep the types.
LEMMA QuietInv ==
    ASSUME IInv, PostersInGroup, NEW c \in Clients,
           PostMessage(c) \/ PostAnswered(c) \/ PostUnanswered(c)
             \/ AckAnswered(c) \/ AckUnanswered(c)
    PROVE  IInv'
<1>1. worker \in [Clients -> Worker] /\ next_message_id \in Nat /\ lost \in 0..MaxLost
      /\ running \subseteq Envelope /\ acks \subseteq [to : Clients, id : Nat]
  BY Zenon DEF IInv, TypeOK
<1>2. worker[c].pc \in {"post", "posting"} => worker[c].msg \in Message
  BY Zenon, <1>1, WorkerFields
<1>3. Idle \in Worker
  BY Zenon DEF Idle, Worker
<1>4. CASE PostMessage(c)
  <2> DEFINE m == worker[c].msg
             recipients == view[c].members \ {c}
  <2>1. m \in Message /\ Posting(m, next_message_id) \in Worker
    BY Zenon, <1>1, <1>2, <1>4, WorkerForms DEF PostMessage
  <2>2. UNCHANGED <<group, ratchets, inboxes, acks, lost, past>>
    BY Zenon, <1>4 DEF PostMessage
  <2>3. CASE recipients = {}
    <3>1. worker' = [worker EXCEPT ![c] = Idle] /\ UNCHANGED <<next_message_id, running>>
      BY Zenon, <1>4, <2>3 DEF PostMessage
    <3>2. TypeOK'
      BY Zenon, <1>3, <2>2, <3>1 DEF IInv, TypeOK, group, ratchets, past
    <3> QED BY Zenon, <2>2, <3>2, RelayStep
  <2>4. CASE recipients # {}
    <3>1. /\ next_message_id' = next_message_id + 1
          /\ running' = running \cup [id : {next_message_id}, to : recipients, msg : {m}]
          /\ worker' = [worker EXCEPT ![c] = Posting(m, next_message_id)]
      BY Zenon, <1>4, <2>4 DEF PostMessage
    <3>2. recipients \subseteq Clients
      <4>1. view[c] # None
        BY Zenon, <1>4 DEF PostMessage, PostersInGroup
      <4> QED BY Zenon, <4>1 DEF IInv, HistoryOK, GroupState
    <3>3. [id : {next_message_id}, to : recipients, msg : {m}] \subseteq Envelope
      BY Zenon, <1>1, <2>1, <3>2 DEF Envelope
    <3>4. TypeOK'
      BY SMTT(30), <1>1, <2>1, <2>2, <3>1, <3>3 DEF IInv, TypeOK, group, ratchets, past
    <3> QED BY Zenon, <2>2, <3>4, RelayStep
  <2> QED BY Zenon, <2>3, <2>4
<1>5. CASE PostAnswered(c) \/ AckAnswered(c)
  <2>1. /\ worker' = [worker EXCEPT ![c] = Idle]
        /\ UNCHANGED <<group, ratchets, relay, lost, past>>
    BY Zenon, <1>5 DEF PostAnswered, AckAnswered
  <2>2. TypeOK'
    BY Zenon, <1>3, <2>1 DEF IInv, TypeOK, group, ratchets, relay, past
  <2> QED BY Zenon, <2>1, <2>2, RelayStep
<1>6. CASE PostUnanswered(c)
  <2>1. /\ lost < MaxLost /\ lost' = lost + 1 /\ worker[c].msg \in Message
        /\ \/ worker' = [worker EXCEPT ![c] = Post(worker[c].msg)]
           \/ worker' = [worker EXCEPT ![c] = Idle]
        /\ UNCHANGED <<group, ratchets, relay, past>>
    BY Zenon, <1>2, <1>6 DEF PostUnanswered
  <2>2. Post(worker[c].msg) \in Worker /\ lost' \in 0..MaxLost
    <3>1. Post(worker[c].msg) \in Worker
      BY Zenon, <2>1 DEF Post, Worker
    <3> QED BY SMTT(30), <1>1, <2>1, <3>1, LimitsAssumption
  <2>3. worker' \in [Clients -> Worker]
    BY Zenon, <1>1, <1>3, <2>1, <2>2
  <2>4. TypeOK'
    BY Zenon, <2>1, <2>2, <2>3 DEF IInv, TypeOK, group, ratchets, relay, past
  <2> QED BY Zenon, <2>1, <2>4, RelayStep
<1>7. CASE AckUnanswered(c)
  <2>1. /\ lost' \in 0..MaxLost /\ worker' = [worker EXCEPT ![c] = Idle]
        /\ acks' \subseteq acks
        /\ UNCHANGED <<group, ratchets, inboxes, next_message_id, running, past>>
    BY SMTT(30), <1>1, <1>7, LimitsAssumption DEF AckUnanswered
  <2>2. TypeOK'
    BY Zenon, <1>1, <1>3, <2>1 DEF IInv, TypeOK, group, ratchets, past
  <2> QED BY Zenon, <2>1, <2>2, RelayStep
<1> QED BY Zenon, <1>4, <1>5, <1>6, <1>7

\* Requests at the relay.
LEMMA RelayInv ==
    ASSUME IInv,
           (\E e \in running : Push(e)) \/ (\E a \in acks : Ack(a))
    PROVE  IInv'
<1>1. /\ inboxes \in [Clients -> Seq(Envelope)] /\ running \subseteq Envelope
      /\ acks \subseteq [to : Clients, id : Nat]
  BY Zenon DEF IInv, TypeOK
<1>2. ASSUME NEW e \in running, Push(e) PROVE IInv'
  <2>1. e \in Envelope /\ e.to \in Clients
    BY Zenon, <1>1 DEF Envelope
  <2>2. /\ running' \subseteq running
        /\ inboxes' = [inboxes EXCEPT ![e.to] = Append(@, e)]
        /\ UNCHANGED <<group, ratchets, next_message_id, acks, worker, lost, past>>
    BY Zenon, <1>2 DEF Push
  <2>3. inboxes' \in [Clients -> Seq(Envelope)]
    BY SMTT(30), <1>1, <2>1, <2>2
  <2>4. TypeOK'
    BY Zenon, <1>1, <2>2, <2>3 DEF IInv, TypeOK, group, ratchets, past
  <2> QED BY Zenon, <2>2, <2>4, RelayStep
<1>3. ASSUME NEW a \in acks, Ack(a) PROVE IInv'
  <2>1. a.to \in Clients
    BY Zenon, <1>1
  <2>2. /\ acks' \subseteq acks
        /\ inboxes' = [inboxes EXCEPT ![a.to] = Retained(@, a.id)]
        /\ UNCHANGED <<group, ratchets, next_message_id, running, worker, lost, past>>
    BY Zenon, <1>3 DEF Ack
  <2>3. Retained(inboxes[a.to], a.id) \in Seq(Envelope)
    BY Zenon, <1>1, <2>1, RetainedType
  <2>4. inboxes' \in [Clients -> Seq(Envelope)]
    BY Zenon, <1>1, <2>1, <2>2, <2>3
  <2>5. TypeOK'
    BY Zenon, <1>1, <2>2, <2>4 DEF IInv, TypeOK, group, ratchets, past
  <2> QED BY Zenon, <2>2, <2>5, RelayStep
<1> QED BY Zenon, <1>2, <1>3

-----------------------------------------------------------------------------
(* The theorems.                                                           *)

\* Every step keeps the invariant.
LEMMA NextInv == IInv /\ PostersInGroup /\ [Next]_vars => IInv'
<1> SUFFICES ASSUME IInv, PostersInGroup, [Next]_vars PROVE IInv'
  OBVIOUS
<1>1. ASSUME NEW c \in Clients, GroupStep(c) PROVE IInv'
  BY Zenon, <1>1, CreateGroupInv, MergeCommitInv, JoinInv, CommitInv, LeaveInv DEF GroupStep
<1>2. ASSUME NEW c \in Clients, WorkerStep(c) PROVE IInv'
  BY Zenon, <1>2, EncryptInv, ReceiveInv, QuietInv DEF WorkerStep
<1>3. CASE UNCHANGED vars
  <2>1. TypeOK' /\ UNCHANGED <<group, ratchets, past>>
    BY Zenon, <1>3 DEF IInv, TypeOK, vars, group, ratchets, relay, past
  <2> QED BY Zenon, <2>1, RelayStep
<1> QED BY Zenon, <1>1, <1>2, <1>3, RelayInv DEF Next

\* The group moves a client only between two of its commands.
LEMMA PostersStay == IInv /\ PostersInGroup /\ [Next]_vars => PostersInGroup'
<1> SUFFICES ASSUME IInv, PostersInGroup, [Next]_vars PROVE PostersInGroup'
  BY Zenon
<1>0. /\ worker \in [Clients -> Worker] /\ view \in [Clients -> GroupState \cup {None}]
      /\ Idle.pc = "idle"
  BY Zenon DEF IInv, TypeOK, HistoryOK, Idle
<1>1. ASSUME NEW c \in Clients, GroupStep(c) PROVE PostersInGroup'
  <2>1. worker[c] = Idle /\ UNCHANGED worker
    BY Zenon, <1>1 DEF GroupStep, CreateGroup, CommitAccepted, MergeCommit, JoinFromWelcome, LeaveGroup
  <2>2. UNCHANGED view \/ \E st : view' = [view EXCEPT ![c] = st]
    BY Zenon, <1>1 DEF GroupStep, CreateGroup, CommitAccepted, MergeCommit, JoinFromWelcome,
                LeaveGroup, Extend, Advance, Enter, Leave
  <2> QED BY Zenon, <1>0, <2>1, <2>2 DEF PostersInGroup
<1>2. ASSUME NEW c \in Clients, WorkerStep(c) PROVE PostersInGroup'
  <2>1. UNCHANGED view
    BY Zenon, <1>2 DEF WorkerStep, Encrypt, PostMessage, PostAnswered, PostUnanswered, group,
                ReceiveApplicationMessage, AckAnswered, AckUnanswered
  <2>2. \A o \in Clients \ {c} : worker'[o] = worker[o]
    BY Zenon, <1>0, <1>2 DEF WorkerStep, Encrypt, PostMessage, PostAnswered, PostUnanswered,
                      ReceiveApplicationMessage, AckAnswered, AckUnanswered
  <2>3. worker'[c].pc \in {"post", "posting"} => view[c] # None
    <3>1. CASE Encrypt(c) \/ ReceiveApplicationMessage(c)
      BY Zenon, <3>1 DEF Encrypt, ReceiveApplicationMessage
    <3>2. CASE PostMessage(c) \/ PostUnanswered(c)
      BY Zenon, <3>2 DEF PostMessage, PostUnanswered, PostersInGroup
    <3>3. CASE PostAnswered(c) \/ AckAnswered(c) \/ AckUnanswered(c)
      BY Zenon, <1>0, <3>3 DEF PostAnswered, AckAnswered, AckUnanswered
    <3> QED BY Zenon, <1>2, <3>1, <3>2, <3>3 DEF WorkerStep
  <2> QED BY Zenon, <2>1, <2>2, <2>3 DEF PostersInGroup
<1>3. ASSUME NEW e \in running, Push(e) PROVE PostersInGroup'
  BY Zenon, <1>3 DEF Push, PostersInGroup, group
<1>4. ASSUME NEW a \in acks, Ack(a) PROVE PostersInGroup'
  BY Zenon, <1>4 DEF Ack, PostersInGroup, group
<1>5. CASE UNCHANGED vars
  BY Zenon, <1>5 DEF vars, PostersInGroup, group
<1> QED BY Zenon, <1>1, <1>2, <1>3, <1>4, <1>5 DEF Next

\* No client gets into an epoch twice, the keys that were used are behind the
\* encryption ratchet, and the decryption ratchets mirror what was opened.
THEOREM IInvHolds == Spec => []IInv
<1>1. Init => IInv
  <2> SUFFICES ASSUME Init PROVE IInv
    OBVIOUS
  <2>1. /\ history = <<>> /\ view = [c \in Clients |-> None]
        /\ visited = [c \in Clients |-> {}] /\ welcomed = [c \in Clients |-> {}]
        /\ sent = {} /\ opened = [c \in Clients |-> {}]
    BY Zenon DEF Init, HistoryInit
  <2>2. TypeOK
    <3>1. NewRatchet \in Ratchet
      BY DEF NewRatchet, Ratchet
    <3>2. Idle \in Worker
      BY Zenon DEF Idle, Worker
    <3> QED BY <3>1, <3>2, LimitsAssumption DEF Init, TypeOK
  <2>3. HistoryOK
    BY SMTT(30), <2>1 DEF HistoryOK
  <2>4. VisitsOK /\ SentOK /\ OpenedOK
    BY Zenon, <2>1 DEF VisitsOK, SentOK, OpenedOK
  <2> QED BY Zenon, <2>2, <2>3, <2>4 DEF IInv
<1>2. Init => PostersInGroup
  BY DEF Init, PostersInGroup, Idle
<1> QED BY <1>1, <1>2, NextInv, PostersStay, PTL DEF Spec

\* The variables keep their types.
THEOREM TypeCorrect == Spec => []TypeOK
<1>1. IInv => TypeOK
  BY Zenon DEF IInv
<1> QED BY <1>1, IInvHolds, PTL

\* The past secrets of sender_ratchet.rs mirror what was opened, for every
\* tolerance and forward distance.
THEOREM WindowExactHolds == Spec => []WindowExact
<1>1. IInv => WindowExact
  <2> SUFFICES ASSUME IInv, NEW c \in Clients, view[c] # None, NEW s \in Clients
               PROVE  LET d == dec[c][s] IN
                      /\ Len(d.past_secrets) = IF d.head < Tolerance THEN d.head ELSE Tolerance
                      /\ \A i \in DOMAIN d.past_secrets :
                           d.past_secrets[i] <=>
                              [from |-> s, epoch |-> view[c].epoch, gen |-> d.head - i]
                                 \notin opened[c]
    BY Zenon DEF WindowExact
  <2>1. Exact(dec[c][s], s, view[c].epoch, opened[c])
    BY Zenon DEF IInv, OpenedOK
  <2>2. dec[c][s].past_secrets \in Seq(BOOLEAN)
    BY Zenon DEF IInv, TypeOK, Ratchet
  <2>3. DOMAIN dec[c][s].past_secrets = 1..Len(dec[c][s].past_secrets)
    BY SMTT(30), <2>2
  <2> QED BY Zenon, <2>1, <2>3 DEF Exact, Pruned
<1> QED BY <1>1, IInvHolds, PTL

\* The error that leaves a message of the present epoch in front of an inbox
\* can only come from a copy: IndexOutOfBounds never happens, and
\* SecretReuseError means that the message was opened.
THEOREM OnlyCopiesBlockHolds == Spec => []OnlyCopiesBlock
<1>1. IInv => OnlyCopiesBlock
  <2> SUFFICES ASSUME IInv, NEW c \in Clients, view[c] # None, inboxes[c] # <<>>,
                      NEW m, m = Head(inboxes[c]).msg,
                      ProcessMessage(c, m) # "Ok", ~LooksLikeDuplicate(ProcessMessage(c, m)),
                      ~(m.epoch > view[c].epoch)
               PROVE  m \in opened[c]
    BY Zenon DEF OnlyCopiesBlock
  <2>1. m \in Message
    <3>1. inboxes[c] \in Seq(Envelope)
      BY Zenon DEF IInv, TypeOK
    <3>2. Head(inboxes[c]) \in Envelope
      BY SMTT(30), <3>1
    <3> QED BY Zenon, <3>2 DEF Envelope
  <2> DEFINE d == dec[c][m.from]
             i == d.head - m.gen
  <2>2. m.from \in Clients /\ m.epoch \in Nat /\ m.gen \in Nat
        /\ m = [from |-> m.from, epoch |-> m.epoch, gen |-> m.gen]
    BY Zenon, <2>1, MessageKey
  <2>3. d \in Ratchet /\ view[c].epoch \in Nat
    BY SMTT(30), <2>2 DEF IInv, TypeOK, HistoryOK, GroupState
  <2>4. m.epoch = view[c].epoch /\ ProcessMessage(c, m) = SecretFor(d, m.gen)
    <3>1. ~WrongEpoch(c, m)
      BY Zenon DEF WrongEpoch
    <3>2. ~NoMessageSecrets(c, m)
      BY Zenon, <3>1 DEF ProcessMessage, LooksLikeDuplicate
    <3>3. m.epoch = view[c].epoch
      BY SMTT(30), <2>2, <2>3, <3>2 DEF NoMessageSecrets
    <3> QED BY Zenon, <3>1, <3>2, <3>3 DEF ProcessMessage
  <2>5. Exact(d, m.from, m.epoch, opened[c])
    BY ZenonT(30), <2>2, <2>4 DEF IInv, OpenedOK
  <2> HIDE DEF d
  <2>6. d.head \in Nat /\ d.past_secrets \in Seq(BOOLEAN)
    BY Zenon, <2>3 DEF Ratchet
  <2>7. i \in Nat /\ i >= 1 /\ i <= Tolerance /\ i <= d.head
    BY SMTT(30), <2>2, <2>4, <2>6, WindowAssumption DEF SecretFor, LooksLikeDuplicate
  <2>8. i \in 1..Len(d.past_secrets)
    BY SMTT(30), <2>5, <2>6, <2>7, WindowAssumption DEF Exact, Pruned
  <2>9. ~d.past_secrets[i]
    BY SMTT(30), <2>2, <2>4, <2>6, <2>8, WindowAssumption DEF SecretFor, LooksLikeDuplicate
  <2>10. d.head - i = m.gen
    BY SMTT(30), <2>2, <2>6
  <2> QED BY Zenon, <2>2, <2>5, <2>8, <2>9, <2>10 DEF Exact
<1> QED BY <1>1, IInvHolds, PTL

\* A worker leaves idle only to post what it encrypted or to acknowledge what
\* it received.
LEMMA LeavesIdle ==
    ASSUME IInv, [Next]_vars, NEW c \in Clients, worker[c] = Idle, worker'[c] # Idle
    PROVE  Encrypt(c) \/ ReceiveApplicationMessage(c)
<1>0. worker \in [Clients -> Worker] /\ Idle.pc = "idle"
  BY Zenon DEF IInv, TypeOK, Idle
<1>1. ASSUME NEW o \in Clients, GroupStep(o) PROVE FALSE
  BY Zenon, <1>1 DEF GroupStep, CreateGroup, CommitAccepted, MergeCommit, JoinFromWelcome, LeaveGroup
<1>2. ASSUME NEW o \in Clients, WorkerStep(o)
      PROVE  Encrypt(c) \/ ReceiveApplicationMessage(c)
  <2>1. \E w : worker' = [worker EXCEPT ![o] = w]
    BY Zenon, <1>2 DEF WorkerStep, Encrypt, PostMessage, PostAnswered, PostUnanswered,
                ReceiveApplicationMessage, AckAnswered, AckUnanswered
  <2>2. o = c
    BY Zenon, <1>0, <2>1
  <2> QED BY Zenon, <1>0, <1>2, <2>2 DEF WorkerStep, PostMessage, PostAnswered, PostUnanswered,
                                  AckAnswered, AckUnanswered
<1>3. ASSUME NEW e \in running, Push(e) PROVE FALSE
  BY Zenon, <1>3 DEF Push
<1>4. ASSUME NEW a \in acks, Ack(a) PROVE FALSE
  BY Zenon, <1>4 DEF Ack
<1>5. CASE UNCHANGED vars
  BY Zenon, <1>5 DEF vars
<1> QED BY Zenon, <1>1, <1>2, <1>3, <1>4, <1>5 DEF Next

\* send_application_message never uses a key a second time, whatever happens
\* to the posts and however often the client is removed and welcomed again.
THEOREM KeyUsedOnceHolds == Spec => KeyUsedOnce
<1>1. ASSUME IInv, [Next]_vars, NEW c \in Clients,
             worker[c] = Idle, worker'[c].pc = "post"
      PROVE  worker'[c].msg \notin sent
  <2>0. worker \in [Clients -> Worker] /\ Idle.pc = "idle"
    BY Zenon, <1>1 DEF IInv, TypeOK, Idle
  <2>1. Encrypt(c) \/ ReceiveApplicationMessage(c)
    <3>1. worker'[c] # Idle
      BY Zenon, <1>1, <2>0
    <3> QED BY ZenonT(30), <1>1, <3>1, LeavesIdle
  <2>2. CASE Encrypt(c)
    <3>1. worker'[c] = Post([from |-> c, epoch |-> view[c].epoch, gen |-> enc[c]])
      BY Zenon, <2>0, <2>2 DEF Encrypt
    <3>2. worker'[c].msg = [from |-> c, epoch |-> view[c].epoch, gen |-> enc[c]]
      BY <3>1 DEF Post
    <3> QED BY Zenon, <1>1, <2>2, <3>2, EncryptInv
  <2>3. CASE ReceiveApplicationMessage(c)
    <3> DEFINE w == worker'[c]
    <3>1. PICK m \in Message, id \in Nat :
             \/ w = Acking(m, id, "duplicate")
             \/ w = Acking(m, id, "received")
      BY Zenon, <1>1, <2>3, ReceiveInv
    <3>2. w.pc = "acking"
      <4> HIDE DEF w
      <4> QED BY Zenon, <3>1, AckingFields
    <3> QED BY Zenon, <1>1, <3>2
  <2> QED BY Zenon, <2>1, <2>2, <2>3
<1>2. IInv /\ [Next]_vars =>
        [\A c \in Clients :
            worker[c] = Idle /\ worker'[c].pc = "post" => worker'[c].msg \notin sent]_vars
  BY Zenon, <1>1
<1> QED BY <1>2, IInvHolds, PTL DEF Spec, KeyUsedOnce

\* receive_application_delivery never hands a message to the application a
\* second time, whatever is repeated, lost or late.
THEOREM OpenedOnceHolds == Spec => OpenedOnce
<1>1. ASSUME IInv, [Next]_vars, NEW c \in Clients,
             worker[c] = Idle, worker'[c].pc = "acking", worker'[c].answer = "received"
      PROVE  worker'[c].msg \notin opened[c]
  <2>0. worker \in [Clients -> Worker] /\ Idle.pc = "idle"
    BY Zenon, <1>1 DEF IInv, TypeOK, Idle
  <2>1. Encrypt(c) \/ ReceiveApplicationMessage(c)
    <3>1. worker'[c] # Idle
      BY Zenon, <1>1, <2>0
    <3> QED BY ZenonT(30), <1>1, <3>1, LeavesIdle
  <2>2. CASE Encrypt(c)
    BY Zenon, <1>1, <2>0, <2>2 DEF Encrypt, Post
  <2>3. CASE ReceiveApplicationMessage(c)
    <3> DEFINE w == worker'[c]
    <3>1. PICK m \in Message, id \in Nat :
             \/ w = Acking(m, id, "duplicate")
             \/ w = Acking(m, id, "received") /\ m \notin opened[c]
      BY Zenon, <1>1, <2>3, ReceiveInv
    <3>2. w.answer = "received"
      BY Zenon, <1>1
    <3>3. w.msg = m /\ w # Acking(m, id, "duplicate")
      <4> HIDE DEF w
      <4> QED BY Zenon, <3>1, <3>2, AckingFields
    <3> QED BY Zenon, <3>1, <3>3
  <2> QED BY Zenon, <2>1, <2>2, <2>3
<1>2. IInv /\ [Next]_vars =>
        [\A c \in Clients :
            /\ worker[c] = Idle
            /\ worker'[c].pc = "acking"
            /\ worker'[c].answer = "received"
            => worker'[c].msg \notin opened[c]]_vars
  BY Zenon, <1>1
<1> QED BY <1>2, IInvHolds, PTL DEF Spec, OpenedOnce
=============================================================================
