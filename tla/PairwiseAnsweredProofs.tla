----------------------- MODULE PairwiseAnsweredProofs -----------------------
(***************************************************************************)
(* What pairwise sessions gain when every request is answered: no first    *)
(* message fails to open, and no session is half-open, for every number of *)
(* participants, every setting and every choice of dropped workers.        *)
(*                                                                         *)
(* Then a request is executed once.  So a message is delivered once, and   *)
(* not after it was opened; the counters of a session, which its sender    *)
(* increments, tell its messages apart.  A batch of one-time prekeys is    *)
(* published once, with identifiers above all earlier ones, and a bundle   *)
(* leaves the queue before the next handshake looks at it: two sessions    *)
(* never name the same one-time prekey, unless one of them belonged to a   *)
(* worker that was dropped before its first message was sent.              *)
(***************************************************************************)
EXTENDS PairwiseSessionsProofs

\* The states of a session number more messages than were sent with it.
Ahead(record, m) ==
    \A i \in 1..Len(record) : record[i].base = m.base => m.n < record[i].n

Counters ==
    \A q \in Participants : \A m :
        InFlight(q, m) \/ m \in opened[q] => Ahead(sessions[m.sender][q], m)

\* Who has opened a message of a session has it on record only together with the
\* sender.
BothGone ==
    \A q \in Participants : \A m \in opened[q] :
        Known(q, m.sender, m.base) /\ ~HalfReset(q, m.sender) => Known(m.sender, q, m.base)

\* Every session set up has its own base key, and the last one is on record while
\* its bundle is consumed.
OneBase ==
    /\ \A s, t \in started : s.base = t.base => s = t
    /\ cmd.pc = "consume" => Known(cmd.actor, cmd.peer, pairs)

\* A message is delivered and opened once.
Once ==
    lost = 0 =>
        /\ \A q \in Participants : \A i, j \in 1..Len(inboxes[q]) :
              inboxes[q][i].message = inboxes[q][j].message => inboxes[q][i].id = inboxes[q][j].id
        /\ \A q \in Participants : \A m : InFlight(q, m) => m \notin opened[q]
        /\ cmd.pc = "post" => ~Waiting(cmd.peer, cmd.message)

\* A session that was accepted, or can be.
Live(s) == s \in accepted \/ \E p \in Alive : Known(p, s.owner, s.base)

\* A one-time prekey is on offer once, until a session is set up with it.
Single(queue) ==
    \A i, j \in 1..Len(queue) : is_one_time(queue[i]) /\ queue[i] = queue[j] => i = j
OfferedOnce ==
    lost = 0 =>
        /\ \A q \in Participants : Single(prekey_bundles[q])
        /\ \A s \in started : \A i \in 1..Len(prekey_bundles[s.owner]) :
              /\ Live(s) /\ is_one_time(s.bundle) /\ s.bundle = prekey_bundles[s.owner][i]
              => cmd.pc = "consume" /\ s.owner = cmd.peer /\ i = 1 /\ s.base = pairs
        /\ cmd.pc = "put" =>
              /\ Single(cmd.batch)
              /\ \A i \in 1..Len(cmd.batch) : is_one_time(cmd.batch[i]) =>
                    /\ \A j \in 1..Len(prekey_bundles[cmd.peer]) :
                          prekey_bundles[cmd.peer][j] # cmd.batch[i]
                    /\ \A s \in started : s.owner = cmd.peer => s.bundle # cmd.batch[i]

\* No two such sessions name the same one-time prekey.
UsedOnce ==
    lost = 0 =>
        \A s, t \in started :
            Live(s) /\ Live(t) /\ s.owner = t.owner /\ s.bundle = t.bundle /\ is_one_time(s.bundle)
            => s = t

\* Every first message is opened.
AllOpened == cmd.pc = "not_opened" => lost # 0

AnsweredInv ==
    Counters /\ BothGone /\ OneBase /\ Once /\ OfferedOnce /\ UsedOnce /\ AllOpened

\* What a participant has opened before, it opens now.
LEMMA OpenedFrom ==
    ASSUME BaseInv, SessionInv, Steps, NEW q \in Participants, NEW m \in opened'[q]
    PROVE  /\ m \in opened[q] \/ \E e : Decrypts(e) /\ q = cmd.peer /\ m = e.message
           /\ m \in Message /\ m.sender \in Participants
  <1>1. opened[q] \subseteq Message
    BY Zenon DEF BaseInv, OfferInv, RatchetTypes
  <1>2. CASE m \in opened[q]
    BY Zenon, <1>1, <1>2 DEF Message
  <1>3. ASSUME NEW e, Decrypts(e), q = cmd.peer, m \notin opened[q]
        PROVE  m = e.message /\ m \in Message /\ m.sender \in Participants
    <2>1. PICK x : x = e.message /\ Opening(q, x) /\ Opened(q, x)
      BY Zenon, <1>3, DecryptOpens
    <2>2. m = x
      <3>1. opened'[q] = opened[q] \cup {x}
        BY Zenon, <2>1 DEF Opened
      <3> QED
        BY Zenon, <1>3, <3>1
    <2> QED
      BY Zenon, <2>1, <2>2 DEF Opening, Message
  <1>4. opened'[q] = opened[q] \/ \E e : Decrypts(e) /\ q = cmd.peer
    BY Zenon, StepOpened
  <1> QED
    BY Zenon, <1>2, <1>3, <1>4

\* Who opens a message of a session has it on record together with the sender.
LEMMA NextBothGone ==
    ASSUME BaseInv, SessionInv, BothGone, Steps
    PROVE  BothGone'
  <1> SUFFICES ASSUME NEW q \in Participants, NEW m \in opened'[q], NEW p, p = m.sender,
                      Known(q, p, m.base)', ~HalfReset(q, p)'
               PROVE  Known(p, q, m.base)'
    BY Zenon DEF BothGone
  <1>1. /\ m \in opened[q] \/ \E e : Decrypts(e) /\ q = cmd.peer /\ m = e.message
        /\ p \in Participants
    BY Zenon, OpenedFrom
  <1>2. ASSUME NEW e, Decrypts(e), q = cmd.peer, p = e.message.sender, m.base = e.message.base
        PROVE  Known(p, q, m.base)'
    <2>1. PICK x : x = e.message /\ Opening(q, x)
      BY Zenon, <1>2, DecryptOpens
    <2>2. Known(p, q, m.base)
      BY Zenon, <1>2, <2>1 DEF Opening
    <2>3. ~Forgets
      BY <1>2 DEF Decrypts, Forgets
    <2> QED
      BY Zenon, <1>1, <2>2, <2>3, KnownStays
  <1>3. CASE Forgets /\ m \in opened[q]
    <2>1. sessions'[q][p] # <<>>
      <3>1. DOMAIN <<>> = {}
        OBVIOUS
      <3> QED
        BY Zenon, <3>1 DEF Known, Bases
    <2>2. /\ ~HalfReset(q, p) /\ sessions'[q][p] = sessions[q][p]
          /\ sessions'[p][q] = sessions[p][q]
      BY Zenon, <1>1, <1>3, <2>1, ForgetHeads
    <2>3. Known(p, q, m.base)
      BY Zenon, <1>3, <2>2 DEF BothGone, Known
    <2> QED
      BY Zenon, <2>2, <2>3 DEF Known
  <1>4. CASE ~Forgets /\ m \in opened[q]
    <2>1. ~HalfReset(q, p)
      BY Zenon, <1>4, PointStays DEF HalfReset
    <2>2. CASE Known(q, p, m.base)
      <3>1. Known(p, q, m.base)
        BY Zenon, <1>4, <2>1, <2>2 DEF BothGone
      <3> QED
        BY Zenon, <1>1, <1>4, <3>1, KnownStays
    <2>3. ~Initiates \/ m.base # pairs
      BY Zenon, <1>4 DEF Initiates, SessionInv, Fresh, Old, Starting
    <2>4. Known(q, p, m.base) \/ AddsBase(q, p, m.base)
      BY Zenon, <1>1, StepKnown
    <2> QED
      BY Zenon, <1>2, <2>2, <2>3, <2>4 DEF AddsBase
  <1> QED
    BY Zenon, <1>1, <1>2, <1>3, <1>4

\* A state of a record was there before, with at most one message less, or is that of a
\* session that was not on record.
Continues(p, q, x) ==
    \/ \E j \in 1..Len(sessions[p][q]) :
          /\ sessions[p][q][j].base = x.base
          /\ x.n \in {sessions[p][q][j].n, sessions[p][q][j].n + 1}
    \/ AddsBase(p, q, x.base) /\ ~Known(p, q, x.base)

\* So is every state.
LEMMA StepStates ==
    ASSUME BaseInv, SessionInv, Steps, NEW p \in Participants, NEW q \in Participants,
           NEW i \in 1..Len(sessions'[p][q])
    PROVE  Continues(p, q, sessions'[p][q][i])
  <1>0. PICK old : old = sessions[p][q] /\ old \in Seq(SessionState)
    BY Zenon DEF BaseInv, OfferInv, RatchetTypes
  <1>1. CASE sessions'[p][q] = sessions[p][q]
    <2>1. old[i] \in SessionState /\ i \in 1..Len(old)
      BY <1>0, <1>1
    <2> QED
      BY Zenon, <1>0, <1>1, <2>1 DEF Continues
  <1>2. CASE Quiet
    BY Zenon, <1>1, <1>2, QuietState
  <1>3. CASE Forgets
    <2>1. sessions'[p][q] = sessions[p][q] \/ sessions'[p][q] = <<>>
      BY Zenon, <1>3 DEF Forgets, SetRecord
    <2>2. sessions'[p][q] # <<>>
      OBVIOUS
    <2> QED
      BY Zenon, <1>1, <2>1, <2>2
  <1>4. CASE Initiates /\ p = cmd.actor /\ q = cmd.peer
    <2>1. /\ Sets(p, q, pairs, prekey_bundles[q][1]) /\ \A b : ~Known(p, q, b)
      BY Zenon, <1>4, InitiateSets
    <2>2. PICK s : s = [base |-> pairs, bundle |-> prekey_bundles[q][1], n |-> 0]
      BY Zenon
    <2>3. sessions'[p][q] = <<s>>
      BY Zenon, <1>4, <2>2 DEF Initiates, SetRecord
    <2>4. sessions'[p][q][i] = s
      BY <2>3
    <2>5. s.base = pairs
      BY Zenon, <2>2
    <2> QED
      BY Zenon, <1>4, <2>1, <2>4, <2>5 DEF Continues, AddsBase
  <1>5. CASE Encrypts /\ p = cmd.actor /\ q = cmd.peer
    <2>1. PICK s : s = old[1]
      BY Zenon
    <2>2. sessions'[p][q] = [old EXCEPT ![1] = [s EXCEPT !.n = s.n + 1]] /\ old # <<>>
      BY Zenon, <1>0, <1>5, <2>1 DEF Encrypts, SetRecord
    <2>3. PICK t, new : t = [s EXCEPT !.n = s.n + 1] /\ new = [old EXCEPT ![1] = t]
      BY Zenon
    <2>4. new = sessions'[p][q]
      BY Zenon, <2>2, <2>3
    <2>5. s \in SessionState /\ Len(new) = Len(old)
      BY <1>0, <2>1, <2>2, <2>3
    <2>6. s.n \in Nat /\ t.base = s.base /\ t.n = s.n + 1
      BY Zenon, <2>3, <2>5 DEF SessionState
    <2>7. i \in 1..Len(old) /\ old[i] \in SessionState
      BY <1>0, <2>4, <2>5
    <2>8. new[i] = IF i = 1 THEN t ELSE old[i]
      <3>1. DOMAIN old = 1..Len(old)
        BY <1>0
      <3> QED
        BY Zenon, <2>3, <2>7, <3>1
    <2>9. old[i].n \in Nat
      BY Zenon, <2>7 DEF SessionState
    <2>10. old[i].base = new[i].base /\ new[i].n \in {old[i].n, old[i].n + 1}
      BY <2>1, <2>6, <2>8, <2>9
    <2> QED
      BY Zenon, <1>0, <2>4, <2>7, <2>10 DEF Continues
  <1>6. ASSUME NEW e, Decrypts(e), p = cmd.peer, q = e.message.sender
        PROVE  Continues(p, q, sessions'[p][q][i])
    <2>1. PICK m : m = e.message /\ Opening(p, m)
      BY Zenon, <1>6, DecryptOpens
    <2>2. m \in Message /\ message_decrypt(p, m) /\ q = m.sender
      BY Zenon, <1>6, <2>1 DEF Opening, Decrypts
    <2>3. RatchetTypes /\ Distinct(sessions[p][q])
      BY Zenon DEF SessionInv, OnePair, BaseInv, OfferInv
    <2>4. PICK new : Receives(p, m, new)
      BY Zenon, <2>2, <2>3, DecryptReceives
    <2>5. sessions'[p][q] = new /\ Received(new, old, m.base)
      BY Zenon, <1>0, <2>2, <2>4 DEF Receives, SetRecord
    <2>6. \/ \E j \in 1..Len(old) : new[i].base = old[j].base /\ new[i].n = old[j].n
          \/ new[i].base = m.base /\ m.base \notin Bases(old)
      BY Zenon, <2>5 DEF Received
    <2>7. CASE \E j \in 1..Len(old) : new[i].base = old[j].base /\ new[i].n = old[j].n
      <3>1. PICK j \in 1..Len(old) : new[i].base = old[j].base /\ new[i].n = old[j].n
        BY Zenon, <2>7
      <3> QED
        BY Zenon, <1>0, <2>5, <3>1 DEF Continues
    <2>8. CASE new[i].base = m.base /\ m.base \notin Bases(old)
      BY Zenon, <1>0, <1>6, <2>1, <2>5, <2>8 DEF Continues, AddsBase, Known
    <2> QED
      BY Zenon, <2>6, <2>7, <2>8
  <1>7. CASE Initiates /\ ~(p = cmd.actor /\ q = cmd.peer)
    <2>1. Sets(cmd.actor, cmd.peer, pairs, prekey_bundles[cmd.peer][1])
      BY Zenon, <1>7, InitiateSets
    <2>2. sessions'[p][q] = sessions[p][q]
      BY Zenon, <1>7, <2>1 DEF Sets
    <2> QED
      BY Zenon, <1>1, <2>2
  <1>8. CASE Encrypts /\ ~(p = cmd.actor /\ q = cmd.peer)
    <2>1. PICK s : Sets(cmd.actor, cmd.peer, s.base, s.bundle)
      BY Zenon, <1>8, EncryptSets DEF SessionInv
    <2>2. sessions'[p][q] = sessions[p][q]
      BY Zenon, <1>8, <2>1 DEF Sets
    <2> QED
      BY Zenon, <1>1, <2>2
  <1>9. ASSUME NEW e, Decrypts(e), ~(p = cmd.peer /\ q = e.message.sender)
        PROVE  Continues(p, q, sessions'[p][q][i])
    <2>1. Sets(cmd.peer, e.message.sender, e.message.base, NoBundle)
      BY Zenon, <1>9, DecryptOpens DEF Opened
    <2>2. sessions'[p][q] = sessions[p][q]
      BY Zenon, <1>9, <2>1 DEF Sets
    <2> QED
      BY Zenon, <1>1, <2>2
  <1> QED
    BY Zenon, <1>2, <1>3, <1>4, <1>5, <1>6, <1>7, <1>8, <1>9 DEF Steps, Quiet

\* A message that was sent before goes on to be behind its session.
LEMMA SentBehind ==
    ASSUME BaseInv, SessionInv, Counters, BothGone, Steps, NEW q \in Participants, NEW m \in Message,
           InFlight(q, m) \/ m \in opened[q], NEW p, p = m.sender
    PROVE  Ahead(sessions'[p][q], m)
  <1>1. p \in Participants /\ m.n \in Nat
    BY Zenon DEF Message
  <1>2. PICK old : old = sessions[p][q] /\ old \in Seq(SessionState) /\ Ahead(old, m)
    BY Zenon, <1>1 DEF BaseInv, OfferInv, RatchetTypes, Counters
  <1>3. ~AddsBase(p, q, m.base) \/ Known(p, q, m.base)
    <2>1. Old(m.base, Starting)
      BY Zenon DEF SessionInv, Fresh
    <2>2. ~Initiates \/ m.base # pairs
      BY Zenon, <2>1 DEF Initiates, Old, Starting
    <2>3. ASSUME NEW e, Decrypts(e), p = cmd.peer, q = e.message.sender, m.base = e.message.base
          PROVE  Known(p, q, m.base)
      <3>1. PICK x : x = e.message /\ Opening(p, x)
        BY Zenon, <2>3, DecryptOpens
      <3>2. p \in Alive /\ q \in Alive /\ Known(q, p, m.base)
        BY Zenon, <2>3, <3>1 DEF Opening
      <3>3. CASE m \in opened[q]
        <4>1. ~HalfReset(q, p)
          BY <2>3 DEF HalfReset, Decrypts
        <4> QED
          BY Zenon, <3>2, <3>3, <4>1 DEF BothGone
      <3>4. CASE InFlight(q, m) /\ m \notin opened[q]
        BY Zenon, <3>2, <3>4 DEF SessionInv, Flight
      <3> QED
        BY Zenon, <3>3, <3>4
    <2> QED
      BY Zenon, <2>2, <2>3 DEF AddsBase
  <1>4. ASSUME NEW i \in 1..Len(sessions'[p][q]), NEW x, x = sessions'[p][q][i], x.base = m.base,
               NEW j \in 1..Len(old), old[j].base = x.base, x.n \in {old[j].n, old[j].n + 1}
        PROVE  m.n < x.n
    <2>1. old[j] \in SessionState /\ m.n < old[j].n
      <3>1. old[j] \in SessionState
        BY <1>2
      <3>2. old[j].base = m.base
        BY Zenon, <1>4
      <3> QED
        BY Zenon, <1>2, <3>1, <3>2 DEF Ahead
    <2>2. old[j].n \in Nat
      BY Zenon, <2>1 DEF SessionState
    <2> QED
      BY <1>1, <1>4, <2>1, <2>2
  <1>5. ASSUME NEW i \in 1..Len(sessions'[p][q]), NEW x, x = sessions'[p][q][i], x.base = m.base
        PROVE  m.n < x.n
    <2>1. Continues(p, q, x)
      BY Zenon, <1>1, <1>5, StepStates
    <2>2. PICK j \in 1..Len(old) : old[j].base = x.base /\ x.n \in {old[j].n, old[j].n + 1}
      BY Zenon, <1>2, <1>3, <1>5, <2>1 DEF Continues
    <2> QED
      BY Zenon, <1>4, <1>5, <2>2
  <1> QED
    BY Zenon, <1>5 DEF Ahead

\* The states of a session go on to number more messages than were sent with it.
LEMMA NextCounters ==
    ASSUME BaseInv, SessionInv, Counters, BothGone, Steps
    PROVE  Counters'
  <1> SUFFICES ASSUME NEW q \in Participants, NEW m, InFlight(q, m)' \/ m \in opened'[q],
                      NEW p, p = m.sender
               PROVE  Ahead(sessions'[p][q], m)
    BY Zenon DEF Counters, Ahead
  <1>1. CASE InFlight(q, m)
    <2>1. m \in Message
      BY Zenon, <1>1 DEF SessionInv, Envelopes
    <2> QED
      BY Zenon, <1>1, <2>1, SentBehind
  <1>2. CASE m \in opened'[q]
    <2>1. /\ m \in opened[q] \/ \E e : Decrypts(e) /\ q = cmd.peer /\ m = e.message
          /\ m \in Message
      BY Zenon, <1>2, OpenedFrom
    <2>2. CASE m \in opened[q]
      BY Zenon, <2>1, <2>2, SentBehind
    <2>3. CASE \E e : Decrypts(e) /\ q = cmd.peer /\ m = e.message
      <3>1. InFlight(q, m)
        BY Zenon, <2>3, DecryptOpens DEF Opening
      <3> QED
        BY Zenon, <1>1, <3>1
    <2> QED
      BY Zenon, <2>1, <2>2, <2>3
  <1>3. CASE Encrypts /\ q = cmd.peer /\ m = cmd'.message
    <2>1. PICK s : /\ s = sessions[cmd.actor][cmd.peer][1] /\ sessions[cmd.actor][cmd.peer] # <<>>
                   /\ Sets(cmd.actor, cmd.peer, s.base, s.bundle)
                   /\ cmd.actor \in Participants /\ m.sender = cmd.actor
                   /\ m.base = s.base /\ m.n = s.n
      BY Zenon, <1>3, EncryptSets DEF SessionInv
    <2>2. p = cmd.actor /\ p \in Participants
      BY Zenon, <2>1
    <2>3. PICK old, new : /\ old = sessions[p][q] /\ old \in Seq(SessionState) /\ old # <<>>
                          /\ s = old[1] /\ new = sessions'[p][q]
      <3>1. sessions[p][q] \in Seq(SessionState)
        BY Zenon, <2>2 DEF BaseInv, OfferInv, RatchetTypes
      <3> QED
        BY Zenon, <1>3, <2>1, <2>2, <3>1
    <2>4. new = [old EXCEPT ![1] = [s EXCEPT !.n = s.n + 1]]
      BY Zenon, <1>3, <2>2, <2>3 DEF Encrypts, SetRecord
    <2>5. s \in SessionState /\ 1 \in DOMAIN old /\ 1 \in 1..Len(new)
      BY <2>3, <2>4
    <2>6. s.n \in Nat /\ new[1].n = s.n + 1
      BY Zenon, <2>4, <2>5 DEF SessionState
    <2>7. Distinct(new) /\ new[1].base = m.base
      BY Zenon, <1>3, <2>1, <2>2, <2>3 DEF Sets
    <2>8. \A i \in 1..Len(new) : new[i].base = m.base => i = 1
      BY Zenon, <2>5, <2>7 DEF Distinct
    <2>9. m.n < new[1].n
      BY <2>1, <2>6
    <2> QED
      BY Zenon, <2>3, <2>8, <2>9 DEF Ahead
  <1>4. InFlight(q, m)' => InFlight(q, m) \/ (Encrypts /\ q = cmd.peer /\ m = cmd'.message)
    BY Zenon, FlightStep
  <1> QED
    BY Zenon, <1>1, <1>2, <1>3, <1>4

\* A new session has a base key of its own.
LEMMA NextOneBase ==
    ASSUME BaseInv, SessionInv, OneBase, Steps
    PROVE  OneBase'
  <1>1. ASSUME Initiates
        PROVE  OneBase'
    <2>1. PICK t0 : /\ t0 = [owner |-> cmd.peer, bundle |-> prekey_bundles[cmd.peer][1], base |-> pairs]
                    /\ started' = started \cup {t0}
      BY Zenon, <1>1 DEF Initiates
    <2>2. cmd.pc = "establish" /\ cmd'.actor = cmd.actor /\ cmd'.peer = cmd.peer /\ pairs' = pairs
      BY Zenon, <1>1 DEF Initiates, Moves, runner
    <2>3. \A s \in started : s.base # t0.base
      <3>1. t0.base = pairs
        BY Zenon, <2>1
      <3> QED
        BY Zenon, <2>2, <3>1 DEF SessionInv, Fresh, Old, Starting
    <2>4. \A s, t \in started' : s.base = t.base => s = t
      BY Zenon, <2>1, <2>3 DEF OneBase
    <2>5. pairs \in Bases(sessions'[cmd.actor][cmd.peer])
      BY Zenon, <1>1, InitiateSets DEF Sets
    <2> QED
      BY Zenon, <2>2, <2>4, <2>5 DEF OneBase, Known
  <1>2. ASSUME ~Initiates
        PROVE  OneBase'
    <2>1. started' = started
      <3>1. ASSUME NEW e, Decrypts(e) PROVE started' = started
        BY Zenon, <3>1, DecryptOpens DEF Opened
      <3> QED
        BY Zenon, <1>2, <3>1, QuietState DEF Steps, Quiet, Forgets, Encrypts
    <2>2. ASSUME cmd'.pc = "consume"
          PROVE  Known(cmd.actor, cmd.peer, pairs)'
      <3>1. CASE Rests \/ Starts \/ Prepares \/ GoesOn \/ Forgets \/ Encrypts \/ Fails
                 \/ \E e : Decrypts(e)
        BY <2>2, <3>1 DEF Rests, Starts, Prepares, GoesOn, Forgets, Encrypts, Fails, Decrypts, Moves
      <3>2. CASE Loses \/ (\E r : Executes(r)) \/ UNCHANGED vars
        <4>1. sessions' = sessions /\ pairs' = pairs
          BY Zenon, <3>2 DEF Loses, Executes, vars, runner, ratchets
        <4>2. cmd.pc = "consume" /\ cmd'.actor = cmd.actor /\ cmd'.peer = cmd.peer
          <5>1. CASE Loses
            BY <2>2, <5>1 DEF Loses, Moves
          <5>2. CASE \E r : Executes(r)
            <6>1. cmd' = cmd \/ (Requesting /\ Moves(Answered))
              BY Zenon, <5>2 DEF Executes
            <6> QED
              BY <2>2, <6>1 DEF Requesting, Moves, Answered
          <5>3. CASE UNCHANGED vars
            BY Zenon, <2>2, <5>3 DEF vars
          <5> QED
            BY Zenon, <3>2, <5>1, <5>2, <5>3
        <4> QED
          BY Zenon, <4>1, <4>2 DEF OneBase, Known
      <3> QED
        BY Zenon, <1>2, <3>1, <3>2 DEF Steps
    <2> QED
      BY Zenon, <2>1, <2>2 DEF OneBase
  <1> QED
    BY Zenon, <1>1, <1>2

\* As long as every request is answered, none is late or repeated.
LEMMA AnsweredSteps ==
    ASSUME BaseInv, Steps, lost' = 0
    PROVE  /\ lost = 0 /\ late = {} /\ late' = {} /\ ~cmd.tried /\ ~Loses
           /\ \A r : Executes(r) => r = CurrentRequest /\ Requesting /\ Moves(Answered)
  <1>1. lost \in Nat
    BY Zenon DEF BaseInv, OfferInv, ServiceTypes
  <1>2. ~Loses
    BY <1>1 DEF Loses
  <1>3. lost' = lost
    BY Zenon, <1>2 DEF Steps, Rests, Starts, Prepares, GoesOn, Forgets, Initiates, Encrypts, Decrypts,
       Fails, Executes, vars, services
  <1>4. lost = 0
    BY Zenon, <1>3
  <1>5. late = {} /\ ~cmd.tried
    BY Zenon, <1>4 DEF BaseInv, StockInv, Unlost
  <1>6. \A r : Executes(r) => r = CurrentRequest /\ Requesting /\ Moves(Answered) /\ late' = late
    BY Zenon, <1>5 DEF Executes
  <1>7. late' = late
    BY Zenon, <1>2, <1>6 DEF Steps, Rests, Starts, Prepares, GoesOn, Forgets, Initiates, Encrypts,
       Decrypts, Fails, vars, services
  <1> QED
    BY Zenon, <1>2, <1>4, <1>5, <1>6, <1>7

\* A message that is made was not sent before.
LEMMA EncryptedIsNew ==
    ASSUME BaseInv, SessionInv, Counters, Encrypts
    PROVE  ~InFlight(cmd.peer, cmd'.message) /\ cmd'.message \notin opened[cmd.peer]
  <1>0. PICK m, p, q : m = cmd'.message /\ p = cmd.actor /\ q = cmd.peer
    BY Zenon
  <1>1. PICK s : /\ p \in Participants /\ q \in Participants
                 /\ s = sessions[p][q][1] /\ sessions[p][q] # <<>>
                 /\ m.sender = p /\ m.base = s.base /\ m.n = s.n
    BY Zenon, <1>0, EncryptSets DEF SessionInv
  <1>2. PICK record : record = sessions[p][q] /\ record \in Seq(SessionState) /\ record # <<>>
    <2>1. sessions[p][q] \in Seq(SessionState)
      BY Zenon, <1>1 DEF BaseInv, OfferInv, RatchetTypes
    <2> QED
      BY Zenon, <1>1, <2>1
  <1>3. 1 \in 1..Len(record) /\ record[1] \in SessionState
    BY <1>2
  <1>4. s = record[1] /\ s.n \in Nat
    BY Zenon, <1>1, <1>2, <1>3 DEF SessionState
  <1>5. ~(m.n < s.n)
    BY <1>1, <1>4
  <1>6. ~Ahead(record, m)
    BY Zenon, <1>1, <1>3, <1>4, <1>5 DEF Ahead
  <1> QED
    BY Zenon, <1>0, <1>1, <1>2, <1>6 DEF Counters

\* No two envelopes of an inbox have the same message.
Told(inbox) ==
    \A i, j \in 1..Len(inbox) : inbox[i].message = inbox[j].message => inbox[i].id = inbox[j].id

\* That stays so.
LEMMA StepTold ==
    ASSUME BaseInv, SessionInv, Once, Steps, lost' = 0, NEW q \in Participants
    PROVE  Told(inboxes'[q])
  <1>1. /\ lost = 0
        /\ \A r : Executes(r) => r = CurrentRequest /\ Requesting /\ Moves(Answered)
    BY Zenon, AnsweredSteps
  <1>2. Told(inboxes[q])
    BY Zenon, <1>1 DEF Once, Told
  <1>3. ASSUME NEW r, Executes(r)
        PROVE  Told(inboxes'[q])
    <2>1. RequestOK(r) /\ Execute(r) /\ ServiceTypes /\ r = CurrentRequest
      BY Zenon, <1>1, <1>3 DEF Executes, BaseInv, OfferInv
    <2>2. PICK new, old : /\ new = inboxes'[q] /\ old = inboxes[q] /\ old \in Seq(Envelope)
                          /\ Delivered(r, q, new, old)
      BY Zenon, <2>1, ExecuteDelivers DEF ServiceTypes
    <2>3. CASE new = old
      BY Zenon, <1>2, <2>2, <2>3
    <2>4. ASSUME r.op = "post", r.at = q,
                 NEW e \in Envelope, new = Append(old, e), e.message = r.message
          PROVE  Told(new)
      <3>1. cmd.pc = "post" /\ cmd.peer = q /\ cmd.message = e.message
        BY SMT, <2>1, <2>4 DEF CurrentRequest
      <3>2. \A i \in 1..Len(old) : old[i].message # e.message
        BY Zenon, <1>1, <2>2, <3>1 DEF Once, Waiting
      <3>3. \A i \in 1..Len(new) : (i \in 1..Len(old) /\ new[i] = old[i]) \/ new[i] = e
        BY <2>2, <2>4
      <3>4. Told(old)
        BY Zenon, <1>2, <2>2
      <3>5. ASSUME NEW i \in 1..Len(new), NEW j \in 1..Len(new), new[i].message = new[j].message
            PROVE  new[i].id = new[j].id
        <4>1. CASE i \in 1..Len(old) /\ new[i] = old[i] /\ j \in 1..Len(old) /\ new[j] = old[j]
          BY Zenon, <3>4, <3>5, <4>1 DEF Told
        <4>2. CASE i \in 1..Len(old) /\ new[i] = old[i] /\ new[j] = e
          BY Zenon, <3>2, <3>5, <4>2
        <4>3. CASE new[i] = e /\ j \in 1..Len(old) /\ new[j] = old[j]
          BY Zenon, <3>2, <3>5, <4>3
        <4>4. CASE new[i] = e /\ new[j] = e
          BY Zenon, <4>4
        <4> QED
          BY Zenon, <3>3, <4>1, <4>2, <4>3, <4>4
      <3> QED
        BY Zenon, <3>5 DEF Told
    <2>5. Told(new)
      BY Zenon, <1>2, <2>2, <2>3, <2>4 DEF Delivered
    <2> QED
      BY Zenon, <2>2, <2>5
  <1>4. ASSUME NEW e, Decrypts(e)
        PROVE  Told(inboxes'[q])
    <2>1. /\ cmd.peer \in Participants /\ ServiceTypes
          /\ inboxes' = ack_message(inboxes, cmd.peer, e)
      BY Zenon, <1>4 DEF Decrypts, Moves, BaseInv, OfferInv
    <2>2. PICK new, old : /\ new = inboxes'[q] /\ old = inboxes[q]
      BY Zenon
    <2>3. \A i \in 1..Len(inboxes'[q]) : \E j \in 1..Len(inboxes[q]) :
             inboxes'[q][i] = inboxes[q][j] /\ (q = cmd.peer => inboxes[q][j].id # e.id)
      BY ZenonT(30), <2>1, AckLeaves
    <2>4. \A i \in 1..Len(new) : \E j \in 1..Len(old) : new[i] = old[j]
      BY Zenon, <2>2, <2>3
    <2>5. Told(new)
      <3>1. ASSUME NEW i \in 1..Len(new), NEW j \in 1..Len(new), new[i].message = new[j].message
            PROVE  new[i].id = new[j].id
        <4>1. PICK k \in 1..Len(old), l \in 1..Len(old) : new[i] = old[k] /\ new[j] = old[l]
          BY Zenon, <2>4
        <4> QED
          BY Zenon, <1>2, <2>2, <3>1, <4>1 DEF Told
      <3> QED
        BY Zenon, <3>1 DEF Told
    <2> QED
      BY Zenon, <2>2, <2>5
  <1>5. CASE \/ Rests \/ Starts \/ Prepares \/ GoesOn \/ Forgets \/ Initiates \/ Encrypts
             \/ Fails \/ Loses \/ UNCHANGED vars
    <2>1. inboxes' = inboxes
      BY Zenon, <1>5 DEF Rests, Starts, Prepares, GoesOn, Forgets, Initiates, Encrypts, Fails,
         Loses, vars, services
    <2> QED
      BY Zenon, <1>2, <2>1
  <1> QED
    BY Zenon, <1>3, <1>4, <1>5 DEF Steps

\* The acknowledged message does not wait any more.
LEMMA AckedIsGone ==
    ASSUME BaseInv, SessionInv, Once, lost = 0, late' = {}, NEW e, Decrypts(e)
    PROVE  ~InFlight(cmd.peer, e.message)'
  <1>1. /\ cmd.peer \in Participants /\ ServiceTypes /\ Pending # <<>> /\ e = Head(Pending)
        /\ inboxes' = ack_message(inboxes, cmd.peer, e) /\ cmd'.pc = "update" /\ cmd'.peer = cmd.peer
    BY Zenon DEF Decrypts, Moves, BaseInv, OfferInv
  <1>2. PICK q, old, new : q = cmd.peer /\ new = inboxes'[q] /\ old = inboxes[q]
    BY Zenon
  <1>3. PICK k \in 1..Len(old) : e = old[k]
    BY Zenon, <1>1, <1>2, PendingElements
  <1>4. \A i \in 1..Len(new) : \E j \in 1..Len(old) : new[i] = old[j] /\ old[j].id # e.id
    <2>1. ServiceTypes /\ cmd.peer \in Participants /\ q \in Participants
          /\ inboxes' = ack_message(inboxes, cmd.peer, e)
      BY Zenon, <1>1, <1>2
    <2>2. \A i \in 1..Len(inboxes'[q]) : \E j \in 1..Len(inboxes[q]) :
             inboxes'[q][i] = inboxes[q][j] /\ (q = cmd.peer => inboxes[q][j].id # e.id)
      BY ZenonT(30), <2>1, AckLeaves
    <2> QED
      BY Zenon, <1>2, <2>2
  <1>5. \A j \in 1..Len(old) : old[j].message = e.message => old[j].id = e.id
    BY ZenonT(30), <1>1, <1>2, <1>3 DEF Once
  <1>6. \A i \in 1..Len(new) : new[i].message # e.message
    BY Zenon, <1>4, <1>5
  <1>7. cmd'.pc # "post"
    BY <1>1
  <1> QED
    BY Zenon, <1>1, <1>2, <1>6, <1>7 DEF InFlight

\* What is in flight is not opened yet.
LEMMA StepUnopened ==
    ASSUME BaseInv, SessionInv, Counters, Once, Steps, lost' = 0, NEW q \in Participants, NEW m,
           InFlight(q, m)'
    PROVE  m \notin opened'[q]
  <1>1. lost = 0 /\ late' = {}
    BY Zenon, AnsweredSteps
  <1>2. CASE Encrypts /\ q = cmd.peer /\ m = cmd'.message
    <2>1. opened' = opened
      BY Zenon, <1>2 DEF Encrypts
    <2> QED
      BY Zenon, <1>2, <2>1, EncryptedIsNew
  <1>3. CASE InFlight(q, m)
    <2>1. m \notin opened[q]
      BY Zenon, <1>1, <1>3 DEF Once
    <2>2. ASSUME NEW e, Decrypts(e), q = cmd.peer, m = e.message
          PROVE  FALSE
      <3>1. ~InFlight(cmd.peer, e.message)'
        BY Zenon, <1>1, <2>2, AckedIsGone
      <3>2. cmd'.peer = cmd.peer
        BY Zenon, <2>2 DEF Decrypts, Moves
      <3> QED
        BY Zenon, <2>2, <3>1, <3>2 DEF InFlight
    <2>3. m \in opened'[q] => m \in opened[q] \/ \E e : Decrypts(e) /\ q = cmd.peer /\ m = e.message
      BY Zenon, OpenedFrom
    <2> QED
      BY Zenon, <2>1, <2>2, <2>3
  <1>4. InFlight(q, m) \/ (Encrypts /\ q = cmd.peer /\ m = cmd'.message)
    BY Zenon, FlightStep
  <1> QED
    BY Zenon, <1>2, <1>3, <1>4

\* A message that is being posted does not wait yet.
LEMMA NextOnce ==
    ASSUME BaseInv, SessionInv, Counters, Once, Steps
    PROVE  Once'
  <1> SUFFICES ASSUME lost' = 0
               PROVE  Once'
    BY Zenon DEF Once
  <1>1. /\ lost = 0 /\ ~Loses
        /\ \A r : Executes(r) => r = CurrentRequest /\ Requesting /\ Moves(Answered)
    BY Zenon, AnsweredSteps
  <1>2. \A q \in Participants : Told(inboxes'[q])
    BY Zenon, StepTold
  <1>3. \A q \in Participants : \A m : InFlight(q, m)' => m \notin opened'[q]
    BY Zenon, StepUnopened
  <1>4. ASSUME cmd'.pc = "post"
        PROVE  ~Waiting(cmd.peer, cmd.message)'
    <2>1. CASE Encrypts
      <3>1. inboxes' = inboxes /\ cmd'.peer = cmd.peer
        BY Zenon, <2>1 DEF Encrypts, services
      <3>2. ~InFlight(cmd.peer, cmd'.message)
        BY Zenon, <2>1, EncryptedIsNew
      <3> QED
        BY Zenon, <3>1, <3>2 DEF Waiting, InFlight
    <2>2. CASE UNCHANGED vars
      BY Zenon, <1>1, <1>4, <2>2 DEF Once, Waiting, vars, services
    <2>3. CASE \E r : Executes(r)
      <3>1. Requesting /\ Moves(Answered)
        BY Zenon, <1>1, <2>3
      <3> QED
        BY <1>4, <3>1 DEF Requesting, Moves, Answered
    <2>4. CASE Rests \/ Starts \/ Prepares \/ GoesOn \/ Forgets \/ Initiates \/ Fails
               \/ \E e : Decrypts(e)
      BY <1>4, <2>4 DEF Rests, Starts, Prepares, GoesOn, Forgets, Initiates, Fails, Decrypts, Moves
    <2> QED
      BY Zenon, <1>1, <2>1, <2>2, <2>3, <2>4 DEF Steps
  <1> QED
    BY Zenon, <1>2, <1>3, <1>4 DEF Once, Told

\* A consume takes the front away, and nothing is on offer twice after it.
Advanced(new, queue) ==
    /\ Single(new)
    /\ \A i \in 1..Len(new) : is_one_time(new[i]) =>
          \E j \in 1..Len(queue) : j # 1 /\ new[i] = queue[j]

\* That holds of a queue with its fallback at the end.
LEMMA ConsumeSingle ==
    ASSUME NEW queue \in Seq(Bundle), QueueShape(queue), Single(queue),
           NEW new, new = consume_one_time_prekey(queue)
    PROVE  Advanced(new, queue)
  <1>1. CASE queue # <<>> /\ is_one_time(Head(queue))
    <2>1. new = Tail(queue)
      BY Zenon, <1>1 DEF consume_one_time_prekey
    <2>2. /\ Len(new) = Len(queue) - 1 /\ \A i \in 1..Len(new) : new[i] = queue[i + 1]
          /\ Len(queue) \in Nat
      BY <1>1, <2>1
    <2>3. \A i \in 1..Len(new) : i + 1 \in 1..Len(queue) /\ i + 1 # 1
      BY <2>2
    <2>4. \A i, j \in 1..Len(new) : i + 1 = j + 1 => i = j
      BY <2>2
    <2>5. ASSUME NEW i \in 1..Len(new), NEW j \in 1..Len(new), is_one_time(new[i]), new[i] = new[j]
          PROVE  i = j
      <3>1. PICK k \in 1..Len(queue), l \in 1..Len(queue) :
                 k = i + 1 /\ l = j + 1 /\ new[i] = queue[k] /\ new[j] = queue[l]
        BY Zenon, <2>2, <2>3
      <3>2. k = l
        BY Zenon, <2>5, <3>1 DEF Single
      <3> QED
        BY Zenon, <2>4, <3>1, <3>2
    <2> QED
      BY Zenon, <2>2, <2>3, <2>5 DEF Advanced, Single
  <1>2. CASE ~(queue # <<>> /\ is_one_time(Head(queue)))
    <2>1. new = queue
      BY Zenon, <1>2 DEF consume_one_time_prekey
    <2>2. \A i \in 1..Len(queue) : i = 1 => ~is_one_time(queue[i])
      BY <1>2
    <2> QED
      BY Zenon, <2>1, <2>2 DEF Advanced
  <1> QED
    BY Zenon, <1>1, <1>2

\* A batch of new one-time prekeys leaves each of them on offer once.
LEMMA PublishSingle ==
    ASSUME NEW queue \in Seq(Bundle), NEW batch \in Seq(Bundle), Single(queue), Single(batch),
           \A i \in 1..Len(batch) : is_one_time(batch[i]) =>
              \A j \in 1..Len(queue) : queue[j] # batch[i],
           NEW new, new = publish_prekey_bundles(queue, batch), Published(new, queue, batch)
    PROVE  Single(new)
  <1> DEFINE all == queue \o batch
             one_time == {i \in DOMAIN all : is_one_time(all[i])}
             first == Kept(all, one_time)
             rest == DOMAIN all \ one_time
             fallbacks == Kept(all, rest)
  <1>1. new = first \o (IF fallbacks = <<>> THEN <<>> ELSE <<fallbacks[Len(fallbacks)]>>)
    BY Zenon DEF publish_prekey_bundles
  <1>2. /\ all \in Seq(Bundle) /\ Len(queue) \in Nat
        /\ \A i \in 1..Len(all) : \/ i \in 1..Len(queue) /\ all[i] = queue[i]
                                  \/ /\ i - Len(queue) \in 1..Len(batch)
                                     /\ all[i] = batch[i - Len(queue)]
    OBVIOUS
  <1>3. \A i \in one_time : is_one_time(all[i])
    OBVIOUS
  <1> HIDE DEF all, one_time, rest
  <1>4. DistinctAt(all, one_time)
    <2> SUFFICES ASSUME NEW i \in 1..Len(all), NEW j \in 1..Len(all), i \in one_time, j \in one_time,
                        all[i] = all[j]
                 PROVE  i = j
      BY Zenon DEF DistinctAt
    <2>1. is_one_time(all[i]) /\ is_one_time(all[j])
      BY Zenon, <1>3
    <2>2. CASE i \in 1..Len(queue) /\ all[i] = queue[i] /\ j \in 1..Len(queue) /\ all[j] = queue[j]
      BY Zenon, <2>1, <2>2 DEF Single
    <2>3. CASE /\ i - Len(queue) \in 1..Len(batch) /\ all[i] = batch[i - Len(queue)]
               /\ j - Len(queue) \in 1..Len(batch) /\ all[j] = batch[j - Len(queue)]
      <3>1. i - Len(queue) = j - Len(queue)
        BY Zenon, <2>1, <2>3 DEF Single
      <3> QED
        BY <1>2, <3>1
    <2>4. CASE /\ i \in 1..Len(queue) /\ all[i] = queue[i]
               /\ j - Len(queue) \in 1..Len(batch) /\ all[j] = batch[j - Len(queue)]
      BY Zenon, <2>1, <2>4
    <2>5. CASE /\ j \in 1..Len(queue) /\ all[j] = queue[j]
               /\ i - Len(queue) \in 1..Len(batch) /\ all[i] = batch[i - Len(queue)]
      BY Zenon, <2>1, <2>5
    <2> QED
      BY Zenon, <1>2, <2>2, <2>3, <2>4, <2>5
  <1>5. IsInjective(first)
    BY Zenon, <1>2, <1>4, KeptOnce
  <1>6. first \in Seq(Bundle)
    BY Zenon, <1>2, KeptElements DEF Selects
  <1>7. fallbacks \in Seq(Bundle)
    BY Zenon, <1>2, KeptElements DEF Selects
  <1> HIDE DEF first, fallbacks
  <1>8. /\ new \in Seq(Bundle) /\ Len(new) \in Nat /\ Len(first) \in Nat /\ Len(new) <= Len(first) + 1
        /\ \A i \in 1..Len(first) : new[i] = first[i]
        /\ DOMAIN first = 1..Len(first)
    <2>1. new \in Seq(Bundle)
      BY Zenon DEF Published
    <2> QED
      BY <1>1, <1>6, <1>7, <2>1
  <1>9. new[Len(new)] = LastResort /\ ~is_one_time(LastResort)
    BY Zenon DEF Published, QueueShape, is_one_time, LastResort
  <1> SUFFICES ASSUME NEW i \in 1..Len(new), NEW j \in 1..Len(new), is_one_time(new[i]),
                      new[i] = new[j]
               PROVE  i = j
    BY Zenon DEF Single
  <1>10. i # Len(new) /\ j # Len(new)
    BY Zenon, <1>9
  <1>11. i \in 1..Len(first) /\ j \in 1..Len(first)
    BY <1>8, <1>10
  <1> QED
    BY Zenon, <1>5, <1>8, <1>11 DEF IsInjective

\* Only EstablishSessions sets up a session, and only DecryptMessage accepts one.
LEMMA StepHistory ==
    ASSUME BaseInv, SessionInv, Steps
    PROVE  /\ started' = started \/ Initiates
           /\ accepted' = accepted \/ \E e : Decrypts(e)
  <1>1. ASSUME NEW e, Decrypts(e)
        PROVE  started' = started
    BY Zenon, <1>1, DecryptOpens DEF Opened
  <1>2. CASE Quiet
    BY Zenon, <1>2, QuietState
  <1>3. CASE Forgets \/ Encrypts \/ Initiates
    BY Zenon, <1>3 DEF Forgets, Encrypts, Initiates
  <1> QED
    BY Zenon, <1>1, <1>2, <1>3 DEF Steps, Quiet

\* A session that cannot be accepted any more stays so.
LEMMA LiveStays ==
    ASSUME BaseInv, SessionInv, OneBase, Steps, NEW s \in started, Live(s)'
    PROVE  Live(s)
  <1>1. s.owner \in Participants
    BY Zenon DEF SessionInv, Named
  <1>2. CASE s \in accepted'
    <2>1. CASE accepted' = accepted
      BY Zenon, <1>2, <2>1 DEF Live
    <2>2. ASSUME NEW e, Decrypts(e)
          PROVE  Live(s)
      <3>1. PICK p, m : /\ p = cmd.peer /\ m = e.message /\ Opening(p, m)
                        /\ Opened(p, m)
        BY Zenon, <2>2, DecryptOpens
      <3>2. s \in accepted \/ s = Entry(p, m)
        <4>1. CASE Known(p, m.sender, m.base)
          BY Zenon, <1>2, <3>1, <4>1 DEF Opened
        <4>2. CASE ~Known(p, m.sender, m.base)
          <5>1. accepted' = accepted \cup {Entry(p, m)}
            BY Zenon, <3>1, <4>2 DEF Opened
          <5> QED
            BY Zenon, <1>2, <5>1
        <4> QED
          BY Zenon, <4>1, <4>2
      <3>3. m.sender \in Alive /\ Known(m.sender, p, m.base)
        BY Zenon, <3>1 DEF Opening
      <3>4. Entry(p, m).owner = p /\ Entry(p, m).base = m.base
        BY Zenon DEF Entry
      <3> QED
        BY Zenon, <3>2, <3>3, <3>4 DEF Live
    <2> QED
      BY Zenon, <2>1, <2>2, StepHistory
  <1>3. ASSUME NEW p \in Alive', Known(p, s.owner, s.base)', ~Live(s)
        PROVE  FALSE
    <2>1. p \in Alive /\ p \in Participants
      BY Zenon, <1>3, StepAlive DEF Alive
    <2>2. ~Known(p, s.owner, s.base)
      BY Zenon, <1>3, <2>1 DEF Live
    <2>3. AddsBase(p, s.owner, s.base)
      BY Zenon, <1>1, <1>3, <2>1, <2>2, StepKnown
    <2>4. ASSUME NEW e, Decrypts(e), p = cmd.peer, s.owner = e.message.sender, s.base = e.message.base
          PROVE  FALSE
      <3>1. PICK m : m = e.message /\ Opening(p, m)
        BY Zenon, <2>4, DecryptOpens
      <3>2. m.bundle # NoBundle
        BY Zenon, <2>2, <2>4, <3>1 DEF Opening, Opens, Known
      <3>3. Entry(p, m) \in started
        BY Zenon, <2>1, <3>1, <3>2 DEF Opening, SessionInv, Named
      <3>4. Entry(p, m).base = m.base /\ Entry(p, m).owner = p
        BY Zenon DEF Entry
      <3>5. s = Entry(p, m)
        BY Zenon, <2>4, <3>1, <3>3, <3>4 DEF OneBase
      <3> QED
        BY Zenon, <2>4, <3>1, <3>4, <3>5 DEF Opening
    <2>5. ~(Initiates /\ s.base = pairs)
      BY Zenon DEF Initiates, SessionInv, Fresh, Old, Starting
    <2> QED
      BY Zenon, <2>3, <2>4, <2>5 DEF AddsBase
  <1> QED
    BY Zenon, <1>2, <1>3 DEF Live

\* A session is set up with the bundle at the front of a queue that has it once.
LEMMA NextUsedOnce ==
    ASSUME BaseInv, SessionInv, OneBase, OfferedOnce, UsedOnce, Steps
    PROVE  UsedOnce'
  <1> SUFFICES ASSUME lost' = 0, NEW s \in started', NEW t \in started', Live(s)', Live(t)',
                      s.owner = t.owner, s.bundle = t.bundle, is_one_time(s.bundle)
               PROVE  s = t
    BY Zenon DEF UsedOnce, is_one_time
  <1>1. lost = 0
    BY Zenon, AnsweredSteps
  <1>2. CASE s \in started /\ t \in started
    <2>1. Live(s) /\ Live(t)
      BY Zenon, <1>2, LiveStays
    <2> QED
      BY Zenon, <1>1, <1>2, <2>1 DEF UsedOnce
  <1>3. ASSUME NEW x \in started, Live(x)', NEW y \in started' \ started, x.owner = y.owner,
               x.bundle = y.bundle, is_one_time(x.bundle)
        PROVE  FALSE
    <2>1. Live(x)
      BY Zenon, <1>3, LiveStays
    <2>2. Initiates
      BY Zenon, <1>3, StepHistory
    <2>3. y.owner = cmd.peer /\ y.bundle = prekey_bundles[cmd.peer][1]
      <3>1. y = [owner |-> cmd.peer, bundle |-> prekey_bundles[cmd.peer][1], base |-> pairs]
        BY Zenon, <1>3, <2>2 DEF Initiates
      <3> QED
        BY Zenon, <3>1
    <2>4. 1 \in 1..Len(prekey_bundles[cmd.peer])
      <3>1. cmd.peer \in active /\ prekey_bundles[cmd.peer] \in Seq(Bundle)
        <4>1. cmd.actor # cmd.peer /\ cmd.pc # "idle" /\ cmd.peer \in Participants
          BY <2>2 DEF BaseInv, OfferInv, CommandOK, Initiates, Moves
        <4> QED
          BY Zenon, <4>1 DEF BaseInv, OfferInv, CommandOK, ServiceTypes
      <3>2. prekey_bundles[cmd.peer] # <<>>
        BY Zenon, <3>1 DEF BaseInv, OfferInv, Prepared
      <3> QED
        BY <3>1, <3>2
    <2>5. cmd.pc = "consume"
      BY Zenon, <1>1, <1>3, <2>1, <2>3, <2>4 DEF OfferedOnce
    <2> QED
      BY <2>2, <2>5 DEF Initiates
  <1>4. CASE s \notin started /\ t \notin started
    <2>1. started' = started \cup
              {[owner |-> cmd.peer, bundle |-> prekey_bundles[cmd.peer][1], base |-> pairs]}
      BY Zenon, <1>4, StepHistory DEF Initiates
    <2> QED
      BY Zenon, <1>4, <2>1
  <1> QED
    BY Zenon, <1>2, <1>3, <1>4

\* What an answered request does to the queue of the peer.
Serves(q) ==
    \/ /\ cmd.pc = "put" /\ Single(prekey_bundles'[q])
       /\ Published(prekey_bundles'[q], prekey_bundles[q], cmd.batch)
    \/ cmd.pc = "consume" /\ Advanced(prekey_bundles'[q], prekey_bundles[q])
    \/ cmd.pc = "post" /\ prekey_bundles'[q] = prekey_bundles[q]

\* The other queues are as before.
Spares(q) == \A p \in Participants : p # q => prekey_bundles'[p] = prekey_bundles[p]

\* It does that, and leaves the other queues alone.
LEMMA AnsweredServes ==
    ASSUME BaseInv, OfferedOnce, Steps, lost' = 0, NEW r, Executes(r), NEW q, q = cmd.peer
    PROVE  q \in Participants /\ Serves(q) /\ Spares(q)
  <1>1. lost = 0 /\ r = CurrentRequest /\ Requesting /\ RequestOK(r) /\ Execute(r)
    BY Zenon, AnsweredSteps DEF Executes
  <1>2. /\ r.op = cmd.pc /\ r.at = q /\ (cmd.pc = "put" => r.batch = cmd.batch)
    BY Zenon, <1>1 DEF CurrentRequest
  <1>3. /\ r.at \in Participants /\ r.op \in {"put", "consume", "post"}
        /\ \A p \in Participants : p # r.at \/ r.op = "post" => prekey_bundles'[p] = prekey_bundles[p]
        /\ r.op = "put" => prekey_bundles'[r.at] = publish_prekey_bundles(prekey_bundles[r.at], r.batch)
        /\ r.op = "consume" => prekey_bundles'[r.at] = consume_one_time_prekey(prekey_bundles[r.at])
    BY Zenon, <1>1, ExecuteQueues DEF BaseInv
  <1>4. PICK queue, new : queue = prekey_bundles[q] /\ new = prekey_bundles'[q]
    BY Zenon
  <1>5. /\ queue \in Seq(Bundle) /\ QueueShape(queue) /\ Single(queue)
        /\ \A i \in 1..Len(queue) : Stored(q, queue[i])
    BY Zenon, <1>1, <1>2, <1>3, <1>4 DEF BaseInv, OfferInv, ServiceTypes, Offered, OfferedOnce
  <1>6. CASE cmd.pc = "put"
    <2>1. PICK batch : batch = cmd.batch
      BY Zenon
    <2>2. /\ batch \in Seq(Bundle) /\ \A i \in 1..Len(batch) : Stored(q, batch[i])
          /\ \E i \in 1..Len(batch) : batch[i] = LastResort
      BY Zenon, <1>1, <1>2, <1>6, <2>1 DEF RequestOK, BatchOK, Request
    <2>3. Plain(queue) /\ Plain(batch)
      BY Zenon, <1>5, <2>2 DEF Plain, Stored
    <2>4. new = publish_prekey_bundles(queue, batch)
      BY Zenon, <1>2, <1>3, <1>4, <1>6, <2>1
    <2>5. Published(new, queue, batch)
      BY Zenon, <1>5, <2>2, <2>3, <2>4, PublishQueue
    <2>6. Single(batch)
      BY Zenon, <1>1, <1>6, <2>1 DEF OfferedOnce
    <2>7. \A i \in 1..Len(batch) : is_one_time(batch[i]) => \A j \in 1..Len(queue) : queue[j] # batch[i]
      BY Zenon, <1>1, <1>4, <1>6, <2>1 DEF OfferedOnce
    <2>8. Single(new)
      BY Zenon, <1>5, <2>2, <2>4, <2>5, <2>6, <2>7, PublishSingle
    <2> QED
      BY Zenon, <1>2, <1>3, <1>4, <1>6, <2>1, <2>5, <2>8 DEF Serves, Spares
  <1>7. CASE cmd.pc = "consume"
    <2>1. new = consume_one_time_prekey(queue)
      BY Zenon, <1>2, <1>3, <1>4, <1>7
    <2>2. Advanced(new, queue)
      BY Zenon, <1>5, <2>1, ConsumeSingle
    <2> QED
      BY Zenon, <1>2, <1>3, <1>4, <1>7, <2>2 DEF Serves, Spares
  <1>8. CASE cmd.pc = "post"
    BY Zenon, <1>2, <1>3, <1>8 DEF Serves, Spares
  <1> QED
    BY Zenon, <1>2, <1>3, <1>6, <1>7, <1>8 DEF Spares

\* No queue gets a one-time prekey twice.
LEMMA StepSingle ==
    ASSUME BaseInv, OfferedOnce, Steps, lost' = 0, NEW q \in Participants
    PROVE  Single(prekey_bundles'[q])
  <1>1. Single(prekey_bundles[q])
    BY Zenon, AnsweredSteps DEF OfferedOnce
  <1>2. ASSUME NEW r, Executes(r)
        PROVE  Single(prekey_bundles'[q])
    <2>1. CASE q = cmd.peer
      <3>1. Serves(q)
        BY Zenon, <1>2, <2>1, AnsweredServes
      <3> QED
        BY Zenon, <1>1, <3>1 DEF Serves, Advanced
    <2>2. CASE q # cmd.peer
      <3>1. PICK x : x = cmd.peer
        BY Zenon
      <3>2. Spares(x)
        BY Zenon, <1>2, <3>1, AnsweredServes
      <3> QED
        BY Zenon, <1>1, <2>2, <3>1, <3>2 DEF Spares
    <2> QED
      BY Zenon, <2>1, <2>2
  <1>3. CASE ~\E r : Executes(r)
    <2>1. prekey_bundles' = prekey_bundles
      BY Zenon, <1>3 DEF Steps, Rests, Starts, Prepares, GoesOn, Forgets, Initiates, Encrypts,
         Decrypts, Fails, Loses, vars, services
    <2> QED
      BY Zenon, <1>1, <2>1
  <1> QED
    BY Zenon, <1>2, <1>3

\* A request that is answered leaves no bundle of a session on offer.
LEMMA AnsweredOffered ==
    ASSUME BaseInv, SessionInv, OneBase, OfferedOnce, Steps, lost' = 0, NEW r, Executes(r),
           NEW s \in started, Live(s), is_one_time(s.bundle),
           NEW i \in 1..Len(prekey_bundles'[s.owner]), s.bundle = prekey_bundles'[s.owner][i]
    PROVE  FALSE
  <1>1. PICK q : q = cmd.peer
    BY Zenon
  <1>2. q \in Participants /\ Serves(q) /\ Spares(q)
    BY Zenon, <1>1, AnsweredServes
  <1>3. s.owner \in Participants /\ lost = 0
    BY Zenon, AnsweredSteps DEF SessionInv, Named
  <1>4. ASSUME NEW j \in 1..Len(prekey_bundles[s.owner]), s.bundle = prekey_bundles[s.owner][j]
        PROVE  cmd.pc = "consume" /\ s.owner = q /\ j = 1
    BY Zenon, <1>1, <1>3, <1>4 DEF OfferedOnce
  <1>5. s.owner = q
    BY Zenon, <1>2, <1>3, <1>4 DEF Spares
  <1>6. CASE cmd.pc = "put"
    <2>1. Published(prekey_bundles'[q], prekey_bundles[q], cmd.batch)
      BY <1>2, <1>6 DEF Serves
    <2>2. \/ \E j \in 1..Len(prekey_bundles[q]) : s.bundle = prekey_bundles[q][j]
          \/ \E j \in 1..Len(cmd.batch) : s.bundle = cmd.batch[j]
      BY Zenon, <1>5, <2>1 DEF Published
    <2>3. cmd.pc # "consume"
      BY <1>6
    <2>4. PICK j \in 1..Len(cmd.batch) : s.bundle = cmd.batch[j]
      BY Zenon, <1>4, <1>5, <2>2, <2>3
    <2> QED
      BY Zenon, <1>1, <1>3, <1>5, <1>6, <2>4 DEF OfferedOnce
  <1>7. CASE cmd.pc = "consume"
    <2>1. Advanced(prekey_bundles'[q], prekey_bundles[q])
      BY <1>2, <1>7 DEF Serves
    <2>2. PICK j \in 1..Len(prekey_bundles[q]) : j # 1 /\ s.bundle = prekey_bundles[q][j]
      BY Zenon, <1>5, <2>1 DEF Advanced
    <2> QED
      BY Zenon, <1>4, <1>5, <2>2
  <1>8. CASE cmd.pc = "post"
    <2>1. prekey_bundles'[q] = prekey_bundles[q]
      BY <1>2, <1>8 DEF Serves
    <2>2. cmd.pc # "consume"
      BY <1>8
    <2> QED
      BY Zenon, <1>4, <1>5, <2>1, <2>2
  <1> QED
    BY Zenon, <1>2, <1>6, <1>7, <1>8 DEF Serves

\* A handshake that ends before its consume is answered leaves no session to accept.
LEMMA ConsumeCutShort ==
    ASSUME BaseInv, SessionInv, OneBase, Steps, lost' = 0, cmd.pc = "consume",
           ~\E r : Executes(r), NEW s \in started, Live(s)', s.owner = cmd.peer, s.base = pairs
    PROVE  cmd' = cmd /\ pairs' = pairs
  <1>1. ~cmd.tried /\ ~Loses
    BY Zenon, AnsweredSteps
  <1>2. CASE Rests
    <2>1. /\ cmd.actor # cmd.peer /\ cmd.actor \in Participants /\ cmd.peer \in Participants
      BY Zenon, PairAlive DEF SessionInv, Handshaking
    <2>2. Failing = {cmd.actor}
      BY DEF Failing
    <2>3. mode.sweep /\ mode' = mode /\ cmd.actor \in dropped' /\ UNCHANGED <<sessions, accepted>>
      <3>1. cmd.pc \notin {"idle", "done"}
        OBVIOUS
      <3> QED
        BY Zenon, <1>2, <2>1, <2>2, <3>1 DEF Rests, ratchets
    <2>4. s \notin accepted
      <3>1. s \in accepted => s.base \in base_keys_seen[cmd.peer]
        BY Zenon DEF SessionInv, Named
      <3> QED
        BY Zenon, <2>1, <3>1 DEF SessionInv, Fresh, Old
    <2>5. PICK p \in Alive' : Known(p, s.owner, s.base)'
      BY Zenon, <2>3, <2>4 DEF Live
    <2>6. p \in Participants /\ p \notin dropped' /\ Known(p, cmd.peer, pairs)
      BY Zenon, <2>3, <2>5 DEF Alive, Known
    <2>7. Known(cmd.actor, cmd.peer, pairs)
      BY Zenon DEF OneBase
    <2>8. p = cmd.actor
      BY Zenon, <2>1, <2>6, <2>7 DEF SessionInv, OnePair
    <2> QED
      BY Zenon, <2>3, <2>6, <2>8
  <1>3. CASE Starts \/ Prepares \/ GoesOn \/ Forgets \/ Initiates \/ Encrypts \/ Fails
             \/ \E e : Decrypts(e)
    BY <1>1, <1>3 DEF Starts, Prepares, GoesOn, Forgets, Initiates, Encrypts, Fails, Decrypts
  <1>4. CASE UNCHANGED vars
    BY Zenon, <1>4 DEF vars, runner
  <1> QED
    BY Zenon, <1>1, <1>2, <1>3, <1>4 DEF Steps

\* A session's bundle is on offer only until its consume is answered.
LEMMA StepOffered ==
    ASSUME BaseInv, SessionInv, OneBase, OfferedOnce, Steps, lost' = 0,
           NEW s \in started', Live(s)', is_one_time(s.bundle),
           NEW i \in 1..Len(prekey_bundles'[s.owner]), s.bundle = prekey_bundles'[s.owner][i]
    PROVE  cmd'.pc = "consume" /\ s.owner = cmd'.peer /\ i = 1 /\ s.base = pairs'
  <1>1. lost = 0
    BY Zenon, AnsweredSteps
  <1>2. s \in started => Live(s)
    BY Zenon, LiveStays
  <1>3. CASE s \in started /\ \E r : Executes(r)
    BY Zenon, <1>2, <1>3, AnsweredOffered
  <1>4. CASE ~\E r : Executes(r)
    <2>1. prekey_bundles' = prekey_bundles
      BY Zenon, <1>4 DEF Steps, Rests, Starts, Prepares, GoesOn, Forgets, Initiates, Encrypts,
         Decrypts, Fails, Loses, vars, services
    <2>2. CASE s \in started
      <3>1. cmd.pc = "consume" /\ s.owner = cmd.peer /\ i = 1 /\ s.base = pairs
        BY Zenon, <1>1, <1>2, <2>1, <2>2 DEF OfferedOnce
      <3>2. cmd' = cmd /\ pairs' = pairs
        BY Zenon, <1>4, <2>2, <3>1, ConsumeCutShort
      <3> QED
        BY Zenon, <3>1, <3>2
    <2>3. CASE s \notin started
      <3>1. Initiates
        BY Zenon, <2>3, StepHistory
      <3>2. s = [owner |-> cmd.peer, bundle |-> prekey_bundles[cmd.peer][1], base |-> pairs]
        BY Zenon, <2>3, <3>1 DEF Initiates
      <3>3. s.owner = cmd.peer /\ s.bundle = prekey_bundles[cmd.peer][1] /\ s.base = pairs
        BY Zenon, <3>2
      <3>4. cmd'.pc = "consume" /\ cmd'.peer = cmd.peer /\ pairs' = pairs /\ cmd.peer \in Participants
        BY Zenon, <3>1 DEF Initiates, Moves, runner
      <3>5. PICK queue \in Seq(Bundle) : queue = prekey_bundles[cmd.peer] /\ Single(queue)
        BY Zenon, <1>1, <3>4 DEF BaseInv, OfferInv, ServiceTypes, OfferedOnce
      <3>6. i \in 1..Len(queue) /\ queue[i] = queue[1] /\ is_one_time(queue[1])
        BY Zenon, <2>1, <3>3, <3>5
      <3>7. 1 \in 1..Len(queue)
        BY <3>5, <3>6
      <3>8. i = 1
        BY Zenon, <3>5, <3>6, <3>7 DEF Single
      <3> QED
        BY Zenon, <3>3, <3>4, <3>8
    <2> QED
      BY Zenon, <2>2, <2>3
  <1>5. s \in started \/ ~\E r : Executes(r)
    BY Zenon DEF Executes, ratchets
  <1> QED
    BY Zenon, <1>3, <1>4, <1>5

\* A batch of one-time prekeys that are new to a queue and to the sessions set up.
NewBatch(p, batch) ==
    /\ Single(batch)
    /\ \A i \in 1..Len(batch) : is_one_time(batch[i]) =>
          /\ \A j \in 1..Len(prekey_bundles[p]) : prekey_bundles[p][j] # batch[i]
          /\ \A s \in started : s.owner = p => s.bundle # batch[i]

\* Generated identifiers are larger than those of all stored keys.
LEMMA GeneratedIsNew ==
    ASSUME BaseInv, SessionInv, NEW p \in Participants, NEW count \in Nat \ {0},
           Generate(p, count), cmd'.pc = "put", NEW batch, batch = cmd'.batch
    PROVE  NewBatch(p, batch)
  <1>1. PICK first : first = next_one_time_prekey_id[p]
    BY Zenon
  <1>2. /\ Len(batch) = count + 1 /\ batch[count + 1] = LastResort
        /\ \A i \in 1..count : batch[i] = OneTime(first + i - 1)
    BY ZenonT(30), <1>1, GeneratedBatch DEF BaseInv
  <1>3. first \in Nat
    <2>1. next_one_time_prekey_id[p] \in Ids
      BY Zenon DEF BaseInv, IInv, StoresOK
    <2> QED
      BY <1>1, <2>1, SettingsAssumption DEF Ids
  <1>4. ~is_one_time(LastResort)
    BY Zenon DEF is_one_time, LastResort
  <1>5. ASSUME NEW i \in 1..Len(batch), is_one_time(batch[i])
        PROVE  i \in 1..count /\ batch[i].id = first + i - 1
    <2>1. i # count + 1
      BY Zenon, <1>2, <1>4, <1>5
    <2>2. i \in 1..count
      BY <1>2, <2>1
    <2>3. batch[i] = OneTime(first + i - 1)
      BY <1>2, <2>2
    <2>4. \A x : OneTime(x).id = x
      BY Zenon DEF OneTime
    <2> QED
      BY Zenon, <2>2, <2>3, <2>4
  <1>6. ASSUME NEW i \in 1..Len(batch), NEW j \in 1..Len(batch), is_one_time(batch[i]),
               batch[i] = batch[j]
        PROVE  i = j
    <2>1. /\ i \in 1..count /\ batch[i].id = first + i - 1
          /\ j \in 1..count /\ batch[j].id = first + j - 1
      BY Zenon, <1>5, <1>6
    <2>2. first + i - 1 = first + j - 1
      BY Zenon, <1>6, <2>1
    <2> QED
      BY <1>3, <2>1, <2>2
  <1>7. ASSUME NEW i \in 1..Len(batch), is_one_time(batch[i]), Stored(p, batch[i])
        PROVE  FALSE
    <2>1. i \in 1..count /\ batch[i].id = first + i - 1
      BY Zenon, <1>5, <1>7
    <2>2. batch[i].id < first
      BY Zenon, <1>1, <1>7 DEF Stored
    <2> QED
      BY <1>3, <2>1, <2>2
  <1>8. \A j \in 1..Len(prekey_bundles[p]) : Stored(p, prekey_bundles[p][j])
    BY Zenon DEF BaseInv, OfferInv, Offered
  <1>9. \A s \in started : s.owner = p => Stored(p, s.bundle)
    BY Zenon DEF SessionInv, Named
  <1>10. ASSUME NEW i \in 1..Len(batch), is_one_time(batch[i])
         PROVE  /\ \A j \in 1..Len(prekey_bundles[p]) : prekey_bundles[p][j] # batch[i]
                /\ \A s \in started : s.owner = p => s.bundle # batch[i]
    BY Zenon, <1>7, <1>8, <1>9, <1>10
  <1> QED
    BY Zenon, <1>6, <1>10 DEF NewBatch, Single

\* As long as every request is answered, a one-time prekey is on offer once.
LEMMA NextOfferedOnce ==
    ASSUME BaseInv, SessionInv, OneBase, OfferedOnce, Steps
    PROVE  OfferedOnce'
  <1> SUFFICES ASSUME lost' = 0
               PROVE  OfferedOnce'
    BY Zenon DEF OfferedOnce
  <1>1. /\ lost = 0 /\ ~Loses
        /\ \A r : Executes(r) => r = CurrentRequest /\ Requesting /\ Moves(Answered)
    BY Zenon, AnsweredSteps
  <1>2. \A q \in Participants : Single(prekey_bundles'[q])
    BY Zenon, StepSingle
  <1>3. \A s \in started' : \A i \in 1..Len(prekey_bundles'[s.owner]) :
           Live(s)' /\ is_one_time(s.bundle) /\ s.bundle = prekey_bundles'[s.owner][i]
           => cmd'.pc = "consume" /\ s.owner = cmd'.peer /\ i = 1 /\ s.base = pairs'
    BY Zenon, StepOffered
  <1>4. ASSUME cmd'.pc = "put"
        PROVE  NewBatch(cmd.peer, cmd.batch)'
    <2>1. CASE Prepares
      <3>1. PICK p, batch : p = cmd.peer /\ batch = cmd'.batch
        BY Zenon
      <3>2. PICK count \in Nat \ {0} : Generate(cmd.peer, count)
        BY <1>4, <2>1 DEF Prepares
      <3>3. /\ p \in Participants /\ cmd'.peer = p
            /\ UNCHANGED <<prekey_bundles, started>>
        BY Zenon, <2>1, <3>1 DEF Prepares, Moves, services, ratchets
      <3>4. NewBatch(p, batch)
        BY Zenon, <1>4, <3>1, <3>2, <3>3, GeneratedIsNew
      <3> QED
        BY Zenon, <3>1, <3>3, <3>4 DEF NewBatch, Single, is_one_time
    <2>2. CASE UNCHANGED vars
      <3>1. NewBatch(cmd.peer, cmd.batch)
        BY Zenon, <1>1, <1>4, <2>2 DEF OfferedOnce, NewBatch, vars
      <3> QED
        BY Zenon, <2>2, <3>1 DEF NewBatch, Single, is_one_time, vars, services, ratchets
    <2>3. CASE \E r : Executes(r)
      BY <1>1, <1>4, <2>3 DEF Requesting, Moves, Answered
    <2>4. CASE Rests \/ Starts \/ GoesOn \/ Forgets \/ Initiates \/ Encrypts \/ Fails
               \/ \E e : Decrypts(e)
      BY <1>4, <2>4 DEF Rests, Starts, GoesOn, Forgets, Initiates, Encrypts, Fails, Decrypts, Moves
    <2> QED
      BY Zenon, <1>1, <2>1, <2>2, <2>3, <2>4 DEF Steps
  <1> QED
    BY Zenon, <1>2, <1>3, <1>4 DEF OfferedOnce, NewBatch, Single, is_one_time

\* A session of an initiator can still be accepted with the bundle it names, unless it was.
LEMMA CanAccept ==
    ASSUME SessionInv, UsedOnce, lost = 0, NEW p \in Alive, NEW q, NEW x, Entry(q, x) \in started,
           Known(p, q, x.base), x.base \notin base_keys_seen[q]
    PROVE  HasKeysFor(q, x.bundle)
  <1>1. PICK t : /\ t = Entry(q, x) /\ t \in started
                 /\ t.owner = q /\ t.bundle = x.bundle /\ t.base = x.base
    <2>1. /\ Entry(q, x).owner = q /\ Entry(q, x).bundle = x.bundle /\ Entry(q, x).base = x.base
      BY Zenon DEF Entry
    <2> QED
      BY Zenon, <2>1
  <1>2. Stored(q, x.bundle) /\ accepted \subseteq started
    BY Zenon, <1>1 DEF SessionInv, Named
  <1>3. Live(t)
    BY Zenon, <1>1 DEF Live
  <1>4. ASSUME is_one_time(x.bundle), NEW s \in accepted, s.owner = q, s.bundle = x.bundle
        PROVE  FALSE
    <2>1. Live(s) /\ s \in started
      BY Zenon, <1>2, <1>4 DEF Live
    <2>2. s = t
      BY Zenon, <1>1, <1>3, <1>4, <2>1 DEF UsedOnce
    <2>3. s.base \in base_keys_seen[q]
      BY Zenon, <1>4 DEF SessionInv, Named
    <2> QED
      BY Zenon, <1>1, <2>2, <2>3
  <1> QED
    BY Zenon, <1>2, <1>4 DEF Stored, HasKeysFor

\* As long as every request is answered, a first message that waits is opened.
LEMMA NextAllOpened ==
    ASSUME BaseInv, SessionInv, AnsweredInv, Steps
    PROVE  AllOpened'
  <1> SUFFICES ASSUME cmd'.pc = "not_opened", lost' = 0
               PROVE  FALSE
    BY Zenon DEF AllOpened
  <1>1. /\ lost = 0 /\ ~Loses
        /\ \A r : Executes(r) => r = CurrentRequest /\ Requesting /\ Moves(Answered)
    BY Zenon, AnsweredSteps
  <1>2. CASE Fails
    <2>1. PICK q, m : q = cmd.peer /\ m = Head(Pending).message
      BY Zenon
    <2>2. cmd.pc = "decrypt"
      BY Zenon, <1>2 DEF Fails
    <2>3. q \in Alive /\ q \in Participants /\ ServiceTypes
      BY Zenon, <2>1, <2>2, PairAlive DEF SessionInv, Handshaking, BaseInv, OfferInv
    <2>4. PICK i \in 1..Len(inboxes[q]) : inboxes[q][i].message = cmd.message
      BY Zenon, <2>1, <2>2 DEF SessionInv, MessageOK
    <2>5. inboxes[q][i].sender = cmd.actor
      BY Zenon, <2>2, <2>3, <2>4 DEF SessionInv, MessageOK, Envelopes
    <2>6. Pending # <<>>
      BY Zenon, <2>1, <2>3, <2>5, PendingElements
    <2>7. ~Opens(q, m)
      BY Zenon, <1>2, <2>1, <2>6 DEF Fails
    <2>8. InFlight(q, m) /\ m.sender \in Alive
      BY Zenon, <2>1, <2>2, <2>6, HeadOfPending DEF SessionInv
    <2>9. m \notin opened[q]
      BY Zenon, <1>1, <2>3, <2>8 DEF AnsweredInv, Once
    <2>10. Known(m.sender, q, m.base) /\ Linked(m.sender, q, m)
      BY Zenon, <2>3, <2>8, <2>9 DEF SessionInv, Flight
    <2>11. ~Known(q, m.sender, m.base)
      BY Zenon, <2>7, <2>9 DEF Opens, Known
    <2>12. m.bundle # NoBundle /\ m.base \notin base_keys_seen[q]
      BY Zenon, <2>10, <2>11 DEF Linked
    <2>13. Entry(q, m) \in started
      BY Zenon, <2>3, <2>8, <2>12 DEF SessionInv, Named
    <2>14. HasKeysFor(q, m.bundle)
      BY Zenon, <1>1, <2>8, <2>10, <2>12, <2>13, CanAccept DEF AnsweredInv
    <2> QED
      BY Zenon, <2>7, <2>11, <2>12, <2>14 DEF Opens, Known
  <1>3. CASE UNCHANGED vars
    BY Zenon, <1>1, <1>3 DEF AnsweredInv, AllOpened, vars
  <1>4. CASE \E r : Executes(r)
    BY <1>1, <1>4 DEF Requesting, Moves, Answered
  <1>5. CASE Rests \/ Starts \/ Prepares \/ GoesOn \/ Forgets \/ Initiates \/ Encrypts
             \/ \E e : Decrypts(e)
    BY <1>5 DEF Rests, Starts, Prepares, GoesOn, Forgets, Initiates, Encrypts, Decrypts, Moves
  <1> QED
    BY Zenon, <1>1, <1>2, <1>3, <1>4, <1>5 DEF Steps

\* No request is unanswered at first.
LEMMA InitAnswered == Init => AnsweredInv
  <1> SUFFICES ASSUME Init PROVE AnsweredInv
    OBVIOUS
  <1>1. /\ cmd.pc = "idle" /\ late = {} /\ started = {}
        /\ \A p \in Participants : opened[p] = {} /\ inboxes[p] = <<>> /\ prekey_bundles[p] = <<>>
    BY Zenon DEF Init, Idle
  <1>2. 1..Len(<<>>) = {}
    OBVIOUS
  <1>3. cmd.pc \notin {"post", "consume", "put", "not_opened"}
    BY <1>1
  <1>4. \A q \in Participants : \A m : ~InFlight(q, m)
    BY Zenon, <1>1, <1>2, <1>3 DEF InFlight
  <1>5. Counters /\ BothGone
    BY Zenon, <1>1, <1>4 DEF Counters, BothGone
  <1>6. OneBase /\ AllOpened
    BY <1>1 DEF OneBase, AllOpened
  <1>7. Once
    BY Zenon, <1>1, <1>2, <1>3, <1>4 DEF Once
  <1>8. OfferedOnce /\ UsedOnce
    BY Zenon, <1>1, <1>2, <1>3 DEF OfferedOnce, UsedOnce, Single
  <1> QED
    BY Zenon, <1>5, <1>6, <1>7, <1>8 DEF AnsweredInv

\* Every step keeps the facts about runs in which every request is answered.
LEMMA NextAnswered ==
    ASSUME BaseInv, SessionInv, AnsweredInv, [Next]_vars
    PROVE  AnsweredInv'
  <1>1. Steps
    BY Zenon, StepsHold DEF BaseInv
  <1>2. Counters'
    BY Zenon, <1>1, NextCounters DEF AnsweredInv
  <1>3. BothGone'
    BY Zenon, <1>1, NextBothGone DEF AnsweredInv
  <1>4. OneBase'
    BY Zenon, <1>1, NextOneBase DEF AnsweredInv
  <1>5. Once'
    BY Zenon, <1>1, NextOnce DEF AnsweredInv
  <1>6. OfferedOnce'
    BY Zenon, <1>1, NextOfferedOnce DEF AnsweredInv
  <1>7. UsedOnce'
    BY Zenon, <1>1, NextUsedOnce DEF AnsweredInv
  <1>8. AllOpened'
    BY Zenon, <1>1, NextAllOpened
  <1> QED
    BY Zenon, <1>2, <1>3, <1>4, <1>5, <1>6, <1>7, <1>8 DEF AnsweredInv

\* While every request is answered, a message is delivered once, a one-time prekey
\* is on offer until one session names it, and every first message is opened.
THEOREM AnsweredInvHolds == Spec => []AnsweredInv
  <1>1. BaseInv /\ SessionInv /\ AnsweredInv /\ [Next]_vars => AnsweredInv'
    BY Zenon, NextAnswered
  <1> QED
    BY <1>1, InitAnswered, BaseInvHolds, SessionInvHolds, PTL DEF Spec

\* A message that a peer cannot open is a copy of one it has opened, or names a
\* one-time prekey that another session has used, and some request got no answer.
THEOREM FailuresExplainedHolds == Spec => []FailuresExplained
  <1>1. BaseInv /\ SessionInv /\ AnsweredInv => FailuresExplained
    <2> SUFFICES ASSUME BaseInv, SessionInv, AnsweredInv, cmd.pc = "not_opened"
                 PROVE  FailuresExplained
      BY Zenon DEF FailuresExplained
    <2>1. lost # 0 /\ lost \in Nat
      BY Zenon DEF AnsweredInv, AllOpened, BaseInv, OfferInv, ServiceTypes
    <2>2. lost > 0
      BY <2>1
    <2> QED
      BY Zenon, <2>2 DEF FailuresExplained, SessionInv, Explained
  <1> QED
    BY <1>1, BaseInvHolds, SessionInvHolds, AnsweredInvHolds, PTL

\* In a run in which every request is answered, the session with which an active
\* participant would send is one its peer has on record, or can still set up.
THEOREM NoHalfOpenSessionHolds == Spec => []NoHalfOpenSession
  <1>1. BaseInv /\ SessionInv /\ AnsweredInv => NoHalfOpenSession
    <2> SUFFICES ASSUME BaseInv, SessionInv, AnsweredInv, lost = 0, NEW p \in active, NEW q \in active,
                        sessions[p][q] # <<>>, cmd.pc # "reset_peer",
                        ~Known(q, p, sessions[p][q][1].base)
                 PROVE  /\ sessions[p][q][1].bundle # NoBundle
                        /\ HasKeysFor(q, sessions[p][q][1].bundle)
      BY Zenon DEF NoHalfOpenSession, Known
    <2>1. PICK x : x = sessions[p][q][1]
      BY Zenon
    <2>2. /\ p \in Alive /\ q \in Alive /\ p \in Participants /\ q \in Participants
      BY Zenon DEF BaseInv, OfferInv, RunnerTypes, SessionInv, NotDropped, Alive
    <2>3. Linked(p, q, x)
      BY Zenon, <2>1, <2>2 DEF SessionInv, Heads, HalfReset
    <2>4. x.bundle # NoBundle /\ x.base \notin base_keys_seen[q]
      BY Zenon, <2>1, <2>3 DEF Linked
    <2>5. Entry(q, x) \in started
      BY Zenon, <2>1, <2>2, <2>4 DEF SessionInv, Named
    <2>6. Known(p, q, x.base)
      BY Zenon, <2>1, <2>2, HeadKnown
    <2>7. HasKeysFor(q, x.bundle)
      BY Zenon, <2>2, <2>4, <2>5, <2>6, CanAccept DEF AnsweredInv
    <2> QED
      BY Zenon, <2>1, <2>4, <2>7
  <1> QED
    BY <1>1, BaseInvHolds, SessionInvHolds, AnsweredInvHolds, PTL
=============================================================================
