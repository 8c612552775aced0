------------------------ MODULE ApplicationMessages ------------------------
(***************************************************************************)
(* Application messages of the OpenMLS benchmark: a member encrypts with   *)
(* the sender ratchet of its epoch and posts to the relay, the recipients  *)
(* fetch, decrypt and acknowledge, while the group moves from epoch to     *)
(* epoch, requests stay unanswered and posts are repeated.                 *)
(*                                                                         *)
(* The group is the abstract one of GroupHistory, which the workers and    *)
(* the delivery service implement (MlsWorkers); its steps are taken here   *)
(* together with what they do to the message secrets of a client.          *)
(***************************************************************************)
EXTENDS GroupHistory, FiniteSets

CONSTANTS
    Founder,        \* the worker that is sent CreateGroup
    Tolerance,      \* out_of_order_tolerance of the ratchets (5)
    Forward,        \* maximum_forward_distance of the ratchets (1000)
    MaxEpoch,       \* bounds the epochs
    MaxSends,       \* bounds the messages
    MaxLost         \* bounds the requests that stay unanswered

ASSUME FounderAssumption == Founder \in Clients /\ None \notin [epoch : Nat, members : SUBSET Clients]
ASSUME WindowAssumption == Tolerance \in Nat /\ Forward \in Nat
ASSUME LimitsAssumption == MaxEpoch \in Nat /\ MaxSends \in Nat /\ MaxLost \in Nat

VARIABLES
    welcomed,           \* client -> epochs it has entered with a key package
    enc,                \* client -> generation of its encryption ratchet
    dec,                \* client -> sender -> decryption ratchet
    inboxes,            \* relay: client -> queue of envelopes
    next_message_id,    \* relay
    running,            \* posts the relay is still running: envelopes to push
    acks,               \* acknowledgements on their way to the relay
    worker,             \* client -> the command its actor is in
    lost,               \* number of requests that stayed unanswered
    visited,            \* history: client -> epochs it has been in
    sent,               \* history: messages encrypted
    opened              \* history: client -> messages it has decrypted

group == <<history, view, welcomed, visited>>
ratchets == <<enc, dec>>
relay == <<inboxes, next_message_id, running, acks>>
past == <<sent, opened>>
vars == <<group, ratchets, relay, worker, lost, past>>

Message == [from : Clients, epoch : Nat, gen : Nat]
Envelope == [id : Nat, to : Clients, msg : Message]

Idle == [pc |-> "idle"]
Post(m) == [pc |-> "post", msg |-> m]
Posting(m, id) == [pc |-> "posting", msg |-> m, id |-> id]
Acking(m, id, answer) == [pc |-> "acking", msg |-> m, id |-> id, answer |-> answer]

Worker ==
    [pc : {"idle"}] \cup [pc : {"post"}, msg : Message]
        \cup [pc : {"posting"}, msg : Message, id : Nat]
        \cup [pc : {"acking"}, msg : Message, id : Nat,
              answer : {"received", "duplicate"}]
-----------------------------------------------------------------------------
(* The ratchets of openmls.                                                *)

\* A decryption ratchet: the generation of its head and, latest first, whether
\* the keys of the generations before the head are still there.
Ratchet == [head : Nat, past_secrets : Seq(BOOLEAN)]
NewRatchet == [head |-> 0, past_secrets |-> <<>>]

\* ratchet_forward: the generation after the one whose key is handed out.
NextGeneration(g) == g + 1

\* prune_past_secrets.
Pruned(length) == IF length < Tolerance THEN length ELSE Tolerance

\* Mutants: no entry is made for the key that is handed out; the keys of
\* skipped generations are not kept; nothing is forgotten.
ForwardWithoutEntry(d, g) ==
    LET k == g - d.head IN
    [head |-> NextGeneration(g),
     past_secrets |-> [i \in 1..Pruned(Len(d.past_secrets) + k) |->
                          i <= k \/ d.past_secrets[i - k]]]
ForwardDropsSkipped(d, g) ==
    LET k == g - d.head IN
    [head |-> NextGeneration(g),
     past_secrets |-> [i \in 1..Pruned(Len(d.past_secrets) + k + 1) |->
                          i > k + 1 /\ d.past_secrets[i - k - 1]]]
ForwardKeepsAll(d, g) ==
    LET k == g - d.head IN
    [head |-> NextGeneration(g),
     past_secrets |-> [i \in 1..Pruned(Len(d.past_secrets) + k + 1) |->
                          i <= k + 1 \/ d.past_secrets[i - k - 1]]]

\* The head moves past generation g: the keys of skipped generations are kept,
\* the one of g itself is handed out, and the queue is cut to the tolerance.
RatchetForward(d, g) ==
    LET k == g - d.head IN
    [head |-> NextGeneration(g),
     past_secrets |->
        [i \in 1..Pruned(Len(d.past_secrets) + k + 1) |->
            i # 1 /\ (i <= k + 1 \/ d.past_secrets[i - k - 1])]]

\* The outcome of secret_for_decryption, for generations far from u32::MAX.
SecretFor(d, g) ==
    IF g > d.head + Forward THEN "TooDistantInTheFuture"
    ELSE IF g < d.head /\ d.head - g > Tolerance THEN "TooDistantInThePast"
    ELSE IF g >= d.head THEN "Ok"
    ELSE IF d.head - g \notin DOMAIN d.past_secrets THEN "IndexOutOfBounds"
    ELSE IF d.past_secrets[d.head - g] THEN "Ok" ELSE "SecretReuseError"

\* The ratchet after it has handed out the key of generation g.
AfterSecretFor(d, g) ==
    IF g >= d.head THEN RatchetForward(d, g)
    ELSE [head |-> d.head, past_secrets |-> [d.past_secrets EXCEPT ![d.head - g] = FALSE]]

\* validate_framing accepts application messages up to the present epoch.
WrongEpoch(c, m) == m.epoch > view[c].epoch

\* message_secrets_and_leaves_mut: the groups keep no past epochs.
NoMessageSecrets(c, m) == m.epoch < view[c].epoch

\* process_message for an application message, at a client in a group.
ProcessMessage(c, m) ==
    IF WrongEpoch(c, m) THEN "WrongEpoch"
    ELSE IF NoMessageSecrets(c, m) THEN "TooDistantInThePast"
    ELSE SecretFor(dec[c][m.from], m.gen)

\* Mutant: an error about a past generation is an error.
LooksAheadOnly(error) == error = "TooDistantInTheFuture"

\* looks_like_duplicate_application_receive: the texts of these two errors
\* speak of a "generation"; those of the others have none of the words.
LooksLikeDuplicate(error) == error \in {"TooDistantInThePast", "TooDistantInTheFuture"}
-----------------------------------------------------------------------------
(* The group.                                                              *)

\* c has the message secrets of the epoch it gets into, and no older ones.
FreshSecrets(c) ==
    /\ visited' = [visited EXCEPT ![c] = @ \cup {view'[c].epoch}]
    /\ enc' = [enc EXCEPT ![c] = 0]
    /\ dec' = [dec EXCEPT ![c] = [s \in Clients |-> NewRatchet]]

CreateGroup(c) ==
    /\ c = Founder /\ welcomed[c] = {}
    /\ worker[c] = Idle
    /\ view' = [view EXCEPT ![c] = [epoch |-> 0, members |-> {c}]]
    /\ Found(c)
    /\ welcomed' = [welcomed EXCEPT ![c] = {0}]
    /\ FreshSecrets(c)
    /\ UNCHANGED <<relay, worker, lost, past>>

\* A commit of c is accepted; it adds members, removes members, or neither.
CommitAccepted(c) ==
    /\ worker[c] = Idle
    /\ Len(history) < MaxEpoch
    /\ AtEnd(c)
    /\ \E members \in SUBSET Clients :
         /\ members \subseteq view[c].members \/ view[c].members \subseteq members
         /\ history' = Append(history, [epoch |-> Len(history) + 1, members |-> members])
    /\ Extend(c)
    /\ UNCHANGED <<welcomed, visited, ratchets, relay, worker, lost, past>>

MergeCommit(c) ==
    /\ worker[c] = Idle
    /\ Advance(c)
    /\ FreshSecrets(c)
    /\ UNCHANGED <<welcomed, relay, worker, lost, past>>

\* Nobody welcomes the founder to epoch 1.
NotFounder(c, e) == e = 1 => 0 \notin welcomed[c]

\* A key package opens one welcome; openmls deletes it then.
KeyPackageUnused(c, e) == NotFounder(c, e) /\ e \notin welcomed[c]

JoinFromWelcome(c) ==
    /\ worker[c] = Idle
    /\ Enter(c)
    /\ KeyPackageUnused(c, view'[c].epoch)
    /\ welcomed' = [welcomed EXCEPT ![c] = @ \cup {view'[c].epoch}]
    /\ FreshSecrets(c)
    /\ UNCHANGED <<relay, worker, lost, past>>

LeaveGroup(c) ==
    /\ worker[c] = Idle
    /\ Leave(c)
    /\ UNCHANGED <<welcomed, visited, ratchets, relay, worker, lost, past>>
-----------------------------------------------------------------------------
(* SendApplicationMessage.                                                 *)

\* send_application_message: the ratchet moves before anything is posted.
Encrypt(c) ==
    LET m == [from |-> c, epoch |-> view[c].epoch, gen |-> enc[c]] IN
    /\ worker[c] = Idle
    /\ view[c] # None
    /\ Cardinality(sent) < MaxSends
    /\ enc' = [enc EXCEPT ![c] = NextGeneration(@)]
    /\ sent' = sent \cup {m}
    /\ worker' = [worker EXCEPT ![c] = Post(m)]
    /\ UNCHANGED <<group, dec, relay, lost, opened>>

\* relay_post_application_message reaches the relay, which draws a new id for
\* every post and answers a post without recipients with an error.
PostMessage(c) ==
    LET m == worker[c].msg
        recipients == view[c].members \ {c}
    IN
    /\ worker[c].pc = "post"
    /\ IF recipients = {}
       THEN /\ worker' = [worker EXCEPT ![c] = Idle]
            /\ UNCHANGED <<next_message_id, running>>
       ELSE /\ next_message_id' = next_message_id + 1
            /\ running' = running \cup
                  [id : {next_message_id}, to : recipients, msg : {m}]
            /\ worker' = [worker EXCEPT ![c] = Posting(m, next_message_id)]
    /\ UNCHANGED <<group, ratchets, inboxes, acks, lost, past>>

\* publish_group_application_message, one recipient's queue at a time.
Push(e) ==
    /\ e \in running
    /\ running' = running \ {e}
    /\ inboxes' = [inboxes EXCEPT ![e.to] = Append(@, e)]
    /\ UNCHANGED <<group, ratchets, next_message_id, acks, worker, lost, past>>

PostAnswered(c) ==
    /\ worker[c].pc = "posting"
    /\ \A e \in running : e.id # worker[c].id
    /\ worker' = [worker EXCEPT ![c] = Idle]
    /\ UNCHANGED <<group, ratchets, relay, lost, past>>

\* The request or its answer is lost or late: the worker posts again, or was
\* at its last attempt.
PostUnanswered(c) ==
    /\ worker[c].pc \in {"post", "posting"}
    /\ lost < MaxLost
    /\ lost' = lost + 1
    /\ \/ worker' = [worker EXCEPT ![c] = Post(worker[c].msg)]
       \/ worker' = [worker EXCEPT ![c] = Idle]
    /\ UNCHANGED <<group, ratchets, relay, past>>
-----------------------------------------------------------------------------
(* ReceiveApplicationMessage, also as the last part of ProcessPending.     *)

\* fetch_pending_application_message hands out the front until it is acked.
PendingMessage(c) == Head(inboxes[c])

\* receive_application_delivery up to the ack.  Only pushes to the back and
\* acks of c itself can fall between the fetch and the decryption, so they
\* are one step.  "duplicate" stands for the answer "application message already
\* processed"; an error that does not look like a duplicate is answered as such
\* and leaves the message in front.
ReceiveApplicationMessage(c) ==
    LET e == PendingMessage(c)
        result == ProcessMessage(c, e.msg)
        d == dec[c][e.msg.from]
    IN
    /\ worker[c] = Idle
    /\ inboxes[c] # <<>>
    /\ view[c] # None
    /\ \/ /\ result = "Ok"
          /\ dec' = [dec EXCEPT ![c][e.msg.from] = AfterSecretFor(d, e.msg.gen)]
          /\ opened' = [opened EXCEPT ![c] = @ \cup {e.msg}]
          /\ worker' = [worker EXCEPT ![c] = Acking(e.msg, e.id, "received")]
       \/ /\ LooksLikeDuplicate(result)
          /\ worker' = [worker EXCEPT ![c] = Acking(e.msg, e.id, "duplicate")]
          /\ UNCHANGED <<dec, opened>>
    /\ acks' = acks \cup {[to |-> c, id |-> e.id]}
    /\ UNCHANGED <<group, enc, inboxes, next_message_id, running, lost, sent>>

\* What retain leaves of queue q.  The ids in a queue are distinct: a post draws
\* a new number and has one envelope for each recipient.
Retained(q, id) ==
    LET found == {i \in 1..Len(q) : q[i].id = id}
        i == CHOOSE i \in found : TRUE
    IN  IF found = {} THEN q ELSE SubSeq(q, 1, i - 1) \o SubSeq(q, i + 1, Len(q))

\* ack_application_message at the relay.
Ack(a) ==
    /\ a \in acks
    /\ acks' = acks \ {a}
    /\ inboxes' = [inboxes EXCEPT ![a.to] = Retained(@, a.id)]
    /\ UNCHANGED <<group, ratchets, next_message_id, running, worker, lost, past>>

AckAnswered(c) ==
    /\ worker[c].pc = "acking"
    /\ [to |-> c, id |-> worker[c].id] \notin acks
    /\ worker' = [worker EXCEPT ![c] = Idle]
    /\ UNCHANGED <<group, ratchets, relay, lost, past>>

\* ack_application_message_best_effort: a failed ack is logged, and may still
\* reach the relay.
AckUnanswered(c) ==
    /\ worker[c].pc = "acking"
    /\ lost < MaxLost
    /\ lost' = lost + 1
    /\ worker' = [worker EXCEPT ![c] = Idle]
    /\ \/ acks' = acks \ {[to |-> c, id |-> worker[c].id]}
       \/ UNCHANGED acks
    /\ UNCHANGED <<group, ratchets, inboxes, next_message_id, running, past>>
-----------------------------------------------------------------------------
Init ==
    /\ HistoryInit
    /\ welcomed = [c \in Clients |-> {}]
    /\ visited = [c \in Clients |-> {}]
    /\ enc = [c \in Clients |-> 0]
    /\ dec = [c \in Clients |-> [s \in Clients |-> NewRatchet]]
    /\ inboxes = [c \in Clients |-> <<>>]
    /\ next_message_id = 1
    /\ running = {} /\ acks = {}
    /\ worker = [c \in Clients |-> Idle]
    /\ lost = 0
    /\ sent = {}
    /\ opened = [c \in Clients |-> {}]

GroupStep(c) ==
    \/ CreateGroup(c) \/ CommitAccepted(c) \/ MergeCommit(c)
    \/ JoinFromWelcome(c) \/ LeaveGroup(c)

WorkerStep(c) ==
    \/ Encrypt(c) \/ PostMessage(c) \/ PostAnswered(c) \/ PostUnanswered(c)
    \/ ReceiveApplicationMessage(c) \/ AckAnswered(c) \/ AckUnanswered(c)

Next ==
    \/ \E c \in Clients : GroupStep(c) \/ WorkerStep(c)
    \/ \E e \in running : Push(e)
    \/ \E a \in acks : Ack(a)

Spec == Init /\ [][Next]_vars

\* The relay runs the requests that reach it, requests end, and the runner
\* sends ReceiveApplicationMessage again and again.
FairSpec ==
    /\ Spec
    /\ WF_vars(\E e \in running : Push(e))
    /\ WF_vars(\E a \in acks : Ack(a))
    /\ \A c \in Clients :
         /\ WF_vars(PostMessage(c) \/ PostAnswered(c))
         /\ WF_vars(AckAnswered(c))
         /\ WF_vars(ReceiveApplicationMessage(c))
-----------------------------------------------------------------------------
TypeOK ==
    /\ welcomed \in [Clients -> SUBSET Nat]
    /\ visited \in [Clients -> SUBSET Nat]
    /\ enc \in [Clients -> Nat]
    /\ dec \in [Clients -> [Clients -> Ratchet]]
    /\ inboxes \in [Clients -> Seq(Envelope)]
    /\ next_message_id \in Nat
    /\ running \subseteq Envelope
    /\ acks \subseteq [to : Clients, id : Nat]
    /\ worker \in [Clients -> Worker]
    /\ lost \in 0..MaxLost
    /\ sent \subseteq Message
    /\ opened \in [Clients -> SUBSET Message]

\* A key is used for one message: although a failed post leaves the ratchet
\* where it is, and members leave and come back, no client encrypts two
\* messages with the same generation of the same epoch.
KeyUsedOnce ==
    [][\A c \in Clients :
          worker[c] = Idle /\ worker'[c].pc = "post" => worker'[c].msg \notin sent]_vars

\* A message is handed to the application once, however often its post is
\* repeated, its ack lost and the recipient removed and welcomed again.
OpenedOnce ==
    [][\A c \in Clients :
          /\ worker[c] = Idle
          /\ worker'[c].pc = "acking"
          /\ worker'[c].answer = "received"
          => worker'[c].msg \notin opened[c]]_vars

\* The queue of past secrets has one entry for each of the last generations,
\* up to the tolerance, and an entry holds a key exactly if the message of
\* that generation has not been opened: a message in the window can be
\* opened whatever came before it, and its key is gone once it was.
WindowExact ==
    \A c \in Clients : view[c] # None =>
      \A s \in Clients :
        LET d == dec[c][s] IN
        /\ Len(d.past_secrets) = IF d.head < Tolerance THEN d.head ELSE Tolerance
        /\ \A i \in DOMAIN d.past_secrets :
             d.past_secrets[i] <=>
                [from |-> s, epoch |-> view[c].epoch, gen |-> d.head - i] \notin opened[c]

\* An inbox is only blocked by a copy of a message that was opened, or by a
\* message of an epoch the recipient has yet to reach.
OnlyCopiesBlock ==
    \A c \in Clients : view[c] # None /\ inboxes[c] # <<>> =>
      LET m == Head(inboxes[c]).msg
          result == ProcessMessage(c, m)
      IN  result # "Ok" /\ ~LooksLikeDuplicate(result) =>
             m \in opened[c] \/ m.epoch > view[c].epoch

\* The front of an inbox that is unread, or of an epoch the recipient has left.
Unserved(c) ==
    /\ view[c] # None /\ inboxes[c] # <<>>
    /\ LET m == Head(inboxes[c]).msg IN
         m.epoch < view[c].epoch \/ (m.epoch = view[c].epoch /\ m \notin opened[c])

\* Such messages are read or leave the inbox, unless the recipient leaves the
\* group: only copies of what was read in the present epoch, and messages of
\* later epochs, can stay.
FrontServed == \A c \in Clients : Unserved(c) ~> ~Unserved(c)
=============================================================================
