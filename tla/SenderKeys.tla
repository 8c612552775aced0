----------------------------- MODULE SenderKeys -----------------------------
(***************************************************************************)
(* The sender keys workload of the Signal benchmark: the runner enrols and *)
(* deactivates participants, refreshes all sender keys after every         *)
(* removal, and broadcasts application messages, while workers run out of  *)
(* resources and answers of the relay get lost.                            *)
(*                                                                         *)
(* The runner sends one command after the other.  A command is a sequence  *)
(* of steps cut at its requests to the relay, ended by its answer          *)
(* ("return"); script holds what is left of the runner's operation.  Only  *)
(* the receiving side of a broadcast is concurrent (fan).                  *)
(***************************************************************************)
EXTENDS Integers, Sequences, FiniteSets, Functions, MessageRelay

CONSTANTS
    Workers,        \* the participants, in the order of the idle queue
    MaxPlateaus,    \* bounds the plateaus of a run
    MaxSends,       \* bounds the broadcasts
    MaxFaults,      \* bounds the resource failures
    MaxLost         \* bounds the answers of the relay that are lost

ASSUME WorkersAssumption == Workers \in Seq(Range(Workers)) /\ IsInjective(Workers)
ASSUME BoundsAssumption == {MaxPlateaus, MaxSends, MaxFaults, MaxLost} \subseteq Nat

Participants == Range(Workers)

VARIABLES
    active, idle,       \* the runner's two lists of workers
    phase, target,      \* the two loops of transition_to_size, "transition"
                        \* (enrolling) and "removal", or "application"
    plateaus,           \* the number of targets so far
    task,               \* the operation under way
    who,                \* the joiner of an enrolment, the sender of a broadcast
    script,             \* its remaining steps
    fan,                \* the receiving side of a broadcast
    next_workflow_id,   \* the runner's source of generations
    sender_key_id,      \* of every participant; 0 before the first
    chain,              \* the iteration of its own chain; -1 without a chain
    keys,               \* the sender keys of others it holds
    sessions,           \* the peers it has a pairwise session with
    opened,             \* the pairwise ciphertexts it has decrypted
    inboxes, next_message_id,   \* the relay
    late,               \* posts without an answer that the relay still runs
    killed,             \* workers the kernel has killed
    faults, lost,       \* how many failures and lost answers there were
    sent, read,         \* history: messages with their recipients; who read what
    completed,          \* history: the messages of successful broadcasts
    failing, dropped,   \* history: who had a resource failure; who was dropped for one
    reported            \* history: recipients that read a message of a broadcast and
                        \* then reported a budget or answered too late

runner == <<active, idle, phase, target, plateaus, task, who, script, fan, next_workflow_id>>
participant == <<sender_key_id, chain, keys, sessions, opened>>
relay == <<inboxes, next_message_id, late, lost>>
resources == <<killed, faults, failing, reported>>
history == <<sent, read, completed, dropped>>
vars == <<runner, participant, relay, resources, history>>

Tasks == {"none", "enroll", "refresh", "broadcast", "fanout", "aborted"}
NoFan == [pass |-> 0, todo |-> {}, failed |-> {}, budget |-> {}, timed_out |-> {}]
Key == [sender : Participants, gen : Nat, from : Nat]
Message == [sender : Participants, gen : Nat, iter : Nat]
Envelope == [id : Nat, conv : {"distribution", "application"},
             sender : Participants, gen : Nat, iter : Nat]
-----------------------------------------------------------------------------
(* The commands, as sequences of steps.  gen 0 stands for an absent        *)
(* generation.                                                             *)

Step(op, w, peer, gen) == [op |-> op, who |-> w, peer |-> peer, gen |-> gen]
Answered(w, steps) == Append(steps, Step("return", w, w, 0))

\* One part after the other; and the parts made from the members of a list.
Joined(parts) ==
    LET joined[n \in 0..Len(parts)] ==
            IF n = 0 THEN <<>> ELSE joined[n - 1] \o parts[n]
    IN joined[Len(parts)]
Each(list, Make(_)) == Joined([i \in DOMAIN list |-> Make(list[i])])
Without(list, S) == Kept(list, {i \in DOMAIN list : list[i] \notin S})

\* distribute, and the command SenderKeyDistribute.
Distribute(w, recipients, gen) ==
    <<Step("create", w, w, gen)>> \o Each(recipients, LAMBDA r : <<Step("post", w, r, 0)>>)
SenderKeyDistribute(w, recipients, gen, eager) ==
    Answered(w, (IF eager THEN <<Step("reset", w, w, 0)>> ELSE <<>>)
                    \o Distribute(w, recipients, gen))
SenderKeyReceiveDistribution(w, sender, gen) ==
    Answered(w, <<Step("receive", w, sender, gen)>>)
SenderKeyOnboard(w, members, gen) ==
    Answered(w, <<Step("reset", w, w, 0)>>
                    \o Each(members, LAMBDA s : <<Step("receive", w, s, 0)>>)
                    \o Distribute(w, members, gen))
SenderKeyEncrypt(w) ==
    Answered(w, <<Step("encrypt", w, w, 0), Step("post_application", w, w, 0)>>)

\* The commands of enroll_sender_key_participant.  Those that only deal with
\* prekeys (RegisterParticipant, UpdateOneTimePrekeys...) are just answered.
EnrollScript(joiner, members, gen) ==
    Answered(joiner, <<>>)
        \o Each(members, LAMBDA m :
                Answered(m, <<Step("establish", m, joiner, 0)>>)
                    \o SenderKeyDistribute(m, <<joiner>>, 0, FALSE))
        \o SenderKeyOnboard(joiner, members, gen)
        \o Each(members, LAMBDA m : SenderKeyReceiveDistribution(m, joiner, gen))
        \o Answered(joiner, <<>>)

\* A refresh that lets every member receive before the next one distributes.
RefreshOneByOne(members, first) ==
    LET Gen(s) == first + CHOOSE i \in DOMAIN members : members[i] = s
    IN  Each(members, LAMBDA s :
                SenderKeyDistribute(s, Without(members, {s}), Gen(s), TRUE)
                    \o Each(Without(members, {s}),
                            LAMBDA r : SenderKeyReceiveDistribution(r, s, Gen(s))))

\* The commands of one attempt of refresh_sender_keys; generation numbers are
\* drawn for all members before the first command.  (Every command draws a
\* number of its own too; only the order of the generations is kept.)
RefreshScript(members, first) ==
    LET Gen(s) == first + CHOOSE i \in DOMAIN members : members[i] = s
        Others(w) == Without(members, {w})
    IN  Each(members, LAMBDA s : SenderKeyDistribute(s, Others(s), Gen(s), TRUE))
            \o Each(members, LAMBDA r :
                    Each(Others(r), LAMBDA s : SenderKeyReceiveDistribution(r, s, Gen(s))))
-----------------------------------------------------------------------------
(* The runner between commands.                                            *)

Init ==
    /\ active = <<>> /\ idle = Workers
    /\ phase = "application" /\ target = 0 /\ plateaus = 0
    /\ task = "none" /\ who = Head(Workers) /\ script = <<>> /\ fan = NoFan
    /\ next_workflow_id = 0
    /\ sender_key_id = [p \in Participants |-> 0]
    /\ chain = [p \in Participants |-> -1]
    /\ keys = [p \in Participants |-> {}]
    /\ sessions = [p \in Participants |-> {}]
    /\ opened = [p \in Participants |-> {}]
    /\ inboxes = [p \in Participants |-> <<>>]
    /\ next_message_id = 1 /\ late = {} /\ lost = 0
    /\ killed = {} /\ faults = 0 /\ failing = {} /\ reported = {}
    /\ sent = {} /\ read = {} /\ completed = {} /\ dropped = {}

\* A removal that is not followed by a refresh.
NoRefresh(members) ==
    /\ active' = members /\ script' = <<>> /\ task' = "none" /\ fan' = NoFan
    /\ UNCHANGED next_workflow_id

\* The attempt of refresh_sender_keys that begins with these members; without
\* any, the refresh is over at once.
BeginRefresh(members) ==
    /\ active' = members
    /\ script' = RefreshScript(members, next_workflow_id)
    /\ task' = IF members = <<>> THEN "none" ELSE "refresh"
    /\ next_workflow_id' = next_workflow_id + Len(members)
    /\ fan' = NoFan

\* Err propagates to the end of the run.
Abort ==
    /\ task' = "aborted" /\ script' = <<>> /\ fan' = NoFan
    /\ UNCHANGED <<active, idle, phase, target, plateaus, who, next_workflow_id>>

NextPlateau ==
    /\ task = "none" /\ phase = "application" /\ plateaus < MaxPlateaus
    /\ phase' = "transition" /\ plateaus' = plateaus + 1
    /\ target' \in 1 .. Len(Workers)
    /\ UNCHANGED <<active, idle, task, who, script, fan, next_workflow_id,
                   participant, relay, resources, history>>

\* An enrolment that leaves the joiner in the idle queue.
StartEnrollPeeks ==
    /\ task = "none" /\ phase = "transition"
    /\ Len(active) < target /\ idle # <<>>
    /\ task' = "enroll" /\ who' = Head(idle)
    /\ script' = EnrollScript(Head(idle), active, next_workflow_id + 1)
    /\ next_workflow_id' = next_workflow_id + 1
    /\ UNCHANGED <<active, idle, phase, target, plateaus, fan, participant, relay,
                   resources, history>>

\* The first part of enroll_sender_key_participant.
StartEnroll ==
    /\ task = "none" /\ phase = "transition"
    /\ Len(active) < target /\ idle # <<>>
    /\ task' = "enroll" /\ who' = Head(idle) /\ idle' = Tail(idle)
    /\ script' = EnrollScript(Head(idle), active, next_workflow_id + 1)
    /\ next_workflow_id' = next_workflow_id + 1
    /\ UNCHANGED <<active, phase, target, plateaus, fan, participant, relay,
                   resources, history>>

\* deactivate_participants with its batch (smaller than MAX_RANDOM_BATCH_SIZE
\* here), then refresh_sender_keys.  The loop that enrols is not entered again.
Deactivate ==
    /\ task = "none" /\ phase \in {"transition", "removal"} /\ Len(active) > target
    /\ phase' = "removal"
    /\ \E removed \in [1 .. Len(active) - target -> Range(active)] :
        /\ IsInjective(removed)
        /\ idle' = idle \o removed
        /\ BeginRefresh(Without(active, Range(removed)))
    /\ UNCHANGED <<target, plateaus, who, participant, relay, resources, history>>

\* transition_to_size is over, also when no idle worker is left or when
\* failures during the removal have made the group smaller than the target.
ReachPlateau ==
    /\ task = "none" /\ phase \in {"transition", "removal"} /\ Len(active) <= target
    /\ Len(active) = target \/ idle = <<>> \/ phase = "removal"
    /\ phase' = "application"
    /\ UNCHANGED <<active, idle, target, plateaus, task, who, script, fan,
                   next_workflow_id, participant, relay, resources, history>>

StartBroadcast ==
    /\ task = "none" /\ phase = "application"
    /\ Len(active) >= 2 /\ Cardinality(sent) < MaxSends
    /\ who' \in Range(active)
    /\ task' = "broadcast" /\ script' = SenderKeyEncrypt(who')
    /\ UNCHANGED <<active, idle, phase, target, plateaus, fan, next_workflow_id,
                   participant, relay, resources, history>>
-----------------------------------------------------------------------------
(* The steps of commands.  A worker that was killed does not take one.     *)

At(op) == script # <<>> /\ Head(script).op = op /\ Head(script).who \notin killed
Worker == Head(script).who
Peer == Head(script).peer
Gen == Head(script).gen
Go(steps) ==
    /\ script' = steps
    /\ UNCHANGED <<active, idle, phase, target, plateaus, task, who, fan, next_workflow_id>>
Advance == Go(Tail(script))

\* EstablishSessions: nothing happens if there is a session already.
Establish ==
    /\ At("establish") /\ Advance
    /\ sessions' = [sessions EXCEPT ![Worker] = @ \cup {Peer}]
    /\ UNCHANGED <<sender_key_id, chain, keys, opened, relay, resources, history>>

\* The whole store is replaced: the own chain and the keys of others.
Reset ==
    /\ At("reset") /\ Advance
    /\ chain' = [chain EXCEPT ![Worker] = -1]
    /\ keys' = [keys EXCEPT ![Worker] = {}]
    /\ UNCHANGED <<sender_key_id, sessions, opened, relay, resources, history>>

\* The check of sender_key_distribution.
GenerationOK(w, gen) ==
    IF gen = 0 THEN sender_key_id[w] # 0 ELSE sender_key_id[w] < gen

\* A chain is created for a new generation, or if the store has none.
Create ==
    /\ At("create")
    /\ IF GenerationOK(Worker, Gen)
       THEN /\ Advance
            /\ sender_key_id' = [sender_key_id EXCEPT ![Worker] = IF Gen = 0 THEN @ ELSE Gen]
            /\ chain' = [chain EXCEPT ![Worker] = IF Gen # 0 \/ @ = -1 THEN 0 ELSE @]
       ELSE Abort /\ UNCHANGED <<sender_key_id, chain>>
    /\ UNCHANGED <<keys, sessions, opened, relay, resources, history>>

\* A distribution that hands out the chain from its beginning.
PostedFromStart ==
    [id |-> next_message_id, sender |-> Worker, gen |-> sender_key_id[Worker],
     conv |-> IF Head(script).op = "post" THEN "distribution" ELSE "application",
     iter |-> IF Head(script).op = "post" THEN 0 ELSE chain[Worker] - 1]

\* The envelope of the post under way, and its recipients.
Posted ==
    [id |-> next_message_id, sender |-> Worker, gen |-> sender_key_id[Worker],
     conv |-> IF Head(script).op = "post" THEN "distribution" ELSE "application",
     iter |-> IF Head(script).op = "post" THEN chain[Worker] ELSE chain[Worker] - 1]
Recipients ==
    IF Head(script).op = "post" THEN {Peer} ELSE Range(active) \ {Worker}
AtPost == At("post") \/ At("post_application")

\* A distribution needs a pairwise session; an application message does not.
Post ==
    /\ AtPost
    /\ IF Head(script).op = "post" /\ Peer \notin sessions[Worker]
       THEN Abort /\ UNCHANGED <<inboxes, next_message_id>>
       ELSE /\ Advance
            /\ inboxes' = publish_pairwise_message(inboxes, Recipients, Posted)
            /\ next_message_id' = next_message_id + 1
    /\ UNCHANGED <<late, lost, participant, resources, history>>

\* relay_post_message gets no answer and posts again; the relay may still run
\* the first post, at any time and for one recipient after the other.
PostUnanswered ==
    /\ AtPost /\ lost < MaxLost
    /\ Head(script).op = "post" => Peer \in sessions[Worker]
    /\ lost' = lost + 1 /\ next_message_id' = next_message_id + 1
    /\ late' = late \cup {[to |-> r, envelope |-> Posted] : r \in Recipients}
    /\ UNCHANGED <<inboxes, runner, participant, resources, history>>

LatePush ==
    \E x \in late :
        /\ late' = late \ {x}
        /\ inboxes' = publish_pairwise_message(inboxes, {x.to}, x.envelope)
        /\ UNCHANGED <<next_message_id, lost, runner, participant, resources, history>>

\* A loop that does not skip the distributions of interrupted refreshes.
SkipsApplications(e) == task = "refresh" /\ e.conv = "application"

\* What the loop of receive_distribution does with the oldest message e of the
\* sender.  The worker alone reads its inbox, and one that fails is not used
\* again, so that decrypting, processing and acking are one step.
Skips(e) ==
    \/ task = "refresh" /\ e.conv = "application"
    \/ e.conv = "distribution" /\ Gen # 0 /\ e.gen < Gen
Ciphertext(e) == [sender |-> e.sender, gen |-> e.gen, iter |-> e.iter]
Accepts(e) == e.conv = "distribution" /\ (Gen # 0 => e.gen = Gen)
Decrypts(e) == e.conv = "distribution" => Ciphertext(e) \notin opened[Worker]

ReceiveOne(e) ==
    IF ~Decrypts(e) \/ ~(Skips(e) \/ Accepts(e))
    THEN Abort /\ UNCHANGED <<inboxes, opened, sessions, keys>>
    ELSE /\ inboxes' = ack_message(inboxes, Worker, e)
         /\ opened' = [opened EXCEPT ![Worker] =
                @ \cup (IF e.conv = "distribution" THEN {Ciphertext(e)} ELSE {})]
         /\ sessions' = [sessions EXCEPT ![Worker] =
                @ \cup (IF e.conv = "distribution" THEN {e.sender} ELSE {})]
         /\ keys' = [keys EXCEPT ![Worker] = @ \cup
                (IF Skips(e) THEN {}
                 ELSE {[sender |-> e.sender, gen |-> e.gen, from |-> e.iter]})]
         /\ Go(IF Skips(e) THEN script ELSE Tail(script))

\* A relay without a message answers 404, which ends the command.
Receive ==
    /\ At("receive")
    /\ LET pending == PendingFrom(inboxes, Worker, Peer)
       IN  IF pending = <<>>
           THEN Abort /\ UNCHANGED <<inboxes, opened, sessions, keys>>
           ELSE ReceiveOne(Head(pending))
    /\ UNCHANGED <<next_message_id, late, lost, sender_key_id, chain, resources, history>>

\* sender_key_encrypt moves the chain on.
Encrypt ==
    /\ At("encrypt")
    /\ IF sender_key_id[Worker] = 0 \/ chain[Worker] = -1
       THEN Abort /\ UNCHANGED <<chain, sent>>
       ELSE /\ Advance
            /\ chain' = [chain EXCEPT ![Worker] = @ + 1]
            /\ sent' = sent \cup {[m |-> [sender |-> Worker, gen |-> sender_key_id[Worker],
                                          iter |-> chain[Worker]],
                                   to |-> Range(active) \ {Worker}]}
    /\ UNCHANGED <<sender_key_id, keys, sessions, opened, relay, resources,
                   read, completed, dropped>>

\* The answer of a command: the last one of an enrolment makes the joiner
\* active, that of a broadcast starts the receiving side.
Return ==
    /\ At("return")
    /\ script' = Tail(script)
    /\ IF Len(script) > 1 THEN UNCHANGED <<active, task, fan>>
       ELSE /\ active' = IF task = "enroll" THEN Append(active, who) ELSE active
            /\ task' = IF task = "broadcast" THEN "fanout" ELSE "none"
            /\ fan' = IF task = "broadcast"
                      THEN [NoFan EXCEPT !.todo = Range(active) \ {who}] ELSE NoFan
    /\ UNCHANGED <<idle, phase, target, plateaus, who, next_workflow_id,
                   participant, relay, resources, history>>
-----------------------------------------------------------------------------
(* Resource failures.                                                      *)

Kill ==
    /\ faults < MaxFaults /\ faults' = faults + 1
    /\ \E p \in Participants \ killed :
        killed' = killed \cup {p} /\ failing' = failing \cup {p}
    /\ UNCHANGED <<reported, runner, participant, relay, history>>

\* Those in S leave the group for good; the joiner of an interrupted enrolment
\* does not become active or idle again either.  The others refresh.
DropAndRefresh(S) ==
    /\ BeginRefresh(Without(active, S))
    /\ dropped' = dropped \cup S
    /\ UNCHANGED <<idle, phase, target, plateaus, who, sent, read, completed>>

\* Failures that are noticed in enrolments and broadcasts only.
FailureOutsideRefresh ==
    /\ script # <<>> /\ task # "refresh"
    /\ Worker \in killed /\ UNCHANGED resources
    /\ DropAndRefresh({Worker})
    /\ UNCHANGED <<participant, relay>>

\* A command fails because its worker was killed, or because it reports after
\* its work that the heap budget was exceeded.
EndpointFailure ==
    /\ script # <<>>
    /\ \/ Worker \in killed /\ UNCHANGED resources
       \/ /\ At("return") /\ faults < MaxFaults /\ faults' = faults + 1
          /\ failing' = failing \cup {Worker} /\ UNCHANGED <<killed, reported>>
    /\ DropAndRefresh({Worker})
    /\ UNCHANGED <<participant, relay>>
-----------------------------------------------------------------------------
(* The receiving side of a broadcast (batch_fanout_workers).               *)

CanOpen(p, m) ==
    \E k \in keys[p] : k.sender = m.sender /\ k.gen = m.gen /\ k.from <= m.iter

\* A decryption that accepts what was decrypted before.
OpensAgain(r, e) == e.conv = "application" /\ CanOpen(r, Ciphertext(e))

\* SenderKeyDecrypt: the oldest message of the sender has to be an application
\* message that can be decrypted and was not before.
Opens(r, e) ==
    /\ e.conv = "application"
    /\ CanOpen(r, Ciphertext(e)) /\ [who |-> r, m |-> Ciphertext(e)] \notin read

Decrypt(r) ==
    /\ r \in fan.todo \ killed
    /\ LET pending == PendingFrom(inboxes, r, who)
           ok == pending # <<>> /\ Opens(r, Head(pending))
       IN  /\ IF ok
              THEN /\ inboxes' = ack_message(inboxes, r, Head(pending))
                   /\ read' = read \cup {[who |-> r, m |-> Ciphertext(Head(pending))]}
              ELSE UNCHANGED <<inboxes, read>>
           /\ \/ /\ fan' = [fan EXCEPT !.todo = @ \ {r},
                                       !.failed = IF ok THEN @ ELSE @ \cup {r}]
                 /\ UNCHANGED resources
              \/ /\ faults < MaxFaults /\ faults' = faults + 1
                 /\ failing' = failing \cup {r} /\ UNCHANGED killed
                 /\ reported' = reported \cup {r}
                 /\ \/ fan' = [fan EXCEPT !.todo = @ \ {r}, !.failed = @ \cup {r},
                                          !.budget = @ \cup {r}]
                    \/ fan' = [fan EXCEPT !.todo = @ \ {r}, !.failed = @ \cup {r},
                                          !.timed_out = @ \cup {r}]
    /\ UNCHANGED <<active, idle, phase, target, plateaus, task, who, script,
                   next_workflow_id, participant, next_message_id, late, lost,
                   sent, completed, dropped>>

\* A starved worker does not get to the command before the request times out.
DecryptStarved(r) ==
    /\ r \in fan.todo \ killed
    /\ faults < MaxFaults /\ faults' = faults + 1
    /\ failing' = failing \cup {r} /\ UNCHANGED <<killed, reported>>
    /\ fan' = [fan EXCEPT !.todo = @ \ {r}, !.failed = @ \cup {r}, !.timed_out = @ \cup {r}]
    /\ UNCHANGED <<active, idle, phase, target, plateaus, task, who, script,
                   next_workflow_id, participant, relay, history>>

DecryptUnreachable(r) ==
    /\ r \in fan.todo \cap killed
    /\ fan' = [fan EXCEPT !.todo = @ \ {r}, !.failed = @ \cup {r}]
    /\ UNCHANGED <<active, idle, phase, target, plateaus, task, who, script,
                   next_workflow_id, participant, relay, resources, history>>

PassOver == task = "fanout" /\ fan.todo = {}

\* DEFAULT_FANOUT_RETRY_PASSES = 1: the failed commands are sent once more, and
\* are executed once more, since they have no request id.
RetryPass ==
    /\ PassOver /\ fan.pass = 0 /\ fan.failed # {}
    /\ fan' = [NoFan EXCEPT !.pass = 1, !.todo = fan.failed]
    /\ UNCHANGED <<active, idle, phase, target, plateaus, task, who, script,
                   next_workflow_id, participant, relay, resources, history>>

BroadcastDone ==
    /\ PassOver /\ fan.failed = {}
    /\ task' = "none" /\ fan' = NoFan
    /\ completed' = completed \cup {x \in sent : x.m.sender = who
                                     /\ x.m.gen = sender_key_id[who] /\ x.m.iter = chain[who] - 1}
    /\ UNCHANGED <<active, idle, phase, target, plateaus, who, script, next_workflow_id,
                   participant, relay, resources, sent, read, dropped>>

\* Recipients that failed are not looked at.
BlamesSenderOnly == IF who \in killed \/ fan.budget # {} THEN {who} ELSE {}

\* Whom run_application_phase removes.  The sender is asked about first, and
\* the error text it is judged by contains those of the recipients: a budget
\* that a recipient reports is taken for the sender's.  A timeout counts only
\* against a recipient (one that is profiled and alone in its container).
Blamed ==
    IF who \in killed \/ fan.budget # {} THEN {who}
    ELSE IF fan.failed \subseteq killed \cup fan.timed_out THEN fan.failed
    ELSE {}

BroadcastFailed ==
    /\ PassOver /\ fan.pass = 1 /\ fan.failed # {}
    /\ IF Blamed = {} THEN Abort /\ UNCHANGED history
       ELSE DropAndRefresh(Blamed)
    /\ UNCHANGED <<participant, relay, resources>>
-----------------------------------------------------------------------------
CommandStep ==
    Establish \/ Reset \/ Create \/ Post \/ Receive \/ Encrypt \/ Return
FanoutStep ==
    \/ \E r \in Participants : Decrypt(r) \/ DecryptUnreachable(r)
    \/ RetryPass \/ BroadcastDone \/ BroadcastFailed
Next ==
    \/ NextPlateau \/ StartEnroll \/ Deactivate \/ ReachPlateau \/ StartBroadcast
    \/ CommandStep \/ FanoutStep
    \/ PostUnanswered \/ LatePush \/ Kill \/ EndpointFailure
    \/ \E r \in Participants : DecryptStarved(r)

Spec == Init /\ [][Next]_vars
\* The runner goes on with its operation, and a dead worker is noticed.
FairSpec == Spec /\ WF_vars(CommandStep \/ EndpointFailure) /\ WF_vars(FanoutStep)
-----------------------------------------------------------------------------
(* Properties.                                                             *)

\* Types: the lists of workers are disjoint and without repetitions, keys and
\* messages name participants and generations that were drawn.
TypeOK ==
    /\ active \o idle \in Seq(Participants) /\ IsInjective(active \o idle)
    /\ task \in Tasks /\ phase \in {"transition", "removal", "application"}
    /\ sender_key_id \in [Participants -> 0 .. next_workflow_id]
    /\ chain \in [Participants -> -1 .. MaxSends]
    /\ \A p \in Participants :
        /\ keys[p] \subseteq Key /\ opened[p] \subseteq Message
        /\ sessions[p] \subseteq Participants
        /\ \A i \in DOMAIN inboxes[p] : inboxes[p][i] \in Envelope

\* Resource failures never end the run, as long as no answer is lost and no
\* recipient of a broadcast fails after it has read the message: whatever command of an enrolment, a
\* refresh or a broadcast they interrupt, none of the later commands meets a
\* missing session, an old or unexpected generation, an unexpected message or an
\* empty inbox (refresh_sender_keys, receive_distribution).
AttritionSurvived == (lost = 0 /\ reported = {}) => task # "aborted"

\* "All required distributions are processed before application traffic
\* resumes": between the operations every active participant holds the current
\* sender key of every other one, from an iteration that is not too late, and
\* nothing from it is left in its inbox.
ReadyForTraffic ==
    (task = "none" /\ lost = 0) =>
        \A s \in Range(active) : \A r \in Range(active) \ {s} :
            /\ CanOpen(r, [sender |-> s, gen |-> sender_key_id[s], iter |-> chain[s]])
            /\ PendingFrom(inboxes, r, s) = <<>>

\* Whatever fails or is late, a message can be opened by those only that it was
\* sent to: not by participants that were removed before or joined later, nor
\* by the joiner of an interrupted enrolment.
OnlyRecipientsCanOpen ==
    \A x \in sent : \A p \in Participants : CanOpen(p, x.m) => p \in x.to

\* A broadcast that succeeds has been read by all its recipients, although
\* SenderKeyDecrypt does not know which message it is to read.
CompletedIsRead ==
    \A x \in completed : \A r \in x.to : [who |-> r, m |-> x.m] \in read

\* What the runner's action for a failed recipient says
\* ("remove_active_recipient_and_retry"): only a worker that had a resource
\* failure is dropped from the group for one.
OnlyFailingDropped == dropped \subseteq failing

\* A refresh ends, however often failures make it start again.
RefreshEnds == (task = "refresh") ~> (task # "refresh")
=============================================================================
