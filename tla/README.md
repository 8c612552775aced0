# A TLA+ verification of the OpenMLS / Signal group messaging benchmark

The repository benchmarks two group messaging protocols, MLS (OpenMLS) and
Signal (libsignal), in the same setting: a *runner* drives many *workers* over
HTTP, each worker serves one or more clients, and the clients exchange messages
through small services. This directory models the parts whose correctness rests
on the order in which concurrent requests, retries and failures happen, checks
them with TLC on small instances, and proves the central properties with TLAPS
for instances of any size.

## The system and its parts

| Part | Source | State and concurrency | Module |
|---|---|---|---|
| Delivery service (DS) | `OpenMLS_containerized/src/delivery_service.rs`, `bin/ds.rs` | group states, commit inboxes or a shared commit log with cursors, each behind its own lock; one handler per request | `DeliveryService` |
| MLS client and worker commands | `client.rs`, `worker_api.rs` | one group state and pending commit per client; a command is a sequence of local steps and HTTP requests | `MlsWorkers` |
| MLS group (library) | `openmls-main`, used by `client.rs` | epoch, members, staged commit; sender ratchets | `MlsWorkers`, `GroupHistory`, `ApplicationMessages` |
| MLS application messages | `client.rs`, `worker_api.rs`, OpenMLS `message_relay.rs` | inboxes of the relay, encryption and decryption ratchets per epoch | `ApplicationMessages` |
| Worker process | `bin/worker.rs`, cache in `worker_api.rs` | an actor with a bounded queue and a cache of answers per client | `CommandActor` |
| Sending a command | `staircase_runner.rs`, `send_command_with_context` | attempts under one request id | `CommandActor` |
| HTTP retry | `http_retry.rs` (both) | attempts, back-off | by its effect, in the modules that send requests |
| Signal message relay | `Signal_containerized/src/message_relay.rs` | inboxes, one sequence counter | `MessageRelay` |
| Key repository | `Signal_containerized/src/key_repository.rs` | a queue of prekey bundles per participant | `PairwiseSessions` |
| Signal participant and worker | `signal_participant.rs`, `worker_api.rs`, libsignal's session records | prekey stores, identifier counter, current and archived sessions | `PairwiseSessions` |
| Sender keys | `Signal_containerized/src/sender_keys.rs` | sender key generations, chains, keys of others | `SenderKeys` |
| Signal runner | `Signal_containerized/src/staircase_runner.rs` | active and idle workers, enrolment, refresh, broadcast; pairwise set-up | `SenderKeys`, `PairwiseSessions` |
| OpenMLS runner workflow | `OpenMLS_containerized/src/staircase_runner.rs` | fan-out window, batch planner, recovery after races and evictions | not modelled |
| Heap budget | `allocation_counter/` | process-wide atomics | by its effect, in `CommandActor` and `SenderKeys` |
| Metrics, profiles, compose scripts, statistics | `service_metrics.rs`, `scripts/`, `statistics/` | input and output | not modelled |

`PROJECT.json` lists every component with its status, every definition with the
source lines it stands for, and the hazards of the code with the properties that
address them.

How the modelled parts interact: the runner posts commands to a worker
(`CommandActor`); a command that changes the group makes the client stage a
commit and submit it to the DS; the DS accepts at most one commit per epoch and
queues it for the members; every member, the committer included, applies it only
when it comes back from the DS; an added client is then sent a welcome
(`MlsWorkers` on top of `DeliveryService`). Members send each other application
messages through a relay while the group changes epochs (`ApplicationMessages`).
On the Signal side the runner prepares participants, which publish prekey bundles
in a key repository, sets up sessions between pairs of them (`PairwiseSessions`),
and, in the other workload, has them distribute sender keys over such sessions
and broadcast (`SenderKeys`); both use the relay (`MessageRelay`).

## Modules

### DeliveryService

State: `groups` (the `GroupState` of each group), `commit_inboxes`,
`group_commit_log`, `commit_cursors`, named as in the code; `publishing` holds
the handlers that have accepted a commit and have not finished queueing it. An
inbox is a set of records with arrival numbers, so that its order is the order
of arrival. `accepted`, `handed` and `acked` are history variables.

One action is one lock section. `publish_group_commit` takes the groups lock to
compare and increment the epoch (`AcceptCommit`), releases it, and then locks one
inbox after the other (`PushToRecipient`) or the log (`PushToLog`): these are
separate actions, and every other request may come in between. `fetch` and `ack`
are one action each per mode. The constant `Mode` is the code's
`CommitDeliveryMode`.

### MlsWorkers

`INSTANCE DeliveryService` with structured commits, plus per client: the MLS
`group`, the staged commit (`pending`), the serialized own commit that is waited
for (`pending_bytes`), the private key packages (`keys`), the `queued_intent`,
and the progress of the command being executed (`pc`, `intent`, `delivery`,
`welcoming`). An add or a removal names any non-empty set of clients, as the
commands do; the key packages of an add are fetched one by one, and a fetch that
fails leaves those before it used up. A command is cut at its HTTP requests: submitting
(`SubmitAccepted`, then `SubmitOk` or `SubmitConflict`), receiving a commit
(`ReceiveCommit`, which applies an own or an external commit), posting welcomes,
updating the DS's group state (`PutOwn`, `PutExternal`, `PutCreated`) and acking.
Faults are explicit: `SubmitLost`, `PutLost` and the lost-answer branches let the
service execute a request whose answer does not arrive, so that the worker
repeats it; `GiveUp` ends a command at any request, as after the last attempt.
`unanswered` is a history variable: the accepted commits whose 200 was lost.

Commands come in any order, except for two orders the runner keeps, which a
configuration can switch on: `JoinsAwaitAdder` (`JoinFromWelcome` is sent after the
adder's `ReceiveCommit` has returned) and `AddsAwaitJoin` (a client is added again
only after it has used up the key package of the last time, as in `add_n_members`
and `run_single_remove_rejoin_cycle`). A property that needs one of them says so.

The library (vendored, `openmls-main`) is modelled by what `client.rs` relies on: a
commit is staged on a group state, a receiver can process only a commit of its own
epoch and state, and merging moves to the next epoch. Its check that an added
client's signature and encryption keys are new to the group is a check that the
client is no member (`CanCommit`): all key packages of a client carry its signature
key, and one that merges its own removal, which gives it a new one, has no key
package of the time before left to join with. Key packages and welcomes are taken from
the service by the GET that reads them, as in the code.

### GroupHistory

The abstract specification: a group is one history of states; only a client that
has seen all of it may extend it; every client walks along it one state at a
time, enters at a state that adds it, or leaves. `MlsWorkers` implements it under
the mapping of `history` to the accepted commits and `view` to the clients' group
states.

### ApplicationMessages

A group that moves through epochs, by commits that add and remove clients, and the
messages its members send. The part of the code that `MlsWorkers` looks into is
one step here (`CommitAccepted`, `MergeCommit`, `JoinFromWelcome`, `LeaveGroup`);
what is cut into its requests is `SendApplicationMessage` (`Encrypt`,
`PostMessage`, `Push`, then `PostAnswered` or `PostUnanswered`, which repeats it)
and `ReceiveApplicationMessage` with its best-effort ack. The decryption ratchet
of the library is translated line by line: `past_secrets`, its pruning to the
tolerance, `RatchetForward` and the look-up by distance from the head. What the
worker makes of the library's errors (`LooksLikeDuplicate`) decides whether a
message is acked or stays at the front of the inbox.

### CommandActor

The channel between the runner and one client. `calls` is the state of the
runner's `send_command_with_context`; `posted` the posts on the network or in a
handler that waits for a place in the queue; `queue`, `running` the actor;
`entries` and `order` the map and the queue of `CompletedCommandCache`; `answers`
what is on its way back. `executed` and `forgotten` are history variables: how
often a command began, and which request ids the cache ever dropped.
`PrunedLen` is the loop of `prune_expired`, `Excess` that of the eviction in
`insert`. The limit of the cache, `max_entries`, is configured when the actor
starts; a limit of 0 switches it off. A post that the runner no longer waits for may vanish with its handler,
but one that is queued is executed.

### PairwiseSessions

The runner prepares participants one after the other and then sets up sessions
between pairs. `cmd` is the operation under way and the request it waits for; a
`late` request is one whose answer did not come: it was repeated, and the copy may
still arrive, at any time. `prekey_bundles` is the key repository;
`next_one_time_prekey_id`, `pre_keys`, `kyber_pre_keys`, `own_prekeys`,
`base_keys_seen` and `sessions` are the stores of the participants. A session
record is a sequence: the current session first, then the archived ones, as in
libsignal; `promote_state`, `Promoted` and `message_decrypt`, which tries the
current session and then the archived ones, follow its sources. `started`, `accepted` and
`opened` are history variables.

The identifiers have a width: `LastResortId` stands for `u32::MAX`, and the
counter stops before it. Left out: the pairwise broadcast, the limit of 40
archived sessions, the age limit of an unacknowledged session, the limit on
skipped messages of a chain (`MAX_FORWARD_JUMPS`), and a worker that
restarts with a new identity. A pair is set up between active participants; the
runner also goes on pairing with a peer that was prepared and then failed, until it
notices, which here is a drop in the middle of the handshake.

### MessageRelay and SenderKeys

`MessageRelay` has the operations of the Signal relay as operators on its
inboxes. `SenderKeys` is the sender keys workload on top of it. The runner sends
one command after the other, so its operation is a `script` of steps, cut at the
requests to the relay: `EnrollScript`, `RefreshScript`, `SenderKeyEncrypt`. Only
the receiving side of a broadcast is concurrent (`fan`, with the one retry pass
of `batch_fanout_workers`). Participants have a generation (`sender_key_id`), the
iteration of their `chain`, the `keys` of others and pairwise `sessions`. An
`Abort` is an error that ends the run.

Faults: a worker is killed at any step (`Kill`) or reports after its work that
its heap budget was exceeded (`EndpointFailure`, `Decrypt`); a starved worker does
not answer in time, before or after it has done its work (`DecryptStarved`,
`Decrypt`), and a recipient that times out in both passes is judged by that; a post to the relay
gets no answer and is repeated, and its first copy arrives at any later time
(`PostUnanswered`, `LatePush`). `sent`, `read`, `completed`, `failing`, `dropped`
and `reported` are history variables. `transition_to_size` has two loops in a
row; after a removal (`phase = "removal"`) it does not enrol again, even if
failures have made the group smaller than the target.

Simplifications: only the order of the generations is kept, not the numbers that
other commands draw in between; the evidence of a kill is always found in time;
batches are smaller than `MAX_RANDOM_BATCH_SIZE`; prekeys, session density for
external devices and the stop after a failure of a profiled worker are left out.

## Model checking

| Run | Instance | Shows |
|---|---|---|
| `ds_per_recipient` | 3 clients, 1 group, 2 epochs, inboxes | one commit per epoch without gaps; every delivery in exactly one place; redelivery until ack |
| `ds_group_log` | 2 clients, 2 commits, 2 epochs, log | every accepted commit logged once; cursors never move back |
| `mls_log_races` | 3 clients, 3 commands, log, no faults | implements `GroupHistory`; recipients are the members; log in epoch order |
| `mls_inbox_faults` | 2 clients, 3 commands, inboxes, one lost answer and one abandoned command | implements `GroupHistory`, whatever fails; a committer keeps its accepted commit staged until it has merged it, unless its 200 was lost |
| `mls_log_rejoin` | 2 clients, 4 commands, 2 key packages each, log, one lost answer | through removals and rejoins, no cursor is past a commit still to be applied; whoever is behind is still offered the next commit and can apply it |
| `application_messages` | 2 clients, tolerance 2, forward distance 1, 2 epochs, 3 messages, one unanswered request | the window of past keys is exact; keys are used once; messages are opened once; only a copy or a message from the future blocks an inbox; any other front message is served |
| `command_retries` | 2 commands of 2 attempts, queue of 1, cache of 0, 1 or 2, TTL 1, clock to 3 | at most one execution, answers agree, the cache is consistent, every call ends |
| `pairwise_sessions` | 3 participants, 3 preparations, 3 pairs, identifiers to 4, one unanswered request | there is always a bundle to offer and its owner can honour it; a one-time prekey sets up one session; a handshake fails only after a request went unanswered; sessions agree and none is half open; the last resort is not used while all requests are answered |
| `sender_keys_attrition` | 4 workers, 2 plateaus, 2 broadcasts, 2 failures | failures do not end the run; the group is ready after every operation; only recipients can open a message |
| `sender_keys_late` | 3 workers, 3 plateaus, 2 broadcasts, 1 repeated post, no failures | only recipients can open a message; a completed broadcast was read by all |
| `sender_keys_liveness` | 3 workers, 3 plateaus, 1 broadcast, 2 failures | a refresh ends; with rejoining participants, failures do not end the run |
| `sender_keys_blame` | 3 workers, 1 plateau, 1 broadcast, 2 failures | violated: a healthy sender is dropped (see below) |

Bounds. `MaxEpoch` bounds the DS alone; in `MlsWorkers` it is at least the number
of commits the bounds allow, so that it never cuts a behaviour
(`EpochBound`). `MaxCommands` = 3 is enough for an addition, a concurrent commit
and a removal; with 4 a client is added, removed, added again with its second key
package (`MaxKeyPackages` = 2) and sees one more commit, which `mls_log_rejoin`
needs;
`MaxLost` and `MaxGiveUps` bound the faults. Three clients are a committer, its
competitor and a bystander or joiner, or a committer and the two it adds or removes
at once. In `CommandActor` a cache of two entries, which complete at different times,
has an order for `prune_expired` to rely on; one of one entry is smaller than the
number of commands; and the clock passes the TTL, so that entries are evicted
and expire while posts are still under way.

In `ApplicationMessages` the tolerance of 2 and the distance of 1 are the smallest
that let a key stay in the window, be skipped, and fall out of it; two epochs
and a client that leaves and comes back give old messages to both. A message too far
ahead (`TooDistantInTheFuture`) needs two earlier posts that are late, more than the
run has: that case is covered by the proofs of the same invariants, for every
distance and any number of unanswered requests. In
`PairwiseSessions` the identifiers run out within a run (`LastResortId` = 4 with
one prekey per batch), so that the last resort is reached, and three pairs let two
participants start sessions with each other, with a third between them.

In `SenderKeys` three plateaus let a participant join, leave and rejoin, and two
failures let the second one hit the refresh the first one caused. With three
workers an interrupted refresh leaves at most one member, so that no distribution
of an abandoned attempt can meet a later one; that case needs the four workers of
`sender_keys_attrition`. Failures and repeated posts are not combined in a run;
the proof of `OnlyRecipientsCanOpen` covers both together.

Where deadlock is not checked, the run ends when its bounds are used up.

Fairness. `MlsWorkers` has none. That all clients converge would need a runner that
sends `ReceiveCommit` until they have; `ensure_converged` only queries their states
and fails if they differ. What the workers and the service guarantee by themselves is
that a client which is asked can go on, which is the invariant `CanCatchUp`.
`CommandActor!FairSpec` assumes that handlers and the actor run,
that a call takes an answer that is there and sends again after its back-off; it
does not assume that posts arrive in time. `SenderKeys!FairSpec` assumes that the
runner goes on with its operation and notices a dead worker; it assumes nothing
about new operations, failures or late posts. `ApplicationMessages!FairSpec`
assumes that the relay finishes what it began, that a send goes on, and that
clients are asked to receive again and again.

### A disagreement with the code

`sender_keys_blame` checks `OnlyFailingDropped`: only a worker that had a resource
failure is dropped for one, which is what the action
`remove_active_recipient_and_retry` of `run_application_phase` says. TLC finds it
violated. The sender is judged first, by an error whose text contains those of the
recipients; when a recipient reports an exceeded heap budget in both passes, the
text is taken for the sender's, and the healthy sender is removed.

### What the code does not promise

Exploring variants of the runs showed limits of the code that the properties
above respect. They are listed with the hazards.

* With per-recipient inboxes two publishers can fill an inbox in the wrong epoch
  order. The receiver then fails on the later commit at every fetch, and never
  converges. With the shared log this cannot happen: `LogInEpochOrder`.
* If the answer to an accepted commit is lost, the worker's retry is answered
  with a conflict and the worker rolls its commit back. It then cannot process
  its own commit when that is delivered. It does not diverge
  (`ImplementsHistory` holds), but it is stuck. `CommitterKeepsPending` and
  `CanCatchUp` are checked with lost answers and say that nobody else is.
* A client that is added a second time before it has used its first welcome can
  get the two welcomes in the wrong order: it comes in by the newer one, acks what
  follows, and then goes back by the older one, behind its own cursor.
  `CursorNotAhead` is therefore stated for `AddsAwaitJoin`, as the runner adds.
* A client that merges its own removal while it waits for an expected epoch ends in
  the error of an empty inbox; the runner reconciles that by the client's state.
* The welcome is published before the DS learns the new member list. A joiner
  that does not wait for the adder can commit while the DS still has the old
  list; `RecipientsAreMembers` is therefore stated for joins that wait
  (`JoinsAwaitAdder`), as the runner makes them.
* A request id that was evicted or has expired is executed again if a post of it
  is still under way; `ExecutedOnce` and `AnswersAgree` say so.
* A recipient that reads a broadcast and reports its heap budget is sent the
  command again in the retry pass, finds an empty inbox and fails without
  evidence, which ends the run; `AttritionSurvived` therefore assumes that no
  recipient reports one (`reported`).
* The joiner of an interrupted enrolment is neither active nor idle afterwards.
* A copy of an application message that was read blocks its inbox: the library
  answers `SecretReuseError`, which the worker does not take for a duplicate, until
  the next commit makes the copy a message of a past epoch. A message of a past
  epoch, or one too far behind, is answered as already processed without having
  been opened (`OnlyCopiesBlock`).
* The text of libsignal's `DuplicatedMessage` has none of the words that
  `looks_like_duplicate_receive` looks for, so that a repeated first message ends
  the run; `FailuresExplained` therefore asks for a request without an answer.
* The answer to the consume of a one-time prekey is ignored. A repeated consume
  wastes a prekey, a repeated batch offers its prekeys twice; the private stores
  decide (`OneTimeSetsUpOnce`).
* Where the peer is not made to open the first message, handshakes of a pair can
  cross and leave the two with different current sessions; `SessionsAgree` is
  stated for the runs that open it.
* The late copy of a distribution can be taken for the snapshot of a later
  enrolment; the run then stops, but nothing is opened by others.

## Proofs

All theorems hold for every value of the constants that satisfies the named
assumptions: any number of clients, any bounds, both delivery modes. The bounds of
the runs are constants of the specifications, so a theorem covers every bound.
Facts that serve a single lemma are named steps of its proof (`<1>PutRec`), so that a
module's lemmas are the ones other proofs cite.

### The delivery service

`DeliveryServiceProofs` (assumes that `Mode` is one of the two modes, that
`MaxEpoch` is a number, and that `None` is not a group state):

* `TypeCorrect`.
* `EpochChainHolds`. The invariant is inductive with types: only `AcceptCommit`
  adds a commit, and its guard, evaluated in the same step, says that its epoch
  is the next one (`OnlyAcceptMovesEpochs`, `AcceptAppends`).
* `ProvenanceHolds`, `DeliveredExactlyOnceHolds`. Exactly-once needs the epoch
  chain (two accepted commits have different delivery ids) and provenance (what is
  queued or acked was accepted), so that a newly accepted commit cannot already be
  queued or acked.
* `RedeliveryHolds`, `LoggedExactlyOnceHolds`, and the action property
  `CursorsHold`.

### The MLS workers

`MlsWorkersProofs` (assumes that there is a group, `GroupsAssumption`, and that
`None` is no value of the types it is added to, `NoneIsNoValue`):

* The inductive invariant (`IInvHolds`), first for the steps that leave the history
  alone, then for those that make it, and from it `TypeCorrect` and `ImplementsHistoryHolds`: the workers and the service implement
  `GroupHistory`, with lost answers and abandoned commands, in both modes. `IInv` says that the
  accepted commits form one chain (`AcceptedOK`, `OneChain`, `OneFounder`), that
  every client state, released welcome and commit on its way stems from a link of
  it (`OnHistory`, `Released`, `Carried`), and that what a client has staged was
  made on the state it is in (`Staged`). The last is what makes a new commit fit:
  the service compares only the epoch, and two commits of one epoch could still be
  made on different states; they are not, because the committer's state is the
  result of the accepted commit of its epoch and there is one such commit.
* `LogInEpochOrderHolds`. Accepting a commit and logging it are
  two lock sections. The strengthening is that at most one accepted commit is not
  yet logged (`LogOrdered`) and that no client state and no welcome is ahead of the
  log (`AllLogged`): who makes the next commit got the one before from the log.
* `RecipientsAreMembersHolds`, for runs in which no command is abandoned
  (`MaxGiveUps = 0`) and joins wait for the adder (`JoinsAwaitAdder`); without
  either the property is false. The strengthening `RecInv`: a client in the last
  epoch has told the service its members or is about to, and so has the author of
  every welcome to it.
* `CommitterKeepsPendingHolds`, with any number of lost answers, abandoned commands
  and rejoins. The strengthening `CommitterInv` says that a client never comes back to
  an epoch before a commit of its own: it advances commit by commit, and enters with a
  key package that it uses once and that no commit before its generation contains. A
  commit is submitted again only if its answer was lost, so a conflict is about a
  commit that was not accepted, or about one in `unanswered` (`SubmittedOnce`,
  `NextIsStaged`).
* `CursorNotAheadHolds`, with any number of key packages, rejoins, lost answers and
  abandoned commands. Under `AddsAwaitJoin`, `KeyInv` says that of the key
  packages a client still holds, at most one is named by an accepted commit, a commit
  under way or a queued intent (`OneInvitation`). The strengthening `CursorInv` says
  what an ack relies on: the client has reached the commit that its worker is about
  to ack, or was removed by it and has no key package left (`Reached`); and a
  welcome that it can still use leads beyond the state it is in and to no epoch before
  its cursor (`Due`). That a commit which is taken for the own one also moves the client
  is `Forgotten`, the invariant that `RecipientsAreMembersHolds` rests on too: once a
  client has lost what it staged, the bytes it still remembers are of no accepted
  commit.

### Application messages

`ApplicationMessagesProofs` (assumes numbers as limits and a founder among the
clients): `TypeCorrect`, `WindowExactHolds`, `OnlyCopiesBlockHolds`, and the action
properties `KeyUsedOnceHolds` and `OpenedOnceHolds`. The argument is in two parts.
The queue of past secrets mirrors the opened messages of its sender and epoch
(`Exact`), for every tolerance. And no client gets into an epoch twice, because a
visit needs a visit of the epoch before or a welcome, and a welcome is only for
those who were not in the epoch before; so every epoch starts with ratchets that
nothing was encrypted or opened with.

### The command channel

`CommandActorProofs` (assumes a finite set of requests and natural numbers as
limits):

* `TypeCorrect`.
* `CacheExactHolds`, `NoExpiredReplayHolds`, from the inductive invariant
  `CacheInv`: the map and the queue hold the same ids, the queue is in order of
  completion time, and the running command is not in the cache. The last conjunct
  is what makes every insert an append; without it an insert could refresh an
  entry in mid-queue and break the order on which `prune_expired` relies.
* `ExecutedOnceHolds`, `AnswersAgreeHolds`, from `OnceInv`: a request id that was
  never dropped is in one of three lives (not begun; running; remembered), and
  answers exist only in the last.

### Pairwise sessions

`PairwiseSessionsProofs` (assumes positive batch sizes and identifiers):

* `OneTimeSetsUpOnceHolds`, `LastResortStoredHolds`. Nothing is assumed of the
  repository and of the relay: whatever bundle a message names, and however often
  it arrives, its receiver decides by its own stores.
* `TypeCorrect`, `AlwaysABundleHolds`, `OfferedKeysAreStoredHolds`, from the
  inductive invariant `OfferInv`. A queue has one last resort, at its end, and
  one-time prekeys before it (`QueueShape`); this holds for any batch that is put,
  by what `publish_prekey_bundles` does to the queue. Every bundle in a queue, in a
  late batch or in the batch being sent is `Stored`: its keys are in the stores, or
  it is a one-time prekey below the counter that has set up a session. The bound by
  the counter is what keeps a new identifier apart from all that are offered.
* `LastResortUnusedHolds`, from `BaseInv` (the above and `StockInv`): while requests
  are answered, whoever has no one-time prekey on offer is the peer of the handshake
  under way, and `UpdateOneTimePrekeys` comes before the next handshake (`Stocked`).
* `SessionsAgreeHolds`, from `SessionInv`, with lost, repeated and late requests and
  dropped workers. It ties the two sides of a session together. A base key belongs
  to one pair and is new when it is made (`Fresh`, `OnePair`); the session with which
  a participant would send, and every message in flight that was not opened, is on
  record at the other side or can still be set up there, as its base key was not
  seen (`Heads`, `Flight`, `BundleSeen`); what states and messages name is a session
  that was set up (`Named`); and only the pair of the handshake under way may
  disagree (`Agreed`). Neither side's records are inductive alone: a receive changes
  one side by what the message carries, so the invariant has to follow the message
  from the sender's state to the relay, to a late post, and to the inbox.

`PairwiseAnsweredProofs` extends it with what holds while every request is answered
(`lost = 0`), from the inductive invariant `AnsweredInv`:

* `FailuresExplainedHolds`. That a message which cannot be opened is a copy, or names
  a one-time prekey already used, follows from `SessionInv`; that this needs a request
  without an answer is `AllOpened`. A request is then executed once, so a message is
  delivered once (`Once`), and the counters of a session tell its messages apart
  (`Counters`). A batch is published once, with identifiers above all earlier ones,
  and a bundle leaves its queue before the next handshake looks at it (`OfferedOnce`);
  so no two sessions name the same one-time prekey (`UsedOnce`), except for a session
  of a worker that was dropped before its first message was sent (`Live`).
* `NoHalfOpenSessionHolds`, from the same invariant: a session that the peer has not
  on record names a bundle that no other session has used, so its keys are stored.

The actions are put in kinds by what they change (`Steps`), and an invariant is
shown kind by kind, not action by action. The
parts of `SessionInv` and `AnsweredInv` were model-checked first, with two
participants and two lost answers (8.3 million states) and with three participants
and four handshakes.

### Sender keys

`SenderKeysProofs` (assumes that the workers are listed once each, and natural
numbers as bounds): `OnlyRecipientsCanOpenHolds` and `TypeCorrect`, with failures at
any step and posts that are repeated or late. Who holds a key is decided by the
runner's script, so the argument has two parts.

* The scripts. `EnrollScript` and `RefreshScript` put many commands together, for
  groups of any size. `ScriptsGood` says that only members of the
  group take their steps and are handed keys, and that whoever empties its store
  begins a new generation before it hands its chain out again (`Good`); a refresh
  renews the chain of every member, an enrolment that of the joiner. `TailGood` says
  what is left of this after a step, so that it holds wherever a failure interrupts.
* The keys. A key counts as given (`Given`) from the moment its distribution is
  posted: it is in the store of the receiver, in its inbox, or in a post the relay
  may still run. `IInv` says that the current generation of a member is given to
  members of the group only, or else the member is about to renew it
  (`GivenInGroup`); that a member without a chain is about to renew it (`Chained`);
  and that the messages of a chain are behind its iteration (`SentOK`), so that a
  key handed out later opens none of them. `OnlyRecipientsGiven` is the property
  itself for all keys given. An equivalent form of `IInv` was model-checked on the
  instances of `sender_keys_late` and `sender_keys_attrition` first.

The relay, `publish_prekey_bundles` and the runner's `Without` keep some of the
elements of a sequence (`Kept`, a recursive function). What it returns for every
sequence is shown in `MessageRelayProofs` (`KeptElements`, `KeptOnce`,
`KeptInjective`), by induction as the existence of a least counterexample (`Least`,
from the library's `WFMin`).

### Only model-checked

* Liveness (`EveryCallEnds`, `FrontServed`, `RefreshEnds`):
  it needs fairness and `ENABLED`, which the prover does not handle.
* `AttritionSurvived`, `ReadyForTraffic` and `CompletedIsRead` of `SenderKeys`: they
  say that a distribution has arrived when its receiver asks for it, so an inductive
  invariant has to match every receive of the rest of a script with a post before it
  or an envelope in an inbox, in their order. The proof above only needs to know what
  a script never does.
* `CanCatchUp`: it joins what `RecipientsAreMembers`, `LogInEpochOrder`,
  `CursorNotAhead` and `CommitterKeepsPending` say, which are proved one by one, with
  what becomes of an entry of the inbox or the log between its push and its ack.
* `OnlyFailingDropped`, which is violated.

## Not modelled

* Metrics, profiles, CSV output, compose and shell scripts, and the R statistics
  (input and output without protocol state), and cryptography.
* The workflow of the OpenMLS runner: fan-out window, membership batches, recovery
  after a race or an eviction. It chooses which commands are sent to whom and when,
  which `MlsWorkers` leaves open, so that what is shown there covers its choices; that
  the runner reaches its own end is not shown.
* The process-wide heap budget and the allocator: what a protocol sees of them, a
  command reported as failed after it was done and a worker that is killed, is part
  of `CommandActor` and `SenderKeys`.
* The DS's store of ratchet trees, which no worker uses; the key repository's PUT of
  a single bundle and the removal of a participant, which no client calls.
* The two vendored libraries, `openmls-main` and `libsignal-main`, except the parts
  named above. They are most of the 242,647 lines under `src/`, so that the mapped
  lines are a small share of all lines although the services, the clients and the
  commands of both benchmarks are modelled.
