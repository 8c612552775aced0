-------------------------- MODULE PairwiseSessions --------------------------
(***************************************************************************)
(* The pairwise sessions of the Signal benchmark: participants publish     *)
(* prekey bundles in the key repository, and the runner lets them set up   *)
(* sessions with one another, pair after pair, with a first message that   *)
(* the peer opens.  Commands run one at a time, cut here at their requests *)
(* that are not idempotent: the PUT of a batch of bundles, the POST that   *)
(* consumes one, and the POST of a message.  A request may get no answer   *)
(* in time; it is then sent again, and the first one may still be executed *)
(* at any later time.                                                      *)
(***************************************************************************)
EXTENDS Naturals, Sequences, FiniteSets, Functions, MessageRelay

CONSTANTS
    Participants, NoOne,
    InitialCount, RefillCount, LowWatermark,    \* the settings of a participant
    LastResortId,   \* LAST_RESORT_PQ_PREKEY_ID, the largest identifier
    MaxEnrolments,  \* bounds the preparations of participants
    MaxPairs,       \* bounds the pairs of the runner's operations
    MaxLost         \* bounds the requests without an answer

ASSUME NoOneAssumption == NoOne \notin Participants
ASSUME SettingsAssumption ==
    /\ {InitialCount, RefillCount, LastResortId} \subseteq Nat \ {0}
    /\ LowWatermark \in Nat
ASSUME BoundsAssumption == {MaxEnrolments, MaxPairs, MaxLost} \subseteq Nat

VARIABLES
    mode,               \* the settings of the run: resource_sweep, external_devices
    active, dropped,    \* the runner's participants, and those it has given up
    cmd,                \* the command under way and the operation it belongs to
    enrolments,         \* the number of preparations so far
    pairs,              \* the number of pairs so far; numbers the base keys
    prekey_bundles,     \* the key repository: a queue of bundles per participant
    inboxes, next_message_id,   \* the relay
    late, lost,         \* requests without an answer; how many there were
    next_one_time_prekey_id, pre_keys, kyber_pre_keys, own_prekeys, base_keys_seen,
    sessions,           \* the session record with every peer, current state first
    opened,             \* the messages whose keys a participant has used up
    started, accepted   \* history: the sessions of initiators and responders

runner == <<mode, active, dropped, enrolments, pairs>>
services == <<prekey_bundles, inboxes, next_message_id, late, lost>>
prekeys == <<next_one_time_prekey_id, pre_keys, kyber_pre_keys, own_prekeys>>
ratchets == <<base_keys_seen, sessions, opened, started, accepted>>
vars == <<runner, cmd, services, prekeys, ratchets>>

\* A bundle is told apart by the identifier of its Kyber prekey and by whether
\* it has a classical one-time prekey, which then has the same identifier.
Ids == 1..LastResortId
OneTime(id) == [id |-> id, one_time |-> TRUE]
LastResort == [id |-> LastResortId, one_time |-> FALSE]
NoBundle == [id |-> 0, one_time |-> FALSE]
Bundle == [id : Ids, one_time : BOOLEAN]

\* A state of a session: its initiator's base key, the bundle its messages name
\* until one is answered, and the number of messages sent.
SessionState == [base : Nat, bundle : Bundle \cup {NoBundle}, n : Nat]
Message == [sender : Participants, base : Nat, bundle : Bundle \cup {NoBundle}, n : Nat]
NoMessage == [sender |-> NoOne, base |-> 0, bundle |-> NoBundle, n |-> 0]
Request == [op : {"put", "consume", "post"}, at : Participants,
            batch : Seq(Bundle), message : Message \cup {NoMessage}, nr : Nat]
Session == [owner : Participants, bundle : Bundle, base : Nat]
-----------------------------------------------------------------------------
(* The key repository.                                                     *)

is_one_time(bundle) == bundle.one_time

\* Existing bundles first, then the new ones; the latest fallback comes last.
publish_prekey_bundles(queue, bundles) ==
    LET all == queue \o bundles
        one_time == {i \in DOMAIN all : is_one_time(all[i])}
        fallbacks == Kept(all, DOMAIN all \ one_time)
    IN Kept(all, one_time) \o (IF fallbacks = <<>> THEN <<>> ELSE <<fallbacks[Len(fallbacks)]>>)

\* Mutant: a consume removes the fallback too.
ConsumeAny(queue) == IF queue # <<>> THEN Tail(queue) ELSE queue

consume_one_time_prekey(queue) ==
    IF queue # <<>> /\ is_one_time(Head(queue)) THEN Tail(queue) ELSE queue

prekey_stock(queue) == Cardinality({i \in DOMAIN queue : is_one_time(queue[i])})

\* The repository or the relay executes a request.
Execute(r) ==
    /\ prekey_bundles' =
         [prekey_bundles EXCEPT ![r.at] =
            CASE r.op = "put" -> publish_prekey_bundles(@, r.batch)
              [] r.op = "consume" -> consume_one_time_prekey(@)
              [] r.op = "post" -> @]
    /\ inboxes' = IF r.op = "post"
                  THEN publish_pairwise_message(inboxes, {r.at},
                           [id |-> next_message_id, sender |-> r.message.sender,
                            message |-> r.message])
                  ELSE inboxes
    /\ next_message_id' = next_message_id + (IF r.op = "post" THEN 1 ELSE 0)
-----------------------------------------------------------------------------
(* A participant's prekeys.                                                *)

\* Mutant: the counter is incremented after its last value was used.
AvailableToTheEnd(p) == LastResortId + 1 - next_one_time_prekey_id[p]

\* The identifiers that are left for a batch: the one of the last resort is
\* not given out, because the increment before it is used would overflow.
Available(p) == LastResortId - next_one_time_prekey_id[p]

\* generate_publishable_prekey_bundles: the private keys are saved one by one,
\* before anything is published; an exhausted counter ends the command with the
\* keys it has saved.
Generate(p, count) ==
    LET first == next_one_time_prekey_id[p]
        n == IF count <= Available(p) THEN count ELSE Available(p)
        ids == first .. (first + n - 1)
    IN /\ next_one_time_prekey_id' = [next_one_time_prekey_id EXCEPT ![p] = first + n]
       /\ pre_keys' = [pre_keys EXCEPT ![p] = @ \cup ids]
       /\ kyber_pre_keys' = [kyber_pre_keys EXCEPT ![p] =
              {k \in @ : k.id \notin ids} \cup {OneTime(i) : i \in ids}]
       /\ cmd' = IF n = count
                 THEN [cmd EXCEPT !.pc = "put", !.tried = FALSE,
                          !.batch = [i \in 1..count |-> OneTime(first + i - 1)] \o <<LastResort>>]
                 ELSE [cmd EXCEPT !.pc = "exhausted"]
       /\ UNCHANGED own_prekeys

\* store_own_prekeys saves the signed prekey and the last resort.
store_own_prekeys(p) ==
    /\ own_prekeys' = [own_prekeys EXCEPT ![p] = TRUE]
    /\ kyber_pre_keys' = [kyber_pre_keys EXCEPT ![p] =
           {k \in @ : k.id # LastResortId} \cup {LastResort}]
    /\ UNCHANGED <<next_one_time_prekey_id, pre_keys>>
-----------------------------------------------------------------------------
(* Session records and messages.                                           *)

Bases(record) == {record[i].base : i \in DOMAIN record}

\* Mutant: the current state is replaced.
promote_state_only(record, state) == <<state>>

\* promote_state archives the current state, which forgets its bundle.
promote_state(record, state) ==
    <<state>> \o [i \in DOMAIN record |->
                     IF i = 1 THEN [record[1] EXCEPT !.bundle = NoBundle] ELSE record[i]]

\* A message opened makes its state the current one, and acknowledged.
Promoted(record, base) ==
    LET i == CHOOSE j \in DOMAIN record : record[j].base = base
        state == [record[i] EXCEPT !.bundle = NoBundle]
    IN IF i = 1 THEN [record EXCEPT ![1] = state]
                ELSE promote_state(Kept(record, DOMAIN record \ {i}), state)

\* The private keys that process_prekey_impl needs for a first message.
HasKeysFor(p, bundle) ==
    /\ own_prekeys[p]
    /\ bundle \in kyber_pre_keys[p]
    /\ is_one_time(bundle) => bundle.id \in pre_keys[p]

\* Whether message_decrypt succeeds.  Every key opens one message; a message that names a
\* bundle sets up the session when its base key is not on record.
Opens(p, m) ==
    IF m.base \in Bases(sessions[p][m.sender])
    THEN m \notin opened[p]
    ELSE m.bundle # NoBundle /\ HasKeysFor(p, m.bundle) /\ m.base \notin base_keys_seen[p]

\* Mutant: used prekeys stay.
UsedUpNever(m) == {}

\* The used classical prekey is removed, Kyber prekeys stay.
UsedUp(m) == {m.bundle.id}

\* message_decrypt, of a message that opens.
message_decrypt(p, m) ==
    LET record == sessions[p][m.sender]
        known == m.base \in Bases(record)
        state == [base |-> m.base, bundle |-> NoBundle, n |-> 0]
    IN /\ sessions' = [sessions EXCEPT ![p][m.sender] =
              IF known THEN Promoted(record, m.base) ELSE promote_state(record, state)]
       /\ pre_keys' = [pre_keys EXCEPT ![p] =
              IF ~known /\ is_one_time(m.bundle) THEN @ \ UsedUp(m) ELSE @]
       /\ base_keys_seen' = [base_keys_seen EXCEPT ![p] =
              IF known THEN @ ELSE @ \cup {m.base}]
       /\ opened' = [opened EXCEPT ![p] = @ \cup {m}]
       /\ accepted' = accepted \cup
              (IF known THEN {} ELSE {[owner |-> p, bundle |-> m.bundle, base |-> m.base]})
       /\ UNCHANGED <<started, next_one_time_prekey_id, kyber_pre_keys, own_prekeys>>
-----------------------------------------------------------------------------
(* The runner.                                                             *)

Idle == [pc |-> "idle", actor |-> NoOne, peer |-> NoOne,
         decrypt |-> FALSE, batch |-> <<>>, message |-> NoMessage, tried |-> FALSE]
Ended == {"exhausted", "no_bundle", "not_opened", "given_up"}
Command == [pc : {"idle", "own", "initial", "put", "reset_actor", "reset_peer", "establish",
                  "consume", "encrypt", "post", "decrypt", "update", "done"} \cup Ended,
            actor : Participants \cup {NoOne}, peer : Participants \cup {NoOne},
            decrypt : BOOLEAN, batch : Seq(Bundle), message : Message \cup {NoMessage},
            tried : BOOLEAN]

Init ==
    /\ mode \in [sweep : BOOLEAN, external : BOOLEAN]
    /\ active = {} /\ dropped = {} /\ enrolments = 0 /\ pairs = 0 /\ cmd = Idle
    /\ prekey_bundles = [p \in Participants |-> <<>>]
    /\ inboxes = [p \in Participants |-> <<>>] /\ next_message_id = 1
    /\ late = {} /\ lost = 0
    /\ next_one_time_prekey_id = [p \in Participants |-> 1]
    /\ pre_keys = [p \in Participants |-> {}]
    /\ kyber_pre_keys = [p \in Participants |-> {}]
    /\ own_prekeys = [p \in Participants |-> FALSE]
    /\ base_keys_seen = [p \in Participants |-> {}]
    /\ sessions = [p \in Participants |-> [q \in Participants |-> <<>>]]
    /\ opened = [p \in Participants |-> {}]
    /\ started = {} /\ accepted = {}

Goto(pc) == cmd' = [cmd EXCEPT !.pc = pc, !.tried = FALSE]

\* Mutant: PublishPrekeyBundle is left out.
EnrollUnstored(p) ==
    /\ cmd.pc = "idle" /\ p \notin active \cup dropped /\ enrolments < MaxEnrolments
    /\ enrolments' = enrolments + 1
    /\ cmd' = [Idle EXCEPT !.pc = "initial", !.actor = p, !.peer = p]
    /\ UNCHANGED <<mode, active, dropped, pairs, services, prekeys, ratchets>>

\* enroll_participants prepares a participant of the idle list, which may have
\* been active before.
Enroll(p) ==
    /\ cmd.pc = "idle" /\ p \notin active \cup dropped /\ enrolments < MaxEnrolments
    /\ enrolments' = enrolments + 1
    /\ cmd' = [Idle EXCEPT !.pc = "own", !.actor = p, !.peer = p]
    /\ UNCHANGED <<mode, active, dropped, pairs, services, prekeys, ratchets>>

Deactivate(p) ==
    /\ cmd.pc = "idle" /\ p \in active /\ active # {p}
    /\ active' = active \ {p}
    /\ UNCHANGED <<mode, dropped, enrolments, pairs, cmd, services, prekeys, ratchets>>

\* One pair of establish_sessions.  Sessions are reset first to sample external
\* devices; the calls pass for decrypt_on_peer TRUE or resource_sweep.
StartPair(a, b, fresh, decrypt) ==
    /\ cmd.pc = "idle" /\ a # b /\ {a, b} \subseteq active /\ pairs < MaxPairs
    /\ fresh => mode.external
    /\ decrypt \/ ~mode.sweep
    /\ pairs' = pairs + 1
    /\ cmd' = [Idle EXCEPT !.pc = IF fresh THEN "reset_actor" ELSE "establish",
                           !.actor = a, !.peer = b, !.decrypt = decrypt]
    /\ UNCHANGED <<mode, active, dropped, enrolments, services, prekeys, ratchets>>

\* The end of an operation whose last command was answered.
Finish ==
    /\ cmd.pc = "done"
    /\ active' = active \cup {cmd.actor}
    /\ cmd' = Idle
    /\ UNCHANGED <<mode, dropped, enrolments, pairs, services, prekeys, ratchets>>

\* The worker of the command under way, or of the one just answered, fails with
\* evidence of its memory: the runner goes on without it.
Failing == CASE cmd.pc \in {"establish", "consume", "encrypt", "post"} -> {cmd.actor}
             [] cmd.pc = "decrypt" -> {cmd.actor, cmd.peer}
             [] cmd.pc \in {"own", "initial", "put", "update", "done"} -> {cmd.peer}
             [] OTHER -> {}
Drop(w) ==
    /\ w \in Failing
    /\ mode.sweep \/ cmd.actor = cmd.peer
    /\ active' = active \ {w} /\ dropped' = dropped \cup {w}
    /\ cmd' = Idle
    /\ UNCHANGED <<mode, enrolments, pairs, services, prekeys, ratchets>>
-----------------------------------------------------------------------------
(* The commands.                                                           *)

PublishPrekeyBundle ==
    /\ cmd.pc = "own"
    /\ store_own_prekeys(cmd.actor)
    /\ Goto("initial")
    /\ UNCHANGED <<runner, services, ratchets>>

GeneratePrekeyBundle ==
    /\ cmd.pc = "initial"
    /\ Generate(cmd.actor, InitialCount)
    /\ UNCHANGED <<runner, services, ratchets>>

\* Mutant: a stock at the watermark is enough.
AtWatermark(stock) == stock >= LowWatermark

AboveWatermark(stock) == stock > LowWatermark

UpdateOneTimePrekeys ==
    /\ cmd.pc = "update"
    /\ IF AboveWatermark(prekey_stock(prekey_bundles[cmd.peer]))
       THEN Goto("done") /\ UNCHANGED prekeys
       ELSE Generate(cmd.peer, RefillCount)
    /\ UNCHANGED <<runner, services, ratchets>>

ResetSessions ==
    /\ \/ /\ cmd.pc = "reset_actor"
          /\ sessions' = [sessions EXCEPT ![cmd.actor][cmd.peer] = <<>>]
          /\ Goto("reset_peer")
       \/ /\ cmd.pc = "reset_peer"
          /\ sessions' = [sessions EXCEPT ![cmd.peer][cmd.actor] = <<>>]
          /\ Goto("establish")
    /\ UNCHANGED <<runner, services, prekeys, base_keys_seen, opened, started, accepted>>

\* EstablishSessions up to its consume: without a session, the bundle at the
\* front of the peer's queue is fetched, left there, and processed.
EstablishSessions ==
    LET queue == prekey_bundles[cmd.peer]
        record == sessions[cmd.actor][cmd.peer]
        state == [base |-> pairs, bundle |-> Head(queue), n |-> 0]
    IN /\ cmd.pc = "establish"
       /\ \/ record # <<>> /\ Goto("encrypt") /\ UNCHANGED <<sessions, started>>
          \/ /\ record = <<>>
             /\ IF queue = <<>>
                THEN Goto("no_bundle") /\ UNCHANGED <<sessions, started>>
                ELSE /\ sessions' = [sessions EXCEPT ![cmd.actor][cmd.peer] =
                                        promote_state(record, state)]
                     /\ started' = started \cup
                            {[owner |-> cmd.peer, bundle |-> Head(queue), base |-> pairs]}
                     /\ Goto("consume")
       /\ UNCHANGED <<runner, services, prekeys, base_keys_seen, opened, accepted>>

\* EncryptMessage up to its POST.  With external devices the first message is
\* sent only when the peer is to open it.
EncryptMessage ==
    LET s == Head(sessions[cmd.actor][cmd.peer])
    IN /\ cmd.pc = "encrypt"
       /\ \/ mode.external /\ ~cmd.decrypt /\ Goto("done") /\ UNCHANGED sessions
          \/ /\ cmd.decrypt \/ ~mode.external
             /\ sessions' = [sessions EXCEPT ![cmd.actor][cmd.peer][1].n = @ + 1]
             /\ cmd' = [cmd EXCEPT !.pc = "post", !.tried = FALSE,
                           !.message = [sender |-> cmd.actor, base |-> s.base,
                                        bundle |-> s.bundle, n |-> s.n]]
       /\ UNCHANGED <<runner, services, prekeys, base_keys_seen, opened, started, accepted>>

\* Mutant: the sender is not asked for.
PendingOfAll == inboxes[cmd.peer]

\* What DecryptMessage asks the relay for: the oldest message of the actor when
\* the run checks the length of the plaintext, else the oldest of all.
Pending ==
    IF mode.sweep \/ mode.external
    THEN PendingFrom(inboxes, cmd.peer, cmd.actor) ELSE inboxes[cmd.peer]

\* DecryptMessage with its ack.  The texts of the errors of message_decrypt have
\* none of the words of looks_like_duplicate_receive, not even that of a message
\* that was opened before ("message with old counter"): each ends the run.
DecryptMessage ==
    /\ cmd.pc = "decrypt"
    /\ IF Pending # <<>> /\ Opens(cmd.peer, Head(Pending).message)
       THEN /\ message_decrypt(cmd.peer, Head(Pending).message)
            /\ inboxes' = ack_message(inboxes, cmd.peer, Head(Pending))
            /\ Goto("update")
       ELSE /\ cmd' = [cmd EXCEPT !.pc = "not_opened", !.message =
                          IF Pending = <<>> THEN NoMessage ELSE Head(Pending).message]
            /\ UNCHANGED <<inboxes, prekeys, ratchets>>
    /\ UNCHANGED <<runner, prekey_bundles, next_message_id, late, lost>>
-----------------------------------------------------------------------------
(* Requests that may be repeated.                                          *)

Requesting == cmd.pc \in {"put", "consume", "post"}
CurrentRequest ==
    [op |-> cmd.pc, at |-> cmd.peer, nr |-> lost,
     batch |-> IF cmd.pc = "put" THEN cmd.batch ELSE <<>>,
     message |-> IF cmd.pc = "post" THEN cmd.message ELSE NoMessage]
Answered ==
    CASE cmd.pc = "put" -> "done"
      [] cmd.pc = "consume" -> "encrypt"
      [] cmd.pc = "post" -> IF cmd.decrypt THEN "decrypt" ELSE "done"

Send ==
    /\ Requesting
    /\ Execute(CurrentRequest)
    /\ Goto(Answered)
    /\ UNCHANGED <<runner, late, lost, prekeys, ratchets>>

\* No answer in time.
Lose ==
    /\ Requesting /\ lost < MaxLost
    /\ late' = late \cup {CurrentRequest} /\ lost' = lost + 1
    /\ cmd' = [cmd EXCEPT !.tried = TRUE]
    /\ UNCHANGED <<runner, prekey_bundles, inboxes, next_message_id, prekeys, ratchets>>

\* A request is executed that its client no longer waits for.
RunLate(r) ==
    /\ Execute(r)
    /\ late' = late \ {r}
    /\ UNCHANGED <<runner, cmd, lost, prekeys, ratchets>>

\* The last attempt fails: EstablishSessions ignores that its consume did, the
\* other commands fail, and with them the run.
GiveUp ==
    /\ Requesting /\ cmd.tried
    /\ Goto(IF cmd.pc = "consume" THEN Answered ELSE "given_up")
    /\ UNCHANGED <<runner, services, prekeys, ratchets>>

Next ==
    \/ \E p \in Participants : Enroll(p) \/ Deactivate(p) \/ Drop(p)
    \/ \E a, b \in Participants, fresh, decrypt \in BOOLEAN : StartPair(a, b, fresh, decrypt)
    \/ Finish \/ PublishPrekeyBundle \/ GeneratePrekeyBundle \/ UpdateOneTimePrekeys
    \/ ResetSessions \/ EstablishSessions \/ EncryptMessage \/ DecryptMessage
    \/ Send \/ Lose \/ GiveUp
    \/ \E r \in late : RunLate(r)

Spec == Init /\ [][Next]_vars
-----------------------------------------------------------------------------
(* Properties.                                                             *)

TypeOK ==
    /\ mode \in [sweep : BOOLEAN, external : BOOLEAN]
    /\ active \subseteq Participants /\ dropped \subseteq Participants
    /\ cmd \in Command /\ enrolments \in Nat /\ pairs \in Nat
    /\ prekey_bundles \in [Participants -> Seq(Bundle)]
    /\ next_message_id \in Nat /\ lost \in Nat /\ late \subseteq Request
    /\ next_one_time_prekey_id \in [Participants -> Ids]
    /\ pre_keys \in [Participants -> SUBSET Ids]
    /\ kyber_pre_keys \in [Participants -> SUBSET Bundle]
    /\ own_prekeys \in [Participants -> BOOLEAN]
    /\ base_keys_seen \in [Participants -> SUBSET Nat]
    /\ sessions \in [Participants -> [Participants -> Seq(SessionState)]]
    /\ opened \in [Participants -> SUBSET Message]
    /\ started \subseteq Session /\ accepted \subseteq Session

\* A prepared participant's queue is never without a bundle, and never offers the
\* fallback before a one-time prekey, however its refills, repeated PUTs and late
\* consumes follow one another: exactly one fallback, at the end.
AlwaysABundle ==
    /\ cmd.pc # "no_bundle"
    /\ \A p \in active :
         LET queue == prekey_bundles[p]
         IN /\ queue # <<>> /\ queue[Len(queue)] = LastResort
            /\ \A i \in 1..(Len(queue) - 1) : is_one_time(queue[i])

\* Whatever is lost, repeated or cut short, the private keys of every bundle that
\* the repository offers, or may still be sent, are in its owner's stores; only a
\* classical one-time prekey that has already set up a session is gone.
OfferedKeysAreStored ==
    \A p \in Participants :
        \A b \in Range(prekey_bundles[p])
                  \cup UNION {Range(r.batch) : r \in {x \in late : x.at = p}} :
            /\ own_prekeys[p] /\ b \in kyber_pre_keys[p]
            /\ \/ ~is_one_time(b) \/ b.id \in pre_keys[p]
               \/ \E s \in accepted : s.owner = p /\ s.bundle = b

\* A one-time prekey sets up one session at most, although a repeated PUT offers
\* it twice and an ignored failure of the consume leaves it in the queue.
OneTimeSetsUpOnce ==
    \A s, t \in accepted :
        s.owner = t.owner /\ s.bundle = t.bundle /\ is_one_time(s.bundle) => s = t

\* A peer that cannot open what DecryptMessage gets for it has opened a copy of
\* it, or has set up another session with the one-time prekey it names; neither
\* happens in a run in which every request is answered.
FailuresExplained ==
    cmd.pc = "not_opened" =>
        /\ lost > 0
        /\ \/ cmd.message \in opened[cmd.peer]
           \/ \E s \in accepted :
                s.owner = cmd.peer /\ s.bundle = cmd.message.bundle /\ is_one_time(s.bundle)

\* As long as every request is answered, the session with which one participant
\* would send is one the other has on record, or can still set up: no refill,
\* crossing handshake, reset or dropped worker leaves a half-open session.
NoHalfOpenSession ==
    lost = 0 =>
        \A p, q \in active :
            LET record == sessions[p][q]
            IN \/ record = <<>> \/ cmd.pc = "reset_peer"
               \/ record[1].base \in Bases(sessions[q][p])
               \/ record[1].bundle # NoBundle /\ HasKeysFor(q, record[1].bundle)

\* Between the operations of a resource sweep two active participants either have
\* no session or the same current one, whichever workers were dropped in the middle
\* of a handshake and whichever requests were repeated.
SessionsAgree ==
    mode.sweep /\ cmd.pc = "idle" =>
        \A p, q \in active :
            LET mine == sessions[p][q]
                theirs == sessions[q][p]
            IN mine # <<>> => theirs # <<>> /\ mine[1].base = theirs[1].base

\* The maintenance after each handshake is enough: as long as all requests are
\* answered, no worker is dropped and the peer opens each first message, no
\* session is set up with the last resort.
LastResortUnused ==
    lost = 0 /\ dropped = {} /\ mode.sweep => LastResort \notin {s.bundle : s \in started}
=============================================================================
