-------------------------- MODULE DeliveryService --------------------------
(***************************************************************************)
(* The MLS delivery service: the part of delivery_service.rs that orders   *)
(* commits and hands them out.  Every field of the Rust struct is behind a *)
(* lock of its own, so a handler is as many steps as it takes locks:       *)
(* publish_group_commit accepts a commit under the write lock of `groups`, *)
(* and only after that lock is released pushes it, one recipient at a      *)
(* time (per_recipient) or once (group_log).  Handlers of different HTTP   *)
(* requests interleave between those steps.                                *)
(*                                                                         *)
(* The service knows clients only through their requests; here a client    *)
(* may put any member list, publish in any group it can name, fetch, and   *)
(* ack whatever it was ever given, in any order and more than once: an ack *)
(* is retried when its answer is lost, and the copies may arrive late.     *)
(***************************************************************************)
EXTENDS Integers, Sequences, FiniteSets

CONSTANTS Clients,      \* client names
          Groups,       \* group ids
          Commits,      \* serialized commits
          Mode,         \* CommitDeliveryMode
          MaxEpoch,     \* bound: no commit is published from this epoch on
          None          \* Option::None

CommitDeliveryMode == {"per_recipient", "group_log"}

ASSUME ModeAssumption == Mode \in CommitDeliveryMode
ASSUME MaxEpochAssumption == MaxEpoch \in Nat

GroupState == [current_epoch : Nat, members : SUBSET Clients]

ASSUME NoneAssumption == None \notin GroupState

VARIABLES
    groups,           \* group id -> None or [current_epoch, members]
    commit_inboxes,   \* client -> set of queued deliveries, ordered by `at`
    arrivals,         \* client -> number of deliveries ever pushed to it
    group_commit_log, \* group id -> sequence of log entries
    commit_cursors,   \* client -> group id -> epoch acked in the log
    publishing,       \* publish_group_commit calls between accept and return
    handed,           \* client -> deliveries it has been given by a fetch
    accepted,         \* history: every commit ever accepted, with recipients
    acked             \* history: ids removed from an inbox by an ack

dsVars == <<groups, commit_inboxes, arrivals, group_commit_log, commit_cursors,
            publishing, handed, accepted, acked>>

GroupLogCommit == [group_id : Groups, epoch : Nat, sender : Clients,
                   commit_bytes : Commits, recipients : SUBSET Clients]

\* A queue is a set of records stamped with their arrival number: push_back
\* takes the next number, front is the smallest, retain is a set filter.
CommitDeliveryRecord == [group_id : Groups, epoch : Nat, sender : Clients,
                         commit_bytes : Commits, at : Nat]

\* What a fetch hands to a client: the delivery id and the commit.
CommitDelivery == [id : Groups \X Nat \X Clients \X Clients, group_id : Groups,
                   epoch : Nat, sender : Clients, commit_bytes : Commits]

\* Mutant: the epoch is left out of the id.
IdWithoutEpoch(rec, recipient) == <<rec.group_id, rec.sender, recipient>>

commit_delivery_id(rec, recipient) ==
    <<rec.group_id, rec.epoch, rec.sender, recipient>>

----------------------------------------------------------------------------
DsInit ==
    /\ groups = [g \in Groups |-> None]
    /\ commit_inboxes = [c \in Clients |-> {}]
    /\ arrivals = [c \in Clients |-> 0]
    /\ group_commit_log = [g \in Groups |-> <<>>]
    /\ commit_cursors = [c \in Clients |-> [g \in Groups |-> 0]]
    /\ publishing = {}
    /\ handed = [c \in Clients |-> {}]
    /\ accepted = {}
    /\ acked = {}

\* PUT /group/{g}/state/{e}: registers an unknown group, or overwrites the
\* member list when the caller is at the current epoch.  Any other epoch is
\* answered 409 and changes nothing.
put_group_state(g, e, members) ==
    /\ \/ /\ groups[g] = None
          /\ groups' = [groups EXCEPT ![g] = [current_epoch |-> e, members |-> members]]
       \/ /\ groups[g] # None
          /\ groups[g].current_epoch = e
          /\ groups' = [groups EXCEPT ![g].members = members]
    /\ UNCHANGED <<commit_inboxes, arrivals, group_commit_log, commit_cursors,
                   publishing, handed, accepted, acked>>

\* Mutant: the epoch of the request is not compared.
CommitConflictUnchecked(g, e) == groups[g] = None

\* POST /group/{g}/commit/{s}/{e} is answered 409, and changes nothing, when
\* the group is unknown or has left epoch e.
CommitConflict(g, e) == ~(groups[g] # None /\ groups[g].current_epoch = e)

next_epoch(e) == e + 1

\* The critical section of publish_group_commit: the epoch check, the copy of
\* the member list, and the increment, under the write lock of `groups`.
AcceptCommit(g, s, e, commit) ==
    /\ ~CommitConflict(g, e)
    /\ e < MaxEpoch
    /\ groups' = [groups EXCEPT ![g].current_epoch = next_epoch(e)]
    /\ LET rec == [group_id |-> g, epoch |-> next_epoch(e), sender |-> s,
                   commit_bytes |-> commit, recipients |-> groups[g].members]
       IN  /\ publishing' = publishing \cup {rec}
           /\ accepted' = accepted \cup {rec}
    /\ UNCHANGED <<commit_inboxes, arrivals, group_commit_log, commit_cursors,
                   handed, acked>>

QueuedRecord(p, at) ==
    [group_id |-> p.group_id, epoch |-> p.epoch, sender |-> p.sender,
     commit_bytes |-> p.commit_bytes, at |-> at]

\* One iteration of the per-recipient loop: push_back under r's queue lock.
PushToRecipient(p, r) ==
    /\ Mode = "per_recipient"
    /\ p \in publishing
    /\ r \in p.recipients
    /\ arrivals' = [arrivals EXCEPT ![r] = @ + 1]
    /\ commit_inboxes' = [commit_inboxes EXCEPT ![r] = @ \cup {QueuedRecord(p, arrivals[r] + 1)}]
    /\ publishing' = (publishing \ {p}) \cup {[p EXCEPT !.recipients = @ \ {r}]}
    /\ UNCHANGED <<groups, group_commit_log, commit_cursors, handed, accepted, acked>>

\* Mutant: the push is repeated, as by a loop over the recipients.
PushToLogAgain(p) ==
    /\ Mode = "group_log"
    /\ p \in publishing
    /\ group_commit_log' = [group_commit_log EXCEPT ![p.group_id] = Append(@, p)]
    /\ UNCHANGED <<groups, commit_inboxes, arrivals, commit_cursors, publishing,
                   handed, accepted, acked>>

\* The group-log branch: one push under the log's write lock.
PushToLog(p) ==
    /\ Mode = "group_log"
    /\ p \in publishing
    /\ group_commit_log' = [group_commit_log EXCEPT ![p.group_id] = Append(@, p)]
    /\ publishing' = publishing \ {p}
    /\ UNCHANGED <<groups, commit_inboxes, arrivals, commit_cursors, handed,
                   accepted, acked>>

\* publish_group_commit returns Ok once its loop is done.
FinishPublish(p) ==
    /\ Mode = "per_recipient"
    /\ p \in publishing
    /\ p.recipients = {}
    /\ publishing' = publishing \ {p}
    /\ UNCHANGED <<groups, commit_inboxes, arrivals, group_commit_log,
                   commit_cursors, handed, accepted, acked>>

----------------------------------------------------------------------------
AsDelivery(rec, recipient) ==
    [id |-> commit_delivery_id(rec, recipient), group_id |-> rec.group_id,
     epoch |-> rec.epoch, sender |-> rec.sender, commit_bytes |-> rec.commit_bytes]

\* The front of the recipient's queue, left in place; {} when it is empty.
peek_commit_inbox(c) ==
    {AsDelivery(d, c) : d \in {d \in commit_inboxes[c] :
                                  \A o \in commit_inboxes[c] : d.at <= o.at}}

\* The log entries of g that are addressed to c, and those beyond an epoch.
EntriesFor(c, g) ==
    {i \in 1..Len(group_commit_log[g]) : c \in group_commit_log[g][i].recipients}

EntriesBeyond(c, g, epoch) ==
    {i \in EntriesFor(c, g) : group_commit_log[g][i].epoch > epoch}

\* Per group the first entry IN LOG ORDER beyond the cursor; of these the one
\* with the lowest epoch.  Equal epochs of two groups are chosen between by
\* the iteration order of a HashMap.
fetch_group_log_commit_compat(c) ==
    LET first(g) == {i \in EntriesBeyond(c, g, commit_cursors[c][g]) :
                       \A j \in EntriesBeyond(c, g, commit_cursors[c][g]) : i <= j}
        found    == UNION {{group_commit_log[g][i] : i \in first(g)} : g \in Groups}
    IN  {AsDelivery(rec, c) : rec \in {rec \in found : \A o \in found : rec.epoch <= o.epoch}}

fetch_next_pending_commit(c) ==
    IF Mode = "per_recipient" THEN peek_commit_inbox(c)
                              ELSE fetch_group_log_commit_compat(c)

\* Mutant: the fetch pops the queue, as fetch_welcome does.
HandOutPops(c, d) ==
    /\ d \in fetch_next_pending_commit(c)
    /\ handed' = [handed EXCEPT ![c] = @ \cup {d}]
    /\ commit_inboxes' = [commit_inboxes EXCEPT ![c] = {q \in @ : AsDelivery(q, c) # d}]
    /\ UNCHANGED <<groups, arrivals, group_commit_log, commit_cursors,
                   publishing, accepted, acked>>

\* GET /commit/{c}/pending: changes nothing in the service; from now on the
\* client may ack what it was handed.
HandOut(c, d) ==
    /\ d \in fetch_next_pending_commit(c)
    /\ handed' = [handed EXCEPT ![c] = @ \cup {d}]
    /\ UNCHANGED <<groups, commit_inboxes, arrivals, group_commit_log,
                   commit_cursors, publishing, accepted, acked>>

fetch_pending_commit_delivery(c) == \E d \in fetch_next_pending_commit(c) : HandOut(c, d)

\* POST /commit/{c}/ack/{id}: retain everything with another id.
AckInbox(c, id) ==
    LET hit == {d \in commit_inboxes[c] : commit_delivery_id(d, c) = id}
    IN  /\ commit_inboxes' = [commit_inboxes EXCEPT ![c] = @ \ hit]
        /\ acked' = acked \cup {commit_delivery_id(d, c) : d \in hit}
        /\ UNCHANGED commit_cursors

\* Mutants: the cursor is set to whatever is acked, or points to the next epoch.
CursorSet(cursor, epoch) == epoch
CursorPast(cursor, epoch) == epoch + 1

CursorMax(cursor, epoch) == IF epoch > cursor THEN epoch ELSE cursor

\* In the log an ack moves the cursor forward to the acked entry.
ack_group_log_commit_compat(c, id) ==
    /\ LET g   == id[1]
           hit == {i \in EntriesFor(c, g) :
                     commit_delivery_id(group_commit_log[g][i], c) = id}
       IN  commit_cursors' = IF hit = {} THEN commit_cursors
                             ELSE [commit_cursors EXCEPT ![c][g] =
                                     CursorMax(commit_cursors[c][g], id[2])]
    /\ UNCHANGED <<commit_inboxes, acked>>

ack_commit(c, id) ==
    /\ IF Mode = "per_recipient" THEN AckInbox(c, id)
                                 ELSE ack_group_log_commit_compat(c, id)
    /\ UNCHANGED <<groups, arrivals, group_commit_log, publishing, handed, accepted>>

----------------------------------------------------------------------------
DsNext ==
    \/ \E g \in Groups, e \in 0..MaxEpoch, m \in SUBSET Clients : put_group_state(g, e, m)
    \/ \E g \in Groups, s \in Clients, e \in 0..MaxEpoch, b \in Commits : AcceptCommit(g, s, e, b)
    \/ \E p \in publishing : \E r \in p.recipients : PushToRecipient(p, r)
    \/ \E p \in publishing : FinishPublish(p)
    \/ \E p \in publishing : PushToLog(p)
    \/ \E c \in Clients : fetch_pending_commit_delivery(c)
    \/ \E c \in Clients : \E d \in handed[c] : ack_commit(c, d.id)

DsSpec == DsInit /\ [][DsNext]_dsVars

----------------------------------------------------------------------------
(* Properties *)

DsTypeOK ==
    /\ groups \in [Groups -> GroupState \cup {None}]
    /\ commit_inboxes \in [Clients -> SUBSET CommitDeliveryRecord]
    /\ arrivals \in [Clients -> Nat]
    /\ group_commit_log \in [Groups -> Seq(GroupLogCommit)]
    /\ commit_cursors \in [Clients -> [Groups -> Nat]]
    /\ publishing \subseteq GroupLogCommit
    /\ handed \in [Clients -> SUBSET CommitDelivery]
    /\ accepted \subseteq GroupLogCommit
    /\ acked \subseteq Groups \X Nat \X Clients \X Clients

SameCommit(a, b) == a.group_id = b.group_id /\ a.epoch = b.epoch

\* publish_group_commit decides every epoch race once: a group never has two
\* accepted commits for one epoch, and the accepted commits run without a gap
\* up to the epoch the service reports.
EpochChain ==
    /\ \A a, b \in accepted : SameCommit(a, b) => a = b
    /\ \A a \in accepted :
         /\ groups[a.group_id] # None
         /\ a.epoch <= groups[a.group_id].current_epoch
         /\ \A e \in a.epoch..groups[a.group_id].current_epoch :
              \E b \in accepted : b.group_id = a.group_id /\ b.epoch = e

Unpushed(a, r) == \E p \in publishing : SameCommit(p, a) /\ r \in p.recipients
Queued(a, r) == \E d \in commit_inboxes[r] : commit_delivery_id(d, r) = commit_delivery_id(a, r)
Acked(a, r) == commit_delivery_id(a, r) \in acked

\* However the push loops of concurrent publish_group_commit calls, the
\* fetches and the repeated acks interleave, each accepted commit is, for
\* each member at the time it was accepted, in exactly one place: still to be
\* pushed by its handler, queued, or acked; and no queue holds it twice.
DeliveredExactlyOnce ==
    Mode = "per_recipient" =>
      /\ \A a \in accepted : \A r \in a.recipients :
           /\ Unpushed(a, r) \/ Queued(a, r) \/ Acked(a, r)
           /\ ~(Unpushed(a, r) /\ Queued(a, r))
           /\ ~(Unpushed(a, r) /\ Acked(a, r))
           /\ ~(Queued(a, r) /\ Acked(a, r))
      /\ \A r \in Clients : \A d, o \in commit_inboxes[r] :
           commit_delivery_id(d, r) = commit_delivery_id(o, r) => d = o

\* Nothing is invented on the way: what a handler still has to push, what is
\* queued and what was acked all stem from an accepted commit and one of its
\* recipients, and no commit is pushed by two handlers.
Provenance ==
    /\ \A p \in publishing : \E a \in accepted :
         SameCommit(a, p) /\ a.sender = p.sender /\ p.recipients \subseteq a.recipients
    /\ \A p, q \in publishing : SameCommit(p, q) => p = q
    /\ \A r \in Clients : \A d \in commit_inboxes[r] : \E a \in accepted :
         commit_delivery_id(a, r) = commit_delivery_id(d, r) /\ r \in a.recipients
    /\ \A id \in acked : \E a \in accepted : \E r \in a.recipients :
         id = commit_delivery_id(a, r)

InLog(a) == \E i \in 1..Len(group_commit_log[a.group_id]) : group_commit_log[a.group_id][i] = a

\* Exactly-once for the shared log: an accepted commit is either still held by
\* its handler or in its group's log, once.
LoggedExactlyOnce ==
    Mode = "group_log" =>
      /\ \A a \in accepted : a \in publishing <=> ~InLog(a)
      /\ \A g \in Groups : \A i, j \in 1..Len(group_commit_log[g]) :
           group_commit_log[g][i].epoch = group_commit_log[g][j].epoch => i = j

\* A fetched delivery that no ack has removed is still queued, whatever the
\* other clients did since: a worker that dies between fetch and ack, or
\* whose answer was lost, is given it again.
RedeliveredUntilAcked ==
    Mode = "per_recipient" =>
      \A c \in Clients : \A d \in handed[c] :
        d.id \in acked \/ \E q \in commit_inboxes[c] : AsDelivery(q, c) = d

\* A late or repeated ack never moves a log cursor back, which would hand the
\* client commits of epochs it has left.
CursorsNeverMoveBack ==
    [][\A c \in Clients, g \in Groups : commit_cursors'[c][g] >= commit_cursors[c][g]]_dsVars
=============================================================================
