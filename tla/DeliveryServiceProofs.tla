----------------------- MODULE DeliveryServiceProofs -----------------------
(***************************************************************************)
(* Proofs, for any clients, groups, commits and epoch bound, of what       *)
(* DeliveryService promises in both delivery modes.                        *)
(***************************************************************************)
EXTENDS DeliveryService, TLAPS

\* What a fetch answers is a delivery, and comes from the recipient's inbox or
\* from a log entry addressed to it.
LEMMA FetchedDelivery ==
  ASSUME DsTypeOK, NEW c \in Clients, NEW d \in fetch_next_pending_commit(c)
  PROVE  /\ d \in CommitDelivery
         /\ Mode = "per_recipient" => \E q \in commit_inboxes[c] : d = AsDelivery(q, c)
<1>1. CASE Mode = "per_recipient"
  <2>1. PICK q \in commit_inboxes[c] : d = AsDelivery(q, c)
    BY Zenon, <1>1 DEF fetch_next_pending_commit, peek_commit_inbox
  <2>2. q \in CommitDeliveryRecord
    BY Zenon DEF DsTypeOK
  <2> QED
    BY ZenonT(30), <2>1, <2>2 DEF CommitDeliveryRecord, AsDelivery, CommitDelivery, commit_delivery_id
<1>2. CASE Mode # "per_recipient"
  <2>1. PICK g \in Groups :
          \E i \in 1..Len(group_commit_log[g]) : d = AsDelivery(group_commit_log[g][i], c)
    BY Zenon, <1>2 DEF fetch_next_pending_commit, fetch_group_log_commit_compat, EntriesBeyond, EntriesFor
  <2>2. PICK i \in 1..Len(group_commit_log[g]) : d = AsDelivery(group_commit_log[g][i], c)
    BY Zenon, <2>1
  <2>3. group_commit_log[g][i] \in GroupLogCommit
    BY DEF DsTypeOK
  <2> QED
    BY Zenon, <1>2, <2>2, <2>3 DEF GroupLogCommit, AsDelivery, CommitDelivery, commit_delivery_id
<1> QED
  BY Zenon, <1>1, <1>2

\* Every state of the delivery service is well typed, in both modes.
THEOREM TypeCorrect == DsSpec => []DsTypeOK
<1>1. DsInit => DsTypeOK
  BY DEF DsInit, DsTypeOK
<1>2. DsTypeOK /\ [DsNext]_dsVars => DsTypeOK'
  <2> SUFFICES ASSUME DsTypeOK, [DsNext]_dsVars PROVE DsTypeOK'
    OBVIOUS
  <2> USE DEF DsTypeOK
  <2>1. ASSUME NEW g \in Groups, NEW e \in 0..MaxEpoch, NEW m \in SUBSET Clients,
               put_group_state(g, e, m)
        PROVE  DsTypeOK'
    <3>1. groups' \in [Groups -> GroupState \cup {None}]
      <4>1. [current_epoch |-> e, members |-> m] \in GroupState
        BY MaxEpochAssumption DEF GroupState
      <4>2. groups[g] # None => [groups[g] EXCEPT !.members = m] \in GroupState
        BY ZenonT(30) DEF GroupState
      <4> QED
        BY ZenonT(30), <2>1, <4>1, <4>2 DEF put_group_state
    <3> QED
      BY Zenon, <2>1, <3>1 DEF put_group_state
  <2>2. ASSUME NEW g \in Groups, NEW s \in Clients, NEW e \in 0..MaxEpoch, NEW b \in Commits,
               AcceptCommit(g, s, e, b)
        PROVE  DsTypeOK'
    <3>1. groups[g] \in GroupState /\ e + 1 \in Nat
      BY <2>2, MaxEpochAssumption DEF AcceptCommit, CommitConflict
    <3>2. groups' \in [Groups -> GroupState \cup {None}]
      BY ZenonT(30), <2>2, <3>1 DEF AcceptCommit, next_epoch, GroupState
    <3>3. [group_id |-> g, epoch |-> e + 1, sender |-> s, commit_bytes |-> b,
           recipients |-> groups[g].members] \in GroupLogCommit
      BY Zenon, <3>1 DEF GroupState, GroupLogCommit
    <3> QED
      BY Zenon, <2>2, <3>2, <3>3 DEF AcceptCommit, next_epoch
  <2>3. ASSUME NEW p \in publishing, NEW r \in p.recipients, PushToRecipient(p, r)
        PROVE  DsTypeOK'
    <3>1. p \in GroupLogCommit /\ r \in Clients /\ arrivals[r] + 1 \in Nat
      BY DEF GroupLogCommit
    <3>2. QueuedRecord(p, arrivals[r] + 1) \in CommitDeliveryRecord
      BY Zenon, <3>1 DEF GroupLogCommit, QueuedRecord, CommitDeliveryRecord
    <3>3. [p EXCEPT !.recipients = @ \ {r}] \in GroupLogCommit
      BY ZenonT(30), <3>1 DEF GroupLogCommit
    <3> QED
      BY ZenonT(30), <2>3, <3>1, <3>2, <3>3 DEF PushToRecipient
  <2>4. ASSUME NEW p \in publishing, FinishPublish(p) PROVE DsTypeOK'
    BY Zenon, <2>4 DEF FinishPublish
  <2>5. ASSUME NEW p \in publishing, PushToLog(p) PROVE DsTypeOK'
    <3>1. p \in GroupLogCommit /\ p.group_id \in Groups
      BY Zenon DEF GroupLogCommit
    <3>2. Append(group_commit_log[p.group_id], p) \in Seq(GroupLogCommit)
      BY <3>1
    <3>3. group_commit_log' \in [Groups -> Seq(GroupLogCommit)]
      BY Zenon, <2>5, <3>1, <3>2 DEF PushToLog
    <3> QED
      BY Zenon, <2>5, <3>3 DEF PushToLog
  <2>6. ASSUME NEW c \in Clients, fetch_pending_commit_delivery(c) PROVE DsTypeOK'
    BY SMTT(30), <2>6, FetchedDelivery DEF fetch_pending_commit_delivery, HandOut
  <2>7. ASSUME NEW c \in Clients, NEW d \in handed[c], ack_commit(c, d.id) PROVE DsTypeOK'
    <3>1. d.id \in Groups \X Nat \X Clients \X Clients
      BY DEF CommitDelivery
    <3>2. CASE Mode = "per_recipient"
      <4>1. \A q \in commit_inboxes[c] :
              commit_delivery_id(q, c) \in Groups \X Nat \X Clients \X Clients
        BY DEF CommitDeliveryRecord, commit_delivery_id
      <4>2. /\ commit_inboxes' \in [Clients -> SUBSET CommitDeliveryRecord]
            /\ commit_cursors' = commit_cursors
        BY ZenonT(30), <2>7, <3>2 DEF ack_commit, AckInbox
      <4>3. acked' \subseteq Groups \X Nat \X Clients \X Clients
        BY <2>7, <3>2, <4>1 DEF ack_commit, AckInbox
      <4> QED
        BY Zenon, <2>7, <4>2, <4>3 DEF ack_commit
    <3>3. CASE Mode # "per_recipient"
      <4>1. d.id[1] \in Groups /\ d.id[2] \in Nat
        BY Zenon, <3>1
      <4>2. commit_cursors' \in [Clients -> [Groups -> Nat]]
        <5>1. \/ commit_cursors' = commit_cursors
              \/ commit_cursors' = [commit_cursors EXCEPT ![c] =
                   [@ EXCEPT ![d.id[1]] = CursorMax(commit_cursors[c][d.id[1]], d.id[2])]]
          BY Zenon, <2>7, <3>3 DEF ack_commit, ack_group_log_commit_compat
        <5>2. CursorMax(commit_cursors[c][d.id[1]], d.id[2]) \in Nat
          BY Zenon, <4>1 DEF CursorMax
        <5>3. [commit_cursors[c] EXCEPT ![d.id[1]] = CursorMax(commit_cursors[c][d.id[1]], d.id[2])]
                \in [Groups -> Nat]
          BY ZenonT(30), <5>2
        <5> QED
          BY ZenonT(30), <5>1, <5>3
      <4> QED
        BY Zenon, <2>7, <3>3, <4>2 DEF ack_commit, ack_group_log_commit_compat
    <3> QED
      BY ZenonT(30), <3>2, <3>3
  <2>8. CASE UNCHANGED dsVars
    BY Zenon, <2>8 DEF dsVars
  <2> QED
    BY ZenonT(30), <2>1, <2>2, <2>3, <2>4, <2>5, <2>6, <2>7, <2>8 DEF DsNext
<1> QED
  BY <1>1, <1>2, PTL DEF DsSpec
----------------------------------------------------------------------------
\* Only an accept adds to `accepted` or moves an epoch; a put on a known group
\* keeps its epoch.
LEMMA OnlyAcceptMovesEpochs ==
  ASSUME DsTypeOK, [DsNext]_dsVars
  PROVE  \/ \E g \in Groups, s \in Clients, e \in 0..MaxEpoch, b \in Commits : AcceptCommit(g, s, e, b)
         \/ /\ accepted' = accepted
            /\ \A g \in Groups : groups[g] # None =>
                 groups'[g] # None /\ groups'[g].current_epoch = groups[g].current_epoch
<1>1. ASSUME NEW g \in Groups, NEW e \in 0..MaxEpoch, NEW m \in SUBSET Clients,
             put_group_state(g, e, m)
      PROVE  /\ accepted' = accepted
             /\ \A h \in Groups : groups[h] # None =>
                  groups'[h] # None /\ groups'[h].current_epoch = groups[h].current_epoch
  <2>1. accepted' = accepted
    BY Zenon, <1>1 DEF put_group_state
  <2>2. ASSUME NEW h \in Groups, groups[h] # None
        PROVE  groups'[h] # None /\ groups'[h].current_epoch = groups[h].current_epoch
    <3>1. groups[h] \in GroupState
      BY Zenon, <2>2 DEF DsTypeOK
    <3>2. CASE h # g
      BY Zenon, <1>1, <2>2, <3>2 DEF put_group_state, DsTypeOK
    <3>3. CASE h = g
      <4>1. groups'[g] = [groups[g] EXCEPT !.members = m]
        BY ZenonT(30), <1>1, <2>2, <3>3 DEF put_group_state, DsTypeOK
      <4> QED
        BY Zenon, <3>1, <3>3, <4>1, NoneAssumption DEF GroupState
    <3> QED
      BY Zenon, <3>2, <3>3
  <2> QED
    BY Zenon, <2>1, <2>2
<1>2. ASSUME UNCHANGED <<groups, accepted>>
      PROVE  /\ accepted' = accepted
             /\ \A h \in Groups : groups[h] # None =>
                  groups'[h] # None /\ groups'[h].current_epoch = groups[h].current_epoch
  BY Zenon, <1>2
<1>3. ASSUME NEW p \in publishing,
             FinishPublish(p) \/ PushToLog(p) \/ \E r \in p.recipients : PushToRecipient(p, r)
      PROVE  UNCHANGED <<groups, accepted>>
  BY Zenon, <1>3 DEF FinishPublish, PushToLog, PushToRecipient
<1>4. ASSUME NEW c \in Clients,
             fetch_pending_commit_delivery(c) \/ \E d \in handed[c] : ack_commit(c, d.id)
      PROVE  UNCHANGED <<groups, accepted>>
  BY Zenon, <1>4 DEF fetch_pending_commit_delivery, HandOut, ack_commit
<1>5. CASE UNCHANGED dsVars
  BY Zenon, <1>5 DEF dsVars
<1> QED
  BY Zenon, <1>1, <1>2, <1>3, <1>4, <1>5 DEF DsNext

\* What an accept does, spelled out: the new commit is the only one for its
\* epoch, and the group's epoch moves on to it.
LEMMA AcceptAppends ==
  ASSUME DsTypeOK, EpochChain,
         NEW g \in Groups, NEW s \in Clients, NEW e \in 0..MaxEpoch, NEW b \in Commits,
         AcceptCommit(g, s, e, b)
  PROVE  \E rec \in GroupLogCommit :
           /\ accepted' = accepted \cup {rec}
           /\ publishing' = publishing \cup {rec}
           /\ rec.group_id = g /\ rec.epoch = e + 1
           /\ \A a \in accepted : ~SameCommit(a, rec)
           /\ groups[g] # None /\ groups[g].current_epoch = e
           /\ groups'[g] # None /\ groups'[g].current_epoch = e + 1
           /\ \A h \in Groups : h # g => groups'[h] = groups[h]
<1> DEFINE rec == [group_id |-> g, epoch |-> e + 1, sender |-> s, commit_bytes |-> b,
                   recipients |-> groups[g].members]
<1>1. groups[g] \in GroupState /\ groups[g] # None /\ groups[g].current_epoch = e /\ e \in Nat
  BY MaxEpochAssumption DEF AcceptCommit, CommitConflict, DsTypeOK
<1>2. rec \in GroupLogCommit
  BY <1>1 DEF GroupState, GroupLogCommit
<1>3. accepted' = accepted \cup {rec} /\ publishing' = publishing \cup {rec}
  BY Zenon DEF AcceptCommit, next_epoch
<1>4. \A a \in accepted : ~SameCommit(a, rec)
  BY <1>1 DEF EpochChain, SameCommit, DsTypeOK, GroupLogCommit
<1>5. groups'[g] = [groups[g] EXCEPT !.current_epoch = e + 1]
  BY Zenon DEF AcceptCommit, next_epoch, DsTypeOK
<1>6. groups'[g] # None /\ groups'[g].current_epoch = e + 1
  BY <1>1, <1>5, NoneAssumption DEF GroupState
<1>7. \A h \in Groups : h # g => groups'[h] = groups[h]
  BY Zenon DEF AcceptCommit, DsTypeOK
<1> QED
  BY Zenon, <1>1, <1>2, <1>3, <1>4, <1>6, <1>7

\* publish_group_commit decides every epoch race once: for any clients and
\* groups the accepted commits of a group form a gap-free chain of epochs with
\* one commit each.
THEOREM EpochChainHolds == DsSpec => []EpochChain
<1>1. DsInit => EpochChain
  BY Zenon DEF DsInit, EpochChain
<1>2. DsTypeOK /\ EpochChain /\ [DsNext]_dsVars => EpochChain'
  <2> SUFFICES ASSUME DsTypeOK, EpochChain, [DsNext]_dsVars PROVE EpochChain'
    OBVIOUS
  <2>1. ASSUME accepted' = accepted,
               \A g \in Groups : groups[g] # None =>
                 groups'[g] # None /\ groups'[g].current_epoch = groups[g].current_epoch
        PROVE  EpochChain'
    <3>1. \A a \in accepted : a.group_id \in Groups
      BY Zenon DEF DsTypeOK, GroupLogCommit
    <3> QED
      BY <2>1, <3>1 DEF EpochChain, SameCommit
  <2>2. ASSUME NEW g \in Groups, NEW s \in Clients, NEW e \in 0..MaxEpoch, NEW b \in Commits,
               AcceptCommit(g, s, e, b)
        PROVE  EpochChain'
    <3>1. PICK rec \in GroupLogCommit :
           /\ accepted' = accepted \cup {rec}
           /\ rec.group_id = g /\ rec.epoch = e + 1
           /\ \A a \in accepted : ~SameCommit(a, rec)
           /\ groups[g] # None /\ groups[g].current_epoch = e
           /\ groups'[g] # None /\ groups'[g].current_epoch = e + 1
           /\ \A h \in Groups : h # g => groups'[h] = groups[h]
      BY <2>2, AcceptAppends
    <3>2. \A a, b1 \in accepted' : SameCommit(a, b1)' => a = b1
      BY <3>1 DEF EpochChain, SameCommit
    <3>3. ASSUME NEW a \in accepted'
          PROVE  /\ groups'[a.group_id] # None
                 /\ a.epoch <= groups'[a.group_id].current_epoch
                 /\ \A n \in a.epoch..groups'[a.group_id].current_epoch :
                      \E b1 \in accepted' : b1.group_id = a.group_id /\ b1.epoch = n
      <4>1. e \in Nat
        BY MaxEpochAssumption
      <4>2. CASE a = rec
        BY <3>1, <4>1, <4>2
      <4>3. CASE a \in accepted /\ a.group_id = g
        <5>1. a.epoch \in Nat /\ a.epoch <= e
          BY Zenon, <3>1, <4>3 DEF EpochChain, DsTypeOK, GroupLogCommit
        <5>2. \A n \in a.epoch..e : \E b1 \in accepted : b1.group_id = g /\ b1.epoch = n
          BY <3>1, <4>3 DEF EpochChain
        <5> QED
          BY <3>1, <4>1, <4>3, <5>1, <5>2
      <4>4. CASE a \in accepted /\ a.group_id # g
        <5>1. a.group_id \in Groups
          BY Zenon, <4>4 DEF DsTypeOK, GroupLogCommit
        <5> QED
          BY <3>1, <4>4, <5>1 DEF EpochChain
      <4> QED
        BY Zenon, <3>1, <4>2, <4>3, <4>4
    <3> QED
      BY Zenon, <3>2, <3>3 DEF EpochChain
  <2> QED
    BY Zenon, <2>1, <2>2, OnlyAcceptMovesEpochs
<1> QED
  BY <1>1, <1>2, TypeCorrect, PTL DEF DsSpec
----------------------------------------------------------------------------
\* The parts of a delivery id determine it.
LEMMA DeliveryIdEq ==
  ASSUME NEW a, NEW b, NEW r, NEW q
  PROVE  commit_delivery_id(a, r) = commit_delivery_id(b, q) <=>
           /\ SameCommit(a, b) /\ a.sender = b.sender /\ r = q
  BY Zenon DEF commit_delivery_id, SameCommit

\* Pushes, queues and acks all stem from accepted commits, in both modes.
THEOREM ProvenanceHolds == DsSpec => []Provenance
<1>1. DsInit => Provenance
  BY Zenon DEF DsInit, Provenance
<1>2. DsTypeOK /\ EpochChain /\ Provenance /\ [DsNext]_dsVars => Provenance'
  <2> SUFFICES ASSUME DsTypeOK, EpochChain, Provenance, [DsNext]_dsVars PROVE Provenance'
    OBVIOUS
  <2>1. ASSUME NEW g \in Groups, NEW e \in 0..MaxEpoch, NEW m \in SUBSET Clients,
               put_group_state(g, e, m)
        PROVE  Provenance'
    BY <2>1 DEF put_group_state, Provenance, SameCommit, commit_delivery_id
  <2>2. ASSUME NEW g \in Groups, NEW s \in Clients, NEW e \in 0..MaxEpoch, NEW b \in Commits,
               AcceptCommit(g, s, e, b)
        PROVE  Provenance'
    <3>1. PICK rec \in GroupLogCommit :
           /\ accepted' = accepted \cup {rec}
           /\ publishing' = publishing \cup {rec}
           /\ \A a \in accepted : ~SameCommit(a, rec)
      BY Zenon, <2>2, AcceptAppends
    <3>2. \A p \in publishing : ~SameCommit(p, rec)
      BY ZenonT(30), <3>1 DEF Provenance, SameCommit
    <3>3. commit_inboxes' = commit_inboxes /\ acked' = acked
      BY Zenon, <2>2 DEF AcceptCommit
    <3>4. (\A p, q \in publishing : SameCommit(p, q) => p = q)'
      BY Zenon, <3>1, <3>2 DEF Provenance, SameCommit
    <3>5. (\A p \in publishing : \E a \in accepted :
             SameCommit(a, p) /\ a.sender = p.sender /\ p.recipients \subseteq a.recipients)'
      BY Zenon, <3>1 DEF Provenance, SameCommit
    <3> QED
      BY <3>1, <3>3, <3>4, <3>5 DEF Provenance, commit_delivery_id
  <2>3. ASSUME NEW p \in publishing, NEW r \in p.recipients, PushToRecipient(p, r)
        PROVE  Provenance'
    <3> DEFINE d == QueuedRecord(p, arrivals[r] + 1)
               rest == [p EXCEPT !.recipients = @ \ {r}]
    <3>1. p \in GroupLogCommit /\ r \in Clients
      BY Zenon DEF DsTypeOK, GroupLogCommit
    <3>2. /\ publishing' = (publishing \ {p}) \cup {rest}
          /\ commit_inboxes' = [commit_inboxes EXCEPT ![r] = @ \cup {d}]
          /\ accepted' = accepted /\ acked' = acked
      BY Zenon, <2>3 DEF PushToRecipient
    <3>3. /\ rest.group_id = p.group_id /\ rest.epoch = p.epoch /\ rest.sender = p.sender
          /\ rest.recipients \subseteq p.recipients
      BY Zenon, <3>1 DEF GroupLogCommit
    <3>4. PICK a \in accepted :
            SameCommit(a, p) /\ a.sender = p.sender /\ p.recipients \subseteq a.recipients
      BY Zenon DEF Provenance
    <3>5. (\A q \in publishing : \E b \in accepted :
             SameCommit(b, q) /\ b.sender = q.sender /\ q.recipients \subseteq b.recipients)'
      <4>1. SameCommit(a, rest) /\ a.sender = rest.sender /\ rest.recipients \subseteq a.recipients
        BY Zenon, <3>3, <3>4 DEF SameCommit
      <4> HIDE DEF rest, d
      <4> SUFFICES ASSUME NEW q \in publishing'
                   PROVE  \E b \in accepted :
                            SameCommit(b, q) /\ b.sender = q.sender /\ q.recipients \subseteq b.recipients
        BY Zenon, <3>2 DEF SameCommit
      <4>2. CASE q = rest
        BY Zenon, <3>4, <4>1, <4>2
      <4>3. CASE q \in publishing
        BY Zenon, <4>3 DEF Provenance
      <4> QED
        BY Zenon, <3>2, <4>2, <4>3
    <3>6. ASSUME NEW q \in publishing', NEW o \in publishing', SameCommit(q, o) PROVE q = o
      <4>1. \A x \in publishing : SameCommit(x, p) => x = p
        BY Zenon DEF Provenance
      <4>2. \A x \in publishing' : x = rest \/ (x \in publishing /\ x # p)
        BY Zenon, <3>2
      <4>3. \A x : SameCommit(x, rest) <=> SameCommit(x, p)
        BY Zenon, <3>3 DEF SameCommit
      <4>4. \A x, y : SameCommit(x, y) <=> SameCommit(y, x)
        BY Zenon DEF SameCommit
      <4> HIDE DEF rest
      <4>5. CASE q \in publishing /\ o \in publishing
        BY Zenon, <3>6, <4>5 DEF Provenance
      <4> QED
        BY Zenon, <3>6, <4>1, <4>2, <4>3, <4>4, <4>5
    <3>7. commit_delivery_id(a, r) = commit_delivery_id(d, r) /\ r \in a.recipients
      BY Zenon, <3>4 DEF QueuedRecord, commit_delivery_id, SameCommit
    <3>8. ASSUME NEW q \in Clients, NEW o \in commit_inboxes'[q]
          PROVE  \E b \in accepted :
                   commit_delivery_id(b, q) = commit_delivery_id(o, q) /\ q \in b.recipients
      <4>1. o \in commit_inboxes[q] \/ (q = r /\ o = d)
        BY Zenon, <3>2 DEF DsTypeOK
      <4> QED
        BY <3>7, <4>1 DEF Provenance
    <3> QED
      BY <3>2, <3>5, <3>6, <3>8 DEF Provenance, SameCommit, commit_delivery_id
  <2>4. ASSUME NEW p \in publishing, FinishPublish(p) \/ PushToLog(p) PROVE Provenance'
    BY <2>4 DEF FinishPublish, PushToLog, Provenance, SameCommit, commit_delivery_id
  <2>5. ASSUME NEW c \in Clients, fetch_pending_commit_delivery(c) PROVE Provenance'
    BY <2>5 DEF fetch_pending_commit_delivery, HandOut, Provenance, SameCommit, commit_delivery_id
  <2>6. ASSUME NEW c \in Clients, NEW d \in handed[c], ack_commit(c, d.id) PROVE Provenance'
    <3>1. publishing' = publishing /\ accepted' = accepted
      BY Zenon, <2>6 DEF ack_commit
    <3>2. \A r \in Clients : commit_inboxes'[r] \subseteq commit_inboxes[r]
      BY ZenonT(30), <2>6 DEF ack_commit, AckInbox, ack_group_log_commit_compat, DsTypeOK
    <3>3. \A id \in acked' : id \in acked \/ \E q \in commit_inboxes[c] : id = commit_delivery_id(q, c)
      BY Zenon, <2>6 DEF ack_commit, AckInbox, ack_group_log_commit_compat
    <3>4. \A id \in acked' : \E a \in accepted : \E r \in a.recipients : id = commit_delivery_id(a, r)
      BY <3>3 DEF Provenance
    <3> QED
      BY <3>1, <3>2, <3>4 DEF Provenance, SameCommit, commit_delivery_id
  <2>7. CASE UNCHANGED dsVars
    BY <2>7 DEF dsVars, Provenance, SameCommit, commit_delivery_id
  <2> QED
    BY Zenon, <2>1, <2>2, <2>3, <2>4, <2>5, <2>6, <2>7 DEF DsNext
<1> QED
  BY <1>1, <1>2, TypeCorrect, EpochChainHolds, PTL DEF DsSpec
----------------------------------------------------------------------------
\* The central promise of per-recipient delivery: for any number of clients,
\* groups and concurrent handlers, every accepted commit is for each of its
\* recipients in exactly one place, and never twice in a queue.
THEOREM DeliveredExactlyOnceHolds == DsSpec => []DeliveredExactlyOnce
<1>1. DsInit => DeliveredExactlyOnce
  BY Zenon DEF DsInit, DeliveredExactlyOnce
<1>2. DsTypeOK /\ EpochChain /\ Provenance /\ DeliveredExactlyOnce /\ [DsNext]_dsVars
        => DeliveredExactlyOnce'
  <2> SUFFICES ASSUME DsTypeOK, EpochChain, Provenance, DeliveredExactlyOnce, [DsNext]_dsVars,
                      Mode = "per_recipient"
               PROVE  DeliveredExactlyOnce'
    BY Zenon DEF DeliveredExactlyOnce
  <2> DEFINE Where(a, r) == /\ Unpushed(a, r) \/ Queued(a, r) \/ Acked(a, r)
                            /\ ~(Unpushed(a, r) /\ Queued(a, r))
                            /\ ~(Unpushed(a, r) /\ Acked(a, r))
                            /\ ~(Queued(a, r) /\ Acked(a, r))
             Once(r) == \A d, o \in commit_inboxes[r] :
                          commit_delivery_id(d, r) = commit_delivery_id(o, r) => d = o
  <2>0. /\ \A a \in accepted : \A r \in a.recipients : Where(a, r)
        /\ \A r \in Clients : Once(r)
    BY Zenon DEF DeliveredExactlyOnce
  <2>1. ASSUME NEW g \in Groups, NEW e \in 0..MaxEpoch, NEW m \in SUBSET Clients,
               put_group_state(g, e, m)
        PROVE  DeliveredExactlyOnce'
    BY SMTT(30), <2>1 DEF put_group_state, DeliveredExactlyOnce, Unpushed, Queued, Acked, SameCommit,
                commit_delivery_id
  <2>2. ASSUME NEW g \in Groups, NEW s \in Clients, NEW e \in 0..MaxEpoch, NEW b \in Commits,
               AcceptCommit(g, s, e, b)
        PROVE  DeliveredExactlyOnce'
    <3>1. PICK rec \in GroupLogCommit :
           /\ accepted' = accepted \cup {rec}
           /\ publishing' = publishing \cup {rec}
           /\ \A a \in accepted : ~SameCommit(a, rec)
      BY Zenon, <2>2, AcceptAppends
    <3>2. commit_inboxes' = commit_inboxes /\ acked' = acked
      BY Zenon, <2>2 DEF AcceptCommit
    <3>3. ASSUME NEW a \in accepted, NEW r \in a.recipients PROVE Where(a, r)'
      <4>1. Unpushed(a, r)' <=> Unpushed(a, r)
        BY Zenon, <3>1 DEF Unpushed, SameCommit
      <4>2. (Queued(a, r)' <=> Queued(a, r)) /\ (Acked(a, r)' <=> Acked(a, r))
        BY Zenon, <3>2 DEF Queued, Acked, commit_delivery_id
      <4> QED
        BY Zenon, <2>0, <4>1, <4>2
    <3>4. ASSUME NEW r \in rec.recipients PROVE Where(rec, r)'
      <4>1. r \in Clients
        BY Zenon DEF GroupLogCommit
      <4>2. Unpushed(rec, r)'
        BY Zenon, <3>1 DEF Unpushed, SameCommit
      <4>3. ~Queued(rec, r)
        BY <3>1, <4>1, DeliveryIdEq DEF Queued, Provenance
      <4>4. ~Acked(rec, r)
        BY <3>1, DeliveryIdEq DEF Acked, Provenance
      <4>5. ~Queued(rec, r)' /\ ~Acked(rec, r)'
        BY Zenon, <3>2, <4>3, <4>4 DEF Queued, Acked, commit_delivery_id
      <4> QED
        BY Zenon, <4>2, <4>5
    <3>5. \A r \in Clients : Once(r)'
      BY Zenon, <2>0, <3>2 DEF commit_delivery_id
    <3> QED
      BY <3>1, <3>3, <3>4, <3>5 DEF DeliveredExactlyOnce
  <2>3. ASSUME NEW p \in publishing, NEW r \in p.recipients, PushToRecipient(p, r)
        PROVE  DeliveredExactlyOnce'
    <3> DEFINE d == QueuedRecord(p, arrivals[r] + 1)
               rest == [p EXCEPT !.recipients = @ \ {r}]
    <3>1. p \in GroupLogCommit /\ r \in Clients
      BY Zenon DEF DsTypeOK, GroupLogCommit
    <3>2. /\ publishing' = (publishing \ {p}) \cup {rest}
          /\ commit_inboxes' = [commit_inboxes EXCEPT ![r] = @ \cup {d}]
          /\ accepted' = accepted /\ acked' = acked
      BY Zenon, <2>3 DEF PushToRecipient
    <3>3. /\ rest.group_id = p.group_id /\ rest.epoch = p.epoch
          /\ rest.recipients = p.recipients \ {r}
      BY Zenon, <3>1 DEF GroupLogCommit
    <3>4. PICK b \in accepted :
            SameCommit(b, p) /\ b.sender = p.sender /\ p.recipients \subseteq b.recipients
      BY Zenon DEF Provenance
    <3>5. Unpushed(b, r) /\ ~Queued(b, r) /\ ~Acked(b, r)
      BY Zenon, <2>0, <3>4 DEF Unpushed, SameCommit
    <3>6. commit_delivery_id(d, r) = commit_delivery_id(b, r)
      BY Zenon, <3>4 DEF QueuedRecord, commit_delivery_id, SameCommit
    <3>7. \A q \in Clients : commit_inboxes'[q] = IF q = r THEN commit_inboxes[q] \cup {d}
                                                  ELSE commit_inboxes[q]
      BY ZenonT(30), <3>2 DEF DsTypeOK
    <3>8. ASSUME NEW a \in accepted, NEW q \in a.recipients PROVE Where(a, q)'
      <4>1. q \in Clients
        BY Zenon DEF DsTypeOK, GroupLogCommit
      <4>2. CASE a = b /\ q = r
        <5>1. Queued(a, q)'
          BY ZenonT(30), <3>1, <3>6, <3>7, <4>2 DEF Queued, commit_delivery_id
        <5>2. ~Acked(a, q)'
          BY Zenon, <3>2, <3>5, <4>2 DEF Acked, commit_delivery_id
        <5>3. ASSUME NEW o \in publishing', SameCommit(o, a), q \in o.recipients PROVE FALSE
          <6>1. o # rest
            BY ZenonT(30), <3>3, <4>2, <5>3
          <6>2. o \in publishing /\ o # p /\ SameCommit(o, p)
            BY Zenon, <3>2, <3>4, <4>2, <5>3, <6>1 DEF SameCommit
          <6> QED
            BY Zenon, <6>2 DEF Provenance
        <5>4. ~Unpushed(a, q)'
          BY Zenon, <5>3 DEF Unpushed, SameCommit
        <5> QED
          BY Zenon, <5>1, <5>2, <5>4
      <4>3. CASE ~(a = b /\ q = r)
        <5>1. Acked(a, q)' <=> Acked(a, q)
          BY Zenon, <3>2 DEF Acked, commit_delivery_id
        <5>2. q = r => commit_delivery_id(d, q) # commit_delivery_id(a, q)
          BY <3>6, <4>3, DeliveryIdEq DEF EpochChain
        <5>3. Queued(a, q)' <=> Queued(a, q)
          BY ZenonT(30), <3>7, <4>1, <5>2 DEF Queued, commit_delivery_id
        <5>4. q = r => ~SameCommit(p, a)
          BY <3>4, <4>3 DEF EpochChain, SameCommit
        <5>5. Unpushed(a, q)' <=> Unpushed(a, q)
          BY ZenonT(30), <3>2, <3>3, <5>4 DEF Unpushed, SameCommit
        <5> QED
          BY Zenon, <2>0, <5>1, <5>3, <5>5
      <4> QED
        BY Zenon, <4>2, <4>3
    <3>9. ASSUME NEW q \in Clients PROVE Once(q)'
      <4>1. \A o \in commit_inboxes[r] : commit_delivery_id(o, r) # commit_delivery_id(d, r)
        BY Zenon, <3>5, <3>6 DEF Queued
      <4>2. ASSUME NEW x \in commit_inboxes'[q], NEW y \in commit_inboxes'[q],
                   commit_delivery_id(x, q) = commit_delivery_id(y, q)
            PROVE  x = y
        <5> HIDE DEF d
        <5>0. \A u, v \in commit_inboxes[q] :
                commit_delivery_id(u, q) = commit_delivery_id(v, q) => u = v
          BY Zenon, <2>0
        <5>1. CASE x \in commit_inboxes[q] /\ y \in commit_inboxes[q]
          BY Zenon, <4>2, <5>0, <5>1
        <5>2. \A o \in commit_inboxes[q] :
                q = r => commit_delivery_id(o, q) # commit_delivery_id(d, q)
          BY Zenon, <4>1
        <5>3. CASE q = r /\ x = d /\ y \in commit_inboxes[q]
          BY Zenon, <4>2, <5>2, <5>3
        <5>4. CASE q = r /\ y = d /\ x \in commit_inboxes[q]
          BY Zenon, <4>2, <5>2, <5>4
        <5>5. /\ x \in commit_inboxes[q] \/ (q = r /\ x = d)
              /\ y \in commit_inboxes[q] \/ (q = r /\ y = d)
          BY ZenonT(30), <3>7
        <5> QED
          BY Zenon, <5>1, <5>3, <5>4, <5>5
      <4> QED
        BY Zenon, <4>2 DEF commit_delivery_id
    <3> QED
      BY Zenon, <3>2, <3>8, <3>9 DEF DeliveredExactlyOnce
  <2>4. ASSUME NEW p \in publishing, FinishPublish(p) PROVE DeliveredExactlyOnce'
    <3>1. /\ publishing' = publishing \ {p} /\ p.recipients = {} /\ acked' = acked
          /\ commit_inboxes' = commit_inboxes /\ accepted' = accepted
      BY Zenon, <2>4 DEF FinishPublish
    <3>2. \A a \in accepted : \A r \in a.recipients : Unpushed(a, r)' <=> Unpushed(a, r)
      BY Zenon, <3>1 DEF Unpushed, SameCommit
    <3>3. \A a \in accepted : \A r \in a.recipients :
            (Queued(a, r)' <=> Queued(a, r)) /\ (Acked(a, r)' <=> Acked(a, r))
      BY Zenon, <3>1 DEF Queued, Acked, commit_delivery_id
    <3> QED
      BY Zenon, <2>0, <3>1, <3>2, <3>3 DEF DeliveredExactlyOnce, commit_delivery_id
  <2>5. ASSUME NEW p \in publishing, PushToLog(p) PROVE FALSE
    BY Zenon, <2>5 DEF PushToLog
  <2>6. ASSUME NEW c \in Clients, fetch_pending_commit_delivery(c) PROVE DeliveredExactlyOnce'
    BY SMTT(30), <2>6 DEF fetch_pending_commit_delivery, HandOut, DeliveredExactlyOnce, Unpushed, Queued, Acked,
                SameCommit, commit_delivery_id
  <2>7. ASSUME NEW c \in Clients, NEW d \in handed[c], ack_commit(c, d.id)
        PROVE  DeliveredExactlyOnce'
    <3> DEFINE hit == {q \in commit_inboxes[c] : commit_delivery_id(q, c) = d.id}
    <3>1. /\ publishing' = publishing /\ accepted' = accepted
          /\ commit_inboxes' = [commit_inboxes EXCEPT ![c] = @ \ hit]
          /\ acked' = acked \cup {commit_delivery_id(q, c) : q \in hit}
      BY Zenon, <2>7 DEF ack_commit, AckInbox
    <3>2. \A r \in Clients : commit_inboxes'[r] = IF r = c THEN commit_inboxes[r] \ hit
                                                  ELSE commit_inboxes[r]
      BY ZenonT(30), <3>1 DEF DsTypeOK
    <3>3. ASSUME NEW a \in accepted, NEW r \in a.recipients PROVE Where(a, r)'
      <4>1. r \in Clients
        BY Zenon DEF DsTypeOK, GroupLogCommit
      <4>2. Unpushed(a, r)' <=> Unpushed(a, r)
        BY Zenon, <3>1 DEF Unpushed, SameCommit
      <4>3. CASE commit_delivery_id(a, r) = d.id /\ r = c /\ Queued(a, r)
        <5>1. ~Queued(a, r)'
          BY ZenonT(30), <3>2, <4>1, <4>3 DEF Queued, commit_delivery_id
        <5>2. Acked(a, r)'
          BY Zenon, <3>1, <4>3 DEF Queued, Acked, commit_delivery_id
        <5> QED
          BY Zenon, <2>0, <4>2, <4>3, <5>1, <5>2
      <4>4. CASE ~(commit_delivery_id(a, r) = d.id /\ r = c /\ Queued(a, r))
        <5>1. Queued(a, r)' <=> Queued(a, r)
          BY ZenonT(30), <3>2, <4>1, <4>4 DEF Queued, commit_delivery_id
        <5>2. Acked(a, r)' <=> Acked(a, r)
          <6>1. \A q \in hit : commit_delivery_id(q, c) = commit_delivery_id(a, r) => r = c
            BY DeliveryIdEq
          <6>2. \A q \in hit : commit_delivery_id(q, c) # commit_delivery_id(a, r)
            BY Zenon, <4>4, <6>1 DEF Queued
          <6> QED
            BY Zenon, <3>1, <6>2 DEF Acked, commit_delivery_id
        <5> QED
          BY Zenon, <2>0, <4>2, <5>1, <5>2
      <4> QED
        BY Zenon, <4>3, <4>4
    <3>4. ASSUME NEW r \in Clients PROVE Once(r)'
      BY ZenonT(30), <2>0, <3>2 DEF commit_delivery_id
    <3> QED
      BY Zenon, <3>1, <3>3, <3>4 DEF DeliveredExactlyOnce
  <2>8. CASE UNCHANGED dsVars
    BY <2>8 DEF dsVars, DeliveredExactlyOnce, Unpushed, Queued, Acked, SameCommit, commit_delivery_id
  <2> QED
    BY Zenon, <2>1, <2>2, <2>3, <2>4, <2>5, <2>6, <2>7, <2>8 DEF DsNext
<1> QED
  BY <1>1, <1>2, TypeCorrect, EpochChainHolds, ProvenanceHolds, PTL DEF DsSpec
----------------------------------------------------------------------------
\* A delivery handed out and not acked is still in its recipient's inbox: a
\* fetch never consumes, whatever the other requests do.
THEOREM RedeliveryHolds == DsSpec => []RedeliveredUntilAcked
<1>1. DsInit => RedeliveredUntilAcked
  BY Zenon DEF DsInit, RedeliveredUntilAcked
<1>2. DsTypeOK /\ RedeliveredUntilAcked /\ [DsNext]_dsVars => RedeliveredUntilAcked'
  <2> SUFFICES ASSUME DsTypeOK, RedeliveredUntilAcked, [DsNext]_dsVars, Mode = "per_recipient",
                      NEW c \in Clients, NEW d \in handed'[c], d.id \notin acked'
               PROVE  \E q \in commit_inboxes'[c] : AsDelivery(q, c) = d
    BY Zenon DEF RedeliveredUntilAcked, AsDelivery, commit_delivery_id
  <2>1. ASSUME NEW x \in Clients, fetch_pending_commit_delivery(x)
        PROVE  \E q \in commit_inboxes'[c] : AsDelivery(q, c) = d
    <3>1. commit_inboxes' = commit_inboxes /\ acked' = acked
      BY Zenon, <2>1 DEF fetch_pending_commit_delivery, HandOut
    <3>2. d \in handed[c] \/ (x = c /\ d \in fetch_next_pending_commit(c))
      BY <2>1 DEF fetch_pending_commit_delivery, HandOut, DsTypeOK
    <3> QED
      BY Zenon, <3>1, <3>2, FetchedDelivery DEF RedeliveredUntilAcked
  <2>2. ASSUME NEW x \in Clients, NEW y \in handed[x], ack_commit(x, y.id)
        PROVE  \E q \in commit_inboxes'[c] : AsDelivery(q, c) = d
    <3> DEFINE hit == {q \in commit_inboxes[x] : commit_delivery_id(q, x) = y.id}
    <3>1. /\ handed' = handed
          /\ commit_inboxes' = [commit_inboxes EXCEPT ![x] = @ \ hit]
          /\ acked' = acked \cup {commit_delivery_id(q, x) : q \in hit}
      BY Zenon, <2>2 DEF ack_commit, AckInbox
    <3>2. PICK q \in commit_inboxes[c] : AsDelivery(q, c) = d
      BY Zenon, <3>1 DEF RedeliveredUntilAcked
    <3>3. d.id = commit_delivery_id(q, c)
      BY Zenon, <3>2 DEF AsDelivery
    <3>4. ~(x = c /\ q \in hit)
      BY Zenon, <3>1, <3>3
    <3>5. q \in commit_inboxes'[c]
      BY Zenon, <3>1, <3>4 DEF DsTypeOK
    <3> QED
      BY Zenon, <3>2, <3>5
  <2>3. ASSUME handed' = handed, acked' = acked,
               \A r \in Clients : commit_inboxes[r] \subseteq commit_inboxes'[r]
        PROVE  \E q \in commit_inboxes'[c] : AsDelivery(q, c) = d
    BY Zenon, <2>3 DEF RedeliveredUntilAcked
  <2>4. ASSUME NEW p \in publishing, NEW r \in p.recipients, PushToRecipient(p, r)
        PROVE  /\ handed' = handed /\ acked' = acked
               /\ \A x \in Clients : commit_inboxes[x] \subseteq commit_inboxes'[x]
    BY Zenon, <2>4 DEF PushToRecipient, DsTypeOK
  <2>5. ASSUME \/ \E g \in Groups, e \in 0..MaxEpoch, m \in SUBSET Clients : put_group_state(g, e, m)
               \/ \E g \in Groups, s \in Clients, e \in 0..MaxEpoch, b \in Commits : AcceptCommit(g, s, e, b)
               \/ \E p \in publishing : FinishPublish(p) \/ PushToLog(p)
               \/ UNCHANGED dsVars
        PROVE  UNCHANGED <<handed, acked, commit_inboxes>>
    BY Zenon, <2>5 DEF put_group_state, AcceptCommit, FinishPublish, PushToLog, dsVars
  <2> QED
    BY ZenonT(30), <2>1, <2>2, <2>3, <2>4, <2>5 DEF DsNext
<1> QED
  BY <1>1, <1>2, TypeCorrect, PTL DEF DsSpec

\* Acks, however late or repeated, only ever move a log cursor forward.
THEOREM CursorsHold == DsSpec => CursorsNeverMoveBack
<1>1. DsTypeOK /\ [DsNext]_dsVars =>
        [\A c \in Clients, g \in Groups : commit_cursors'[c][g] >= commit_cursors[c][g]]_dsVars
  <2> SUFFICES ASSUME DsTypeOK, DsNext, NEW c \in Clients, NEW g \in Groups
               PROVE  commit_cursors'[c][g] >= commit_cursors[c][g]
    OBVIOUS
  <2>1. commit_cursors[c][g] \in Nat
    BY Zenon DEF DsTypeOK
  <2>2. CASE commit_cursors' = commit_cursors
    BY <2>1, <2>2
  <2>3. ASSUME NEW x \in Clients, NEW d \in handed[x], ack_commit(x, d.id)
        PROVE  commit_cursors'[c][g] >= commit_cursors[c][g]
    <3>1. d.id[1] \in Groups /\ d.id[2] \in Nat
      <4>1. d.id \in Groups \X Nat \X Clients \X Clients
        BY DEF DsTypeOK, CommitDelivery
      <4> QED
        BY Zenon, <4>1
    <3>2. \/ commit_cursors' = commit_cursors
          \/ commit_cursors' = [commit_cursors EXCEPT ![x] =
               [@ EXCEPT ![d.id[1]] = CursorMax(commit_cursors[x][d.id[1]], d.id[2])]]
      BY Zenon, <2>3 DEF ack_commit, AckInbox, ack_group_log_commit_compat
    <3>3. commit_cursors[x] \in [Groups -> Nat] /\ commit_cursors \in [Clients -> [Groups -> Nat]]
      BY Zenon DEF DsTypeOK
    <3>4. CursorMax(commit_cursors[x][d.id[1]], d.id[2]) >= commit_cursors[x][d.id[1]]
      BY <3>1, <3>3 DEF CursorMax
    <3> QED
      BY <2>1, <3>1, <3>2, <3>3, <3>4
  <2>4. ASSUME \/ \E h \in Groups, e \in 0..MaxEpoch, m \in SUBSET Clients : put_group_state(h, e, m)
               \/ \E h \in Groups, s \in Clients, e \in 0..MaxEpoch, b \in Commits : AcceptCommit(h, s, e, b)
               \/ \E p \in publishing : \E r \in p.recipients : PushToRecipient(p, r)
               \/ \E p \in publishing : FinishPublish(p) \/ PushToLog(p)
               \/ \E x \in Clients : fetch_pending_commit_delivery(x)
        PROVE  commit_cursors' = commit_cursors
    BY Zenon, <2>4 DEF put_group_state, AcceptCommit, PushToRecipient, FinishPublish, PushToLog,
                fetch_pending_commit_delivery, HandOut
  <2> QED
    BY Zenon, <2>2, <2>3, <2>4 DEF DsNext
<1> QED
  BY <1>1, TypeCorrect, PTL DEF DsSpec, CursorsNeverMoveBack
----------------------------------------------------------------------------
\* In log mode a handler holds the accepted commit itself, and a group's log
\* holds only accepted commits of that group.
LogProvenance ==
    Mode = "group_log" =>
      /\ publishing \subseteq accepted
      /\ \A g \in Groups : \A i \in 1..Len(group_commit_log[g]) :
           group_commit_log[g][i] \in accepted /\ group_commit_log[g][i].group_id = g

LogInv == LogProvenance /\ LoggedExactlyOnce

\* The central promise of log delivery: every accepted commit reaches its
\* group's log exactly once, for any interleaving of publishers.
THEOREM LoggedExactlyOnceHolds == DsSpec => []LoggedExactlyOnce
<1>1. DsInit => LogInv
  BY SMTT(30) DEF DsInit, LogInv, LogProvenance, LoggedExactlyOnce
<1>2. DsTypeOK /\ EpochChain /\ LogInv /\ [DsNext]_dsVars => LogInv'
  <2> SUFFICES ASSUME DsTypeOK, EpochChain, LogInv, [DsNext]_dsVars, Mode = "group_log"
               PROVE  LogInv'
    BY Zenon DEF LogInv, LogProvenance, LoggedExactlyOnce
  <2>1. ASSUME NEW g \in Groups, NEW s \in Clients, NEW e \in 0..MaxEpoch, NEW b \in Commits,
               AcceptCommit(g, s, e, b)
        PROVE  LogInv'
    <3>1. PICK rec \in GroupLogCommit :
           /\ accepted' = accepted \cup {rec}
           /\ publishing' = publishing \cup {rec}
           /\ \A a \in accepted : ~SameCommit(a, rec)
      BY Zenon, <2>1, AcceptAppends
    <3>2. group_commit_log' = group_commit_log
      BY Zenon, <2>1 DEF AcceptCommit
    <3>3. rec \notin accepted /\ rec.group_id \in Groups
      BY Zenon, <3>1 DEF SameCommit, GroupLogCommit
    <3>4. ~InLog(rec)
      BY Zenon, <3>3 DEF LogInv, LogProvenance, InLog
    <3>5. \A a : InLog(a)' <=> InLog(a)
      BY Zenon, <3>2 DEF InLog
    <3> QED
      BY Zenon, <3>1, <3>2, <3>3, <3>4, <3>5 DEF LogInv, LogProvenance, LoggedExactlyOnce
  <2>2. ASSUME NEW p \in publishing, PushToLog(p) PROVE LogInv'
    <3> DEFINE g == p.group_id
               n == Len(group_commit_log[g])
    <3>1. p \in GroupLogCommit /\ g \in Groups /\ p \in accepted
      BY Zenon DEF DsTypeOK, GroupLogCommit, LogInv, LogProvenance
    <3>2. /\ group_commit_log' = [group_commit_log EXCEPT ![g] = Append(@, p)]
          /\ publishing' = publishing \ {p} /\ accepted' = accepted
      BY Zenon, <2>2 DEF PushToLog
    <3>3. group_commit_log[g] \in Seq(GroupLogCommit) /\ n \in Nat
      BY <3>1 DEF DsTypeOK
    <3>4. /\ \A h \in Groups : h # g => group_commit_log'[h] = group_commit_log[h]
          /\ group_commit_log'[g] = Append(group_commit_log[g], p)
      BY Zenon, <3>1, <3>2 DEF DsTypeOK
    <3>5. /\ Len(group_commit_log'[g]) = n + 1
          /\ \A i \in 1..n : group_commit_log'[g][i] = group_commit_log[g][i]
          /\ group_commit_log'[g][n + 1] = p
      BY <3>1, <3>3, <3>4
    <3>6. ~InLog(p)
      BY Zenon, <3>1 DEF LogInv, LoggedExactlyOnce
    <3>7. \A i \in 1..n : group_commit_log[g][i].epoch # p.epoch
      BY Zenon, <3>1, <3>6 DEF InLog, LogInv, LogProvenance, EpochChain, SameCommit
    <3>8. LogProvenance'
      <4>1. ASSUME NEW h \in Groups, NEW i \in 1..Len(group_commit_log'[h])
            PROVE  group_commit_log'[h][i] \in accepted /\ group_commit_log'[h][i].group_id = h
        <5>1. CASE h # g
          BY Zenon, <3>4, <5>1 DEF LogInv, LogProvenance
        <5>2. CASE h = g /\ i \in 1..n
          BY Zenon, <3>5, <5>2 DEF LogInv, LogProvenance
        <5>3. CASE h = g /\ i = n + 1
          BY Zenon, <3>1, <3>5, <5>3
        <5> QED
          BY <3>3, <3>5, <5>1, <5>2, <5>3
      <4> QED
        BY Zenon, <3>2, <4>1 DEF LogInv, LogProvenance
    <3>9. ASSUME NEW a \in accepted PROVE a \in publishing' <=> ~InLog(a)'
      <4>1. a.group_id \in Groups
        BY Zenon DEF DsTypeOK, GroupLogCommit
      <4>2. CASE a = p
        BY <3>2, <3>3, <3>5, <4>2 DEF InLog
      <4>3. CASE a # p /\ a.group_id = g
        <5>1. InLog(a) <=> \E i \in 1..n : group_commit_log[g][i] = a
          BY Zenon, <4>3 DEF InLog
        <5>2. InLog(a)' <=> \E i \in 1..(n + 1) : group_commit_log'[g][i] = a
          BY Zenon, <3>5, <4>3 DEF InLog
        <5>3. InLog(a)' <=> InLog(a)
          <6> HIDE DEF n, g
          <6>1. \A i \in 1..(n + 1) : i \in 1..n \/ i = n + 1
            BY <3>3
          <6>2. \A i \in 1..n : i \in 1..(n + 1)
            BY <3>3
          <6> QED
            BY Zenon, <3>5, <4>3, <5>1, <5>2, <6>1, <6>2
        <5> QED
          BY Zenon, <3>2, <4>3, <5>3 DEF LogInv, LoggedExactlyOnce
      <4>4. CASE a # p /\ a.group_id # g
        <5>1. InLog(a)' <=> InLog(a)
          BY Zenon, <3>4, <4>1, <4>4 DEF InLog
        <5> QED
          BY Zenon, <3>2, <4>4, <5>1 DEF LogInv, LoggedExactlyOnce
      <4> QED
        BY Zenon, <4>2, <4>3, <4>4
    <3>10. ASSUME NEW h \in Groups, NEW i \in 1..Len(group_commit_log'[h]),
                  NEW j \in 1..Len(group_commit_log'[h]),
                  group_commit_log'[h][i].epoch = group_commit_log'[h][j].epoch
           PROVE  i = j
      <4>1. CASE h # g
        BY Zenon, <3>4, <3>10, <4>1 DEF LogInv, LoggedExactlyOnce
      <4>2. CASE h = g /\ i \in 1..n /\ j \in 1..n
        BY ZenonT(30), <3>5, <3>10, <4>2 DEF LogInv, LoggedExactlyOnce
      <4>3. CASE h = g /\ i \in 1..n /\ j = n + 1
        BY Zenon, <3>5, <3>7, <3>10, <4>3
      <4>4. CASE h = g /\ j \in 1..n /\ i = n + 1
        BY Zenon, <3>5, <3>7, <3>10, <4>4
      <4> QED
        BY SMTT(30), <3>3, <3>5, <4>1, <4>2, <4>3, <4>4
    <3> QED
      BY Zenon, <3>2, <3>8, <3>9, <3>10 DEF LogInv, LoggedExactlyOnce
  <2>3. ASSUME UNCHANGED <<accepted, publishing, group_commit_log>> PROVE LogInv'
    BY Zenon, <2>3 DEF LogInv, LogProvenance, LoggedExactlyOnce, InLog
  <2>4. ASSUME NEW p \in publishing,
               FinishPublish(p) \/ \E r \in p.recipients : PushToRecipient(p, r)
        PROVE  FALSE
    BY Zenon, <2>4 DEF FinishPublish, PushToRecipient
  <2>5. ASSUME \/ \E g \in Groups, e \in 0..MaxEpoch, m \in SUBSET Clients : put_group_state(g, e, m)
               \/ \E c \in Clients : fetch_pending_commit_delivery(c)
               \/ \E c \in Clients : \E d \in handed[c] : ack_commit(c, d.id)
               \/ UNCHANGED dsVars
        PROVE  UNCHANGED <<accepted, publishing, group_commit_log>>
    BY Zenon, <2>5 DEF put_group_state, fetch_pending_commit_delivery, HandOut, ack_commit, dsVars
  <2> QED
    BY Zenon, <2>1, <2>2, <2>3, <2>4, <2>5 DEF DsNext
<1>3. LogInv => LoggedExactlyOnce
  BY Zenon DEF LogInv
<1> QED
  BY <1>1, <1>2, <1>3, TypeCorrect, EpochChainHolds, PTL DEF DsSpec
=============================================================================
