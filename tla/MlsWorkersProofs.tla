-------------------------- MODULE MlsWorkersProofs --------------------------
(***************************************************************************)
(* MlsWorkers implements GroupHistory, for any clients, delivery mode,     *)
(* bounds and numbers of faults.  The inductive invariant says that the    *)
(* accepted commits form one chain, that every client state, every         *)
(* released welcome and every commit on its way stem from a link of that   *)
(* chain, and that what a client has staged was made on the very state it  *)
(* is in.  First come the steps that leave the history of the group alone: *)
(* the commands up to their POST, the answers to it, the PUTs, the acks,   *)
(* the posting of welcomes and the service's own steps.  Then come those   *)
(* that make the history (a commit is accepted) or move a client along it  *)
(* (a commit is applied, a welcome is used).  The theorems follow.         *)
(*                                                                         *)
(* What the delivery service knows of the group is right when it is used.  *)
(* Its log is in epoch order, although it is written after the lock that   *)
(* decided the epoch is released.  Its list of members, which it learns    *)
(* from the PUTs of the workers, is the list that the next commit was made *)
(* on, as long as no worker gives a command up and joins wait for the      *)
(* adder.                                                                  *)
(*                                                                         *)
(* A committer whose commit was accepted still has it staged when it comes *)
(* back, unless the answer that accepted it was lost.  The invariant       *)
(* behind this: a client never returns to an epoch before a commit of its  *)
(* own, because it advances by one commit at a time, and enters by a key   *)
(* package that it uses once and that was in no commit before it was       *)
(* generated.                                                              *)
(*                                                                         *)
(* An ack never moves the cursor past a commit that the client has yet to  *)
(* apply, also when it is removed and added again, as long as it is added  *)
(* again only after it has used up the key package of the last time: the   *)
(* client has reached what its worker acks, and no welcome takes it back.  *)
(***************************************************************************)
EXTENDS MlsWorkers, TLAPS

ClientTypes ==
    /\ key_packages \in [Clients -> KeyPackage \cup {None}]
    /\ welcome_inboxes \in [Clients -> Seq(Welcome)]
    /\ group \in [Clients -> MlsState \cup {None}]
    /\ pending \in [Clients -> MlsCommit \cup {None}]
    /\ pending_bytes \in [Clients -> PendingBytes \cup {None}]
    /\ keys \in [Clients -> SUBSET KeyPackage]
    /\ made \in [Clients -> [commits : Nat, key_packages : Nat]]

WorkerTypes ==
    /\ queued_intent \in [Clients -> Intent \cup {None}]
    /\ intent \in [Clients -> Intent \cup {None}]
    /\ delivery \in [Clients -> Delivery \cup {None}]
    /\ welcoming \in [Clients -> Welcoming \cup {None}]
    /\ pc \in [Clients -> Labels]

\* What a worker holds at each of its requests.
AtRequest ==
    \A c \in Clients :
      /\ (pc[c] \in {"submit", "await"}) <=> (intent[c] # None)
      /\ pc[c] \in {"submit", "await"} => pending[c] # None
      /\ pc[c] \in {"welcome", "put_own", "put_external", "ack"} => delivery[c] # None
      /\ pc[c] \notin {"idle", "ack"} => group[c] # None
      /\ pc[c] = "welcome" => welcoming[c] # None

\* The state that commit m leads to from the one it was made on, and the
\* welcome to it.
Result(m) ==
    [epoch |-> m.epoch + 1, sid |-> m.id, members |-> (m.roster \ m.removes) \cup Added(m.adds)]

WelcomeFor(m) == [state |-> Result(m), adds |-> m.adds]

\* m is one of the first n commits of c.
MadeBy(c, m, n) ==
    /\ m \in MlsCommit
    /\ m.id[1] = c
    /\ m.id[2] \in 1..n
    /\ c \in m.roster
    /\ m.removes \subseteq m.roster \ {c}
    /\ Added(m.adds) \cap m.roster = {}

\* One accepted commit for each epoch up to the one of the service.
AcceptedOK ==
    /\ Epoch \in Nat
    /\ \A e \in 1..Epoch : \E a \in accepted : a.epoch = e
    /\ \A a \in accepted :
         /\ a.group_id = G
         /\ a.epoch \in 1..Epoch
         /\ a.epoch = a.commit_bytes.epoch + 1
         /\ MadeBy(a.sender, a.commit_bytes, made[a.sender].commits)

\* Each was made on the state that the one before it leads to.
OneChain ==
    /\ \A a, b \in accepted :
         /\ a.epoch = b.epoch => a = b
         /\ a.commit_bytes.id = b.commit_bytes.id => a = b
         /\ a.epoch = b.epoch + 1 =>
              /\ a.commit_bytes.parent = b.commit_bytes.id
              /\ a.commit_bytes.roster = Result(b.commit_bytes).members
    /\ \A a \in accepted : a.epoch = 1 => a.commit_bytes.parent = <<None, 0>>

AtStart(c) == group[c] # None /\ group[c].epoch = 0

\* At most one client is in epoch 0, and the first commit is made there.
OneFounder ==
    \A c \in Clients : AtStart(c) =>
      /\ group[c] = NewGroup(c)
      /\ \A o \in Clients : AtStart(o) => o = c
      /\ \A a \in accepted : a.epoch = 1 => a.commit_bytes.roster = {c}

\* Every client state is one that an accepted commit leads to.
OnHistory ==
    \A c \in Clients : group[c] # None =>
      /\ c \in group[c].members
      /\ group[c].epoch # 0 => \E a \in accepted : group[c] = Result(a.commit_bytes)

\* A staged commit was made on the client's present state, and is the only
\* commit with its id.
Staged ==
    \A c \in Clients : pending[c] # None =>
      /\ group[c] # None
      /\ MadeBy(c, pending[c], made[c].commits)
      /\ pending[c].parent = group[c].sid
      /\ pending[c].epoch = group[c].epoch
      /\ pending[c].roster = group[c].members
      /\ pending_bytes[c] # None /\ pending_bytes[c].commit = pending[c]
      /\ \A a \in accepted : a.commit_bytes.id = pending[c].id => a.commit_bytes = pending[c]

\* The remembered welcome is the one to the remembered commit.
Remembered ==
    \A c \in Clients : pending_bytes[c] # None =>
      pending_bytes[c].welcome \in {None, WelcomeFor(pending_bytes[c].commit)}

IsReleased(w) == \E a \in accepted : w = WelcomeFor(a.commit_bytes)

\* A welcome is posted only for an accepted commit.
Released ==
    /\ \A c \in Clients : welcoming[c] # None => IsReleased(welcoming[c].welcome)
    /\ \A c \in Clients : \A i \in 1..Len(welcome_inboxes[c]) : IsReleased(welcome_inboxes[c][i])

Carries(r) ==
    \E a \in accepted :
      r.group_id = a.group_id /\ r.epoch = a.epoch /\ r.commit_bytes = a.commit_bytes

\* What the service pushes, queues and logs are accepted commits.
Carried ==
    /\ \A p \in publishing : Carries(p)
    /\ \A c \in Clients : \A q \in commit_inboxes[c] : Carries(q)
    /\ \A g \in Groups : \A i \in 1..Len(group_commit_log[g]) : Carries(group_commit_log[g][i])

\* A client has private keys of its own key packages only.
OwnKeys == \A c \in Clients : \A kp \in keys[c] : kp[1] = c

IInv ==
    /\ DsTypeOK /\ ClientTypes /\ WorkerTypes /\ AtRequest
    /\ AcceptedOK /\ OneChain /\ OneFounder /\ OnHistory /\ Staged
    /\ Remembered /\ Released /\ Carried /\ OwnKeys

----------------------------------------------------------------------------
(* Facts about the operators *)

\* The group of a run is one of the groups.
LEMMA GroupOfRun == G \in Groups
  BY Zenon, GroupsAssumption DEF G

\* A commit leads to a well-typed state and welcome.
LEMMA ResultType ==
  ASSUME NEW m \in MlsCommit
  PROVE  Result(m) \in MlsState /\ WelcomeFor(m) \in Welcome
<1>1. Added(m.adds) \subseteq Clients
  BY Zenon DEF Added, MlsCommit, KeyPackage
<1>2. Result(m) \in MlsState
  BY <1>1 DEF Result, MlsCommit, MlsState
<1> QED
  BY Zenon, <1>2 DEF WelcomeFor, Welcome, MlsCommit

\* Merging a commit into the state it was made on gives what its author saw.
LEMMA MergedResult ==
  ASSUME NEW st, NEW m, m.epoch = st.epoch, m.roster = st.members
  PROVE  Merged(st, m) = Result(m)
  BY Zenon DEF Merged, Result

\* What a fetch answers is well typed and is an accepted commit.
LEMMA Fetched ==
  ASSUME DsTypeOK, Carried, NEW c \in Clients, NEW d \in fetch_next_pending_commit(c)
  PROVE  d \in CommitDelivery /\ Carries(d)
<1>1. CASE Mode = "per_recipient"
  <2>1. PICK q \in commit_inboxes[c] : d = AsDelivery(q, c)
    BY Zenon, <1>1 DEF fetch_next_pending_commit, peek_commit_inbox
  <2>2. q \in CommitDeliveryRecord
    BY Zenon DEF DsTypeOK
  <2>3. Carries(q)
    BY Zenon DEF Carried
  <2>4. d \in CommitDelivery
    BY ZenonT(30), <2>1, <2>2 DEF CommitDeliveryRecord, AsDelivery, CommitDelivery, commit_delivery_id
  <2>5. d.group_id = q.group_id /\ d.epoch = q.epoch /\ d.commit_bytes = q.commit_bytes
    BY Zenon, <2>1 DEF AsDelivery
  <2> QED
    BY Zenon, <2>3, <2>4, <2>5 DEF Carries
<1>2. CASE Mode # "per_recipient"
  <2>1. PICK g \in Groups :
          \E i \in 1..Len(group_commit_log[g]) : d = AsDelivery(group_commit_log[g][i], c)
    BY Zenon, <1>2 DEF fetch_next_pending_commit, fetch_group_log_commit_compat, EntriesBeyond, EntriesFor
  <2>2. PICK i \in 1..Len(group_commit_log[g]) : d = AsDelivery(group_commit_log[g][i], c)
    BY Zenon, <2>1
  <2> DEFINE q == group_commit_log[g][i]
  <2>3. q \in GroupLogCommit
    BY DEF DsTypeOK
  <2>4. Carries(q)
    BY Zenon DEF Carried
  <2> HIDE DEF q
  <2>5. d \in CommitDelivery
    BY Zenon, <2>2, <2>3 DEF q, GroupLogCommit, AsDelivery, CommitDelivery, commit_delivery_id
  <2>6. d.group_id = q.group_id /\ d.epoch = q.epoch /\ d.commit_bytes = q.commit_bytes
    BY Zenon, <2>2 DEF q, AsDelivery
  <2> QED
    BY Zenon, <2>4, <2>5, <2>6 DEF Carries
<1> QED
  BY Zenon, <1>1, <1>2

\* A log entry is a delivery also without an id.
LEMMA WithoutId ==
  ASSUME NEW rec \in GroupLogCommit
  PROVE  [id |-> None, group_id |-> rec.group_id, epoch |-> rec.epoch, sender |-> rec.sender,
          commit_bytes |-> rec.commit_bytes] \in Delivery
<1>1. /\ rec.group_id \in Groups /\ rec.epoch \in Nat /\ rec.sender \in Clients
      /\ rec.commit_bytes \in MlsCommit
  BY Zenon DEF GroupLogCommit
<1> QED
  BY Zenon, <1>1 DEF Delivery

\* The same for the log entries that process_pending reads.
LEMMA FetchedPending ==
  ASSUME DsTypeOK, Carried, NEW c \in Clients, NEW e, NEW rec \in fetch_pending_commits(c, e),
         NEW d, d = [AsDelivery(rec, c) EXCEPT !.id = None]
  PROVE  d \in Delivery /\ Carries(d)
<1>1. PICK i \in 1..Len(group_commit_log[G]) : rec = group_commit_log[G][i]
  BY Zenon DEF fetch_pending_commits, EntriesBeyond, EntriesFor
<1>2. rec \in GroupLogCommit /\ Carries(rec)
  BY <1>1, GroupOfRun DEF DsTypeOK, Carried
<1>3. d = [id |-> None, group_id |-> rec.group_id, epoch |-> rec.epoch, sender |-> rec.sender,
           commit_bytes |-> rec.commit_bytes]
  BY Zenon DEF AsDelivery
<1>4. d \in Delivery
  BY Zenon, <1>2, <1>3, WithoutId
<1>5. d.group_id = rec.group_id /\ d.epoch = rec.epoch /\ d.commit_bytes = rec.commit_bytes
  BY <1>3
<1> QED
  BY Zenon, <1>2, <1>4, <1>5 DEF Carries
\* A delivery fetched from the service is one that a worker can hold.
LEMMA FetchedType == CommitDelivery \subseteq Delivery
<1> SUFFICES ASSUME NEW d \in CommitDelivery PROVE d \in Delivery
  OBVIOUS
<1>1. /\ d.id \in Groups \X Nat \X Clients \X Clients /\ d.group_id \in Groups /\ d.epoch \in Nat
      /\ d.sender \in Clients /\ d.commit_bytes \in MlsCommit
      /\ d = [id |-> d.id, group_id |-> d.group_id, epoch |-> d.epoch, sender |-> d.sender,
              commit_bytes |-> d.commit_bytes]
  BY Zenon DEF CommitDelivery
<1> QED
  BY Zenon, <1>1 DEF Delivery

\* The two updates of a registered group, written as records.
LEMMA GroupStateUpdate ==
  ASSUME NEW r \in GroupState, NEW v
  PROVE  /\ [r EXCEPT !.members = v] = [current_epoch |-> r.current_epoch, members |-> v]
         /\ [r EXCEPT !.current_epoch = v] = [current_epoch |-> v, members |-> r.members]
  BY DEF GroupState

\* A step that changes nothing but what the service knows of the members.
LEMMA PutKeepsService ==
  ASSUME DsTypeOK, ClientTypes, AcceptedOK, OnHistory, NEW c \in Clients, group[c] # None,
         UpdateDsGroupState(c)
  PROVE  /\ DsTypeOK'
         /\ Epoch' = Epoch
         /\ UNCHANGED <<commit_inboxes, arrivals, group_commit_log, commit_cursors, publishing,
                        handed, accepted, acked>>
<1>1. CASE groups' = groups /\ UNCHANGED serviceVars
  BY Zenon, <1>1 DEF serviceVars, DsTypeOK, Epoch
<1>2. CASE put_group_state(G, group[c].epoch, group[c].members)
  <2>0. group[c] \in MlsState
    BY Zenon DEF ClientTypes
  <2>1. [current_epoch |-> group[c].epoch, members |-> group[c].members] \in GroupState
    BY Zenon, <2>0 DEF MlsState, GroupState
  <2>2. UNCHANGED <<commit_inboxes, arrivals, group_commit_log, commit_cursors, publishing,
                    handed, accepted, acked>>
    BY Zenon, <1>2 DEF put_group_state
  <2>3. groups' = [groups EXCEPT ![G] = [current_epoch |-> group[c].epoch, members |-> group[c].members]]
        /\ (groups[G] # None => groups[G].current_epoch = group[c].epoch)
    <3>1. CASE groups[G] = None
      BY Zenon, <1>2, <3>1 DEF put_group_state
    <3>2. CASE groups[G] # None
      <4>1. groups[G] \in GroupState
        BY Zenon, <3>2, GroupOfRun DEF DsTypeOK
      <4>2. /\ groups[G].current_epoch = group[c].epoch
            /\ groups' = [groups EXCEPT ![G] = [groups[G] EXCEPT !.members = group[c].members]]
        BY Zenon, <1>2, <3>2 DEF put_group_state
      <4>3. [groups[G] EXCEPT !.members = group[c].members]
              = [current_epoch |-> groups[G].current_epoch, members |-> group[c].members]
        BY Zenon, <4>1, GroupStateUpdate
      <4> QED
        BY Zenon, <4>2, <4>3
    <3> QED
      BY Zenon, <3>1, <3>2
  <2>4. DsTypeOK'
    BY Zenon, <2>1, <2>2, <2>3, GroupOfRun DEF DsTypeOK
  <2>5. Epoch' = group[c].epoch
    <3>1. groups'[G] = [current_epoch |-> group[c].epoch, members |-> group[c].members]
      BY Zenon, <2>3, GroupOfRun DEF DsTypeOK
    <3> QED
      BY <2>1, <3>1, NoneIsNoValue DEF Epoch
  <2>6. CASE groups[G] = None
    <3>1. Epoch = 0
      BY Zenon, <2>6 DEF Epoch
    <3>2. accepted = {}
      BY <3>1 DEF AcceptedOK
    <3> QED
      BY Zenon, <2>2, <2>4, <2>5, <3>1, <3>2 DEF OnHistory
  <2>7. CASE groups[G] # None
    BY Zenon, <2>2, <2>3, <2>4, <2>5, <2>7 DEF Epoch
  <2> QED
    BY Zenon, <2>6, <2>7
<1> QED
  BY Zenon, <1>1, <1>2 DEF UpdateDsGroupState, serviceVars
\* The service pushes nothing.
LEMMA CarriedFrame ==
  ASSUME Carried, accepted \subseteq accepted', UNCHANGED <<publishing, commit_inboxes, group_commit_log>>
  PROVE  Carried'
  BY SMTT(30) DEF Carried, Carries

\* A commit made by StartIntent is well typed and made on the present state.
LEMMA NewCommitMade ==
  ASSUME ClientTypes, OnHistory, NEW c \in Clients, NEW it \in Intent, CanCommit(c, it)
  PROVE  /\ MadeBy(c, NewCommit(c, it), made[c].commits + 1)
         /\ Merged(group[c], NewCommit(c, it)) = Result(NewCommit(c, it))
         /\ NewCommit(c, it).id = <<c, made[c].commits + 1>>
         /\ NewCommit(c, it).parent = group[c].sid
         /\ NewCommit(c, it).epoch = group[c].epoch
         /\ NewCommit(c, it).roster = group[c].members
         /\ NewCommit(c, it).adds = it.adds
<1>1. group[c] \in MlsState /\ made[c].commits \in Nat
  BY DEF ClientTypes, CanCommit
<1>2. NewCommit(c, it) \in MlsCommit
  BY SMTT(30), <1>1 DEF NewCommit, MlsCommit, MlsState, Intent, StateId
<1>3. MadeBy(c, NewCommit(c, it), made[c].commits + 1)
  BY <1>1, <1>2 DEF MadeBy, NewCommit, CanCommit, OnHistory
<1> QED
  BY Zenon, <1>1, <1>3 DEF NewCommit, Merged, Result

\* One more commit made, written as a record.
LEMMA MadeUpdate ==
  ASSUME NEW r \in [commits : Nat, key_packages : Nat], NEW v
  PROVE  /\ [r EXCEPT !.commits = v] = [commits |-> v, key_packages |-> r.key_packages]
         /\ [r EXCEPT !.key_packages = v] = [commits |-> r.commits, key_packages |-> v]
  OBVIOUS

HistoryStep == [History!HistoryNext]_(History!HistoryVars)

\* What AddMembers asks the group to do.
AddIntent(ts) == [adds |-> {key_packages[t] : t \in ts}, removes |-> {}]

\* AddMembers: the commit is staged once all key packages are there; otherwise
\* only key packages are taken.
LEMMA Adding ==
  ASSUME ClientTypes, NEW c \in Clients, NEW ts \in SUBSET Clients, AddMembers(c, ts)
  PROVE  /\ UNCHANGED <<serviceVars, welcome_inboxes>>
         /\ key_packages' \in [Clients -> KeyPackage \cup {None}]
         /\ \A t \in Clients : key_packages'[t] \in {None, key_packages[t]}
         /\ \/ UNCHANGED <<clientVars, workerVars>>
            \/ /\ \A t \in ts : key_packages[t] \in KeyPackage
               /\ AddIntent(ts) \in Intent
               /\ StartIntent(c, AddIntent(ts))
               /\ UNCHANGED <<queued_intent, delivery, welcoming>>
<1>1. PICK taken \in SUBSET {t \in ts : key_packages[t] # None} :
        /\ key_packages' = [t \in Clients |-> IF t \in taken THEN None ELSE key_packages[t]]
        /\ \/ /\ taken = ts
              /\ StartIntent(c, [adds |-> {key_packages[t] : t \in taken}, removes |-> {}])
              /\ UNCHANGED <<queued_intent, delivery, welcoming>>
           \/ UNCHANGED <<clientVars, workerVars>>
  BY Zenon DEF AddMembers
<1>2. /\ key_packages' \in [Clients -> KeyPackage \cup {None}]
      /\ \A t \in Clients : key_packages'[t] \in {None, key_packages[t]}
  BY Zenon, <1>1 DEF ClientTypes
<1>3. ASSUME taken = ts
      PROVE  (\A t \in ts : key_packages[t] \in KeyPackage) /\ AddIntent(ts) \in Intent
  <2>1. \A t \in ts : key_packages[t] \in KeyPackage
    BY Zenon, <1>3 DEF ClientTypes
  <2>2. {key_packages[t] : t \in ts} \in SUBSET KeyPackage
    BY Zenon, <2>1
  <2> QED
    BY Zenon, <2>1, <2>2 DEF AddIntent, Intent
<1> QED
  BY Zenon, <1>1, <1>2, <1>3 DEF AddIntent, AddMembers

\* What a PUT of the group state, or no request at all, leaves of the service.
LEMMA QuietService ==
  ASSUME IInv, \/ UNCHANGED serviceVars
               \/ \E c \in Clients : group[c] # None /\ UpdateDsGroupState(c)
  PROVE  DsTypeOK' /\ Carried' /\ accepted' = accepted /\ Epoch' = Epoch
<1> USE DEF IInv
<1>1. CASE UNCHANGED serviceVars
  <2>1. DsTypeOK' /\ accepted' = accepted /\ Epoch' = Epoch
    BY Zenon, <1>1 DEF DsTypeOK, Epoch, serviceVars
  <2> QED
    BY Zenon, <1>1, <2>1, CarriedFrame DEF serviceVars
<1>2. ASSUME NEW c \in Clients, group[c] # None, UpdateDsGroupState(c)
      PROVE  DsTypeOK' /\ Carried' /\ accepted' = accepted /\ Epoch' = Epoch
  <2>1. /\ DsTypeOK' /\ Epoch' = Epoch /\ accepted' = accepted
        /\ UNCHANGED <<publishing, commit_inboxes, group_commit_log>>
    BY Zenon, <1>2, PutKeepsService
  <2> QED
    BY Zenon, <2>1, CarriedFrame
<1> QED
  BY Zenon, <1>1, <1>2

\* One recipient less to welcome, written as a record.
LEMMA WelcomingUpdate ==
  ASSUME NEW r \in Welcoming, NEW v
  PROVE  [r EXCEPT !.to = v] = [welcome |-> r.welcome, to |-> v]
  BY SMTT(30) DEF Welcoming

----------------------------------------------------------------------------
(* A commit is accepted *)

\* In a set with one record per epoch, choosing by epoch finds the record.
LEMMA ChosenByEpoch ==
  ASSUME NEW S, NEW a \in S, \A x, y \in S : x.epoch = y.epoch => x = y
  PROVE  (CHOOSE x \in S : x.epoch = a.epoch) = a
  OBVIOUS

\* The abstract history has, at each epoch of the service, the state that the
\* commit accepted for it leads to.
LEMMA HistoryIs ==
  ASSUME AcceptedOK, OneChain
  PROVE  /\ \A a \in accepted : Outcome(AcceptedAt(a.epoch)) = Result(a.commit_bytes)
         /\ Epoch \in Nat
<1>1. ASSUME NEW a \in accepted PROVE Outcome(AcceptedAt(a.epoch)) = Result(a.commit_bytes)
  <2>1. AcceptedAt(a.epoch) = a
    BY Zenon, ChosenByEpoch DEF AcceptedAt, OneChain
  <2> QED
    BY Zenon, <2>1 DEF Outcome, Result, AcceptedOK
<1> QED
  BY Zenon, <1>1 DEF AcceptedOK

----------------------------------------------------------------------------
\* A commit made on the state that a client is in is the next link for it.
LEMMA ParentLink ==
  ASSUME DsTypeOK, ClientTypes, AcceptedOK, OneChain, OneFounder, OnHistory,
         NEW c \in Clients, group[c] # None,
         NEW a \in accepted, a.commit_bytes.parent = group[c].sid
  PROVE  /\ a.epoch = group[c].epoch + 1
         /\ Merged(group[c], a.commit_bytes) = Result(a.commit_bytes)
<1>1. \A b \in accepted : /\ b.epoch \in 1..Epoch /\ b.epoch = b.commit_bytes.epoch + 1
                          /\ b.commit_bytes \in MlsCommit /\ b.commit_bytes.id[2] # 0
  BY DEF AcceptedOK, MadeBy
<1>2. group[c] \in MlsState /\ Epoch \in Nat
  BY Zenon, HistoryIs DEF ClientTypes
<1>3. a.epoch > 1 => \E b \in accepted : a.epoch = b.epoch + 1
  <2>1. SUFFICES ASSUME a.epoch > 1 PROVE \E b \in accepted : a.epoch = b.epoch + 1
    OBVIOUS
  <2>2. a.epoch - 1 \in 1..Epoch
    BY <1>1, <1>2, <2>1
  <2>3. PICK b \in accepted : b.epoch = a.epoch - 1
    BY Zenon, <2>2 DEF AcceptedOK
  <2> QED
    BY <1>1, <1>2, <2>3
<1>4. CASE group[c].epoch = 0
  <2>1. group[c] = NewGroup(c) /\ (a.epoch = 1 => a.commit_bytes.roster = {c})
    BY Zenon, <1>4 DEF OneFounder, AtStart
  <2>2. group[c].sid = <<None, 0>> /\ group[c].members = {c}
    BY <2>1 DEF NewGroup
  <2>3. ~(a.epoch > 1)
    <3>1. SUFFICES ASSUME a.epoch > 1 PROVE FALSE
      OBVIOUS
    <3>2. PICK b \in accepted : a.epoch = b.epoch + 1
      BY Zenon, <1>3, <3>1
    <3>3. b.commit_bytes.id = <<None, 0>>
      BY Zenon, <2>2, <3>2 DEF OneChain
    <3> QED
      BY <1>1, <3>3
  <2>4. a.epoch = 1
    BY <1>1, <1>2, <2>3
  <2>5. a.commit_bytes.epoch = 0
    BY <1>1, <2>4 DEF MlsCommit
  <2> QED
    BY SMTT(30), <1>4, <2>1, <2>2, <2>4, <2>5, MergedResult
<1>5. CASE group[c].epoch # 0
  <2>1. PICK b \in accepted : group[c] = Result(b.commit_bytes)
    BY Zenon, <1>5 DEF OnHistory
  <2>2. /\ group[c].sid = b.commit_bytes.id /\ group[c].epoch = b.commit_bytes.epoch + 1
        /\ group[c].members = Result(b.commit_bytes).members
    BY <2>1 DEF Result
  <2>3. a.epoch # 1
    <3>1. SUFFICES ASSUME a.epoch = 1 PROVE FALSE
      OBVIOUS
    <3>2. b.commit_bytes.id = <<None, 0>>
      BY Zenon, <2>2, <3>1 DEF OneChain
    <3> QED
      BY <1>1, <3>2
  <2>4. PICK x \in accepted : a.epoch = x.epoch + 1
    BY <1>1, <1>2, <1>3, <2>3
  <2>5. x = b
    BY <2>2, <2>4 DEF OneChain
  <2>6. a.commit_bytes.roster = group[c].members
    BY Zenon, <2>2, <2>4, <2>5 DEF OneChain
  <2>7. a.epoch = group[c].epoch + 1
    BY Zenon, <1>1, <2>2, <2>4, <2>5
  <2>8. a.commit_bytes.epoch = group[c].epoch
    <3>1. a.commit_bytes.epoch \in Nat /\ a.epoch = a.commit_bytes.epoch + 1
      BY Zenon, <1>1 DEF MlsCommit
    <3>2. group[c].epoch \in Nat
      BY Zenon, <1>2 DEF MlsState
    <3> QED
      BY <2>7, <3>1, <3>2
  <2> QED
    BY Zenon, <2>6, <2>7, <2>8, MergedResult
<1> QED
  BY Zenon, <1>4, <1>5

\* What is left of a queue once its head is popped.
LEMMA TailAt ==
  ASSUME NEW S, NEW q \in Seq(S), q # <<>>, NEW i \in 1..Len(Tail(q))
  PROVE  i + 1 \in 1..Len(q) /\ Tail(q)[i] = q[i + 1]
  BY SMTT(30)

----------------------------------------------------------------------------
(* The invariant holds, and with it every step is one of the history. *)

\* Nothing has happened yet.
LEMMA InitIInv ==
  ASSUME Init
  PROVE  IInv /\ History!HistoryInit
<1>1. accepted = {} /\ groups[G] = None /\ Epoch = 0
  BY Zenon, GroupOfRun DEF Init, DsInit, Epoch
<1>2. Epoch \in Nat
  BY Zenon, <1>1
<1>3. DsTypeOK
  <2>1. \A g \in Groups : group_commit_log[g] \in Seq(GroupLogCommit)
    BY DEF Init, DsInit
  <2> QED
    BY Zenon, <2>1 DEF Init, DsInit, DsTypeOK
<1>4. ClientTypes
  <2>1. /\ made = [c \in Clients |-> [commits |-> 0, key_packages |-> 0]]
        /\ welcome_inboxes = [c \in Clients |-> <<>>]
    BY Zenon DEF Init
  <2>2. made \in [Clients -> [commits : Nat, key_packages : Nat]]
    BY Zenon, <2>1
  <2>3. <<>> \in Seq(Welcome)
    OBVIOUS
  <2>4. welcome_inboxes \in [Clients -> Seq(Welcome)]
    BY Zenon, <2>1, <2>3
  <2> QED
    BY Zenon, <2>2, <2>4 DEF Init, ClientTypes
<1>5. WorkerTypes /\ AtRequest
  BY Zenon DEF Init, WorkerTypes, AtRequest, Labels
<1>6. AcceptedOK /\ OneChain
  BY SMTT(30), <1>1, <1>2 DEF AcceptedOK, OneChain
<1>7. OneFounder /\ OnHistory /\ Staged /\ Remembered /\ OwnKeys
  BY Zenon DEF Init, OneFounder, AtStart, OnHistory, Staged, Remembered, OwnKeys
<1>8. Released /\ Carried
  BY SMTT(30) DEF Init, DsInit, Released, Carried
<1>9. History!HistoryInit
  BY <1>1, <1>2 DEF Init, History!HistoryInit
<1> QED
  BY Zenon, <1>3, <1>4, <1>5, <1>6, <1>7, <1>8, <1>9 DEF IInv

\* Every step keeps the invariant and is a step of the history, or none.
LEMMA NextIInv == IInv /\ [Next]_vars => IInv' /\ HistoryStep
\* Making more commits leaves the earlier ones made.
<1>MadeByMore.
    ASSUME NEW c, NEW m, NEW n \in Nat, NEW k \in Nat, n <= k, MadeBy(c, m, n)
    PROVE  MadeBy(c, m, k)
    BY <1>MadeByMore DEF MadeBy, MlsCommit, StateId

\* The chain is as it was after a step that accepts nothing.
<1>ChainFrame.
    ASSUME DsTypeOK, ClientTypes, AcceptedOK, OneChain,
           accepted' = accepted, Epoch' = Epoch,
           \A c \in Clients : made'[c].commits \in Nat /\ made[c].commits <= made'[c].commits
    PROVE  AcceptedOK' /\ OneChain'
  <2> USE <1>ChainFrame
  <2>1. OneChain'
    BY Zenon DEF OneChain, Result
  <2>2. ASSUME NEW a \in accepted PROVE MadeBy(a.sender, a.commit_bytes, made'[a.sender].commits)
    <3>1. a.sender \in Clients
      BY Zenon DEF DsTypeOK, GroupLogCommit
    <3>2. made[a.sender].commits \in Nat
      BY Zenon, <3>1 DEF ClientTypes
    <3> QED
      BY Zenon, <3>1, <3>2, <1>MadeByMore DEF AcceptedOK
  <2>3. AcceptedOK'
    BY Zenon, <2>2 DEF AcceptedOK
  <2> QED
    BY Zenon, <2>1, <2>3

\* A step of the workers that leaves the clients' MLS state alone.
<1>ClientFrame.
    ASSUME ClientTypes, OneFounder, OnHistory, Staged, Remembered, OwnKeys,
           UNCHANGED clientVars, accepted' = accepted,
           key_packages' \in [Clients -> KeyPackage \cup {None}],
           welcome_inboxes' \in [Clients -> Seq(Welcome)]
    PROVE  ClientTypes' /\ OneFounder' /\ OnHistory' /\ Staged' /\ Remembered' /\ OwnKeys'
  <2> USE <1>ClientFrame
  <2>1. ClientTypes'
    BY Zenon DEF ClientTypes, clientVars
  <2>2. OneFounder' /\ OnHistory'
    BY ZenonT(30) DEF clientVars, OneFounder, OnHistory, AtStart, NewGroup, Result
  <2>3. Staged'
    BY Zenon DEF clientVars, Staged
  <2>4. Remembered' /\ OwnKeys'
    BY Zenon DEF clientVars, Remembered, OwnKeys
  <2> QED
    BY Zenon, <2>1, <2>2, <2>3, <2>4

\* No welcome is released.
<1>ReleasedFrame.
    ASSUME Released, accepted \subseteq accepted', welcome_inboxes' = welcome_inboxes,
           \A o \in Clients : welcoming'[o] \in {None, welcoming[o]}
    PROVE  Released'
  <2> USE <1>ReleasedFrame
  <2>1. \A w : IsReleased(w) => IsReleased(w)'
    BY Zenon DEF IsReleased
  <2> QED
    BY Zenon, <2>1 DEF Released, IsReleased

\* A command that is over, or goes on to its ack, leaves the worker in order.
<1>WorkerGoesOn.
    ASSUME WorkerTypes, AtRequest, NEW c \in Clients,
           Return(c) \/ (FinishApply(c) /\ delivery[c] # None),
           queued_intent' \in [Clients -> Intent \cup {None}],
           \A o \in Clients \ {c} : pending'[o] = pending[o] /\ group'[o] = group[o]
    PROVE  /\ WorkerTypes' /\ AtRequest'
           /\ \A o \in Clients : welcoming'[o] \in {None, welcoming[o]}
  <2> USE <1>WorkerGoesOn
  <2>1. \/ /\ pc' = [pc EXCEPT ![c] = "idle"]
           /\ delivery' = [delivery EXCEPT ![c] = None]
        \/ /\ pc' = [pc EXCEPT ![c] = "ack"]
           /\ delivery' = delivery /\ delivery[c] # None
    BY Zenon DEF Return, FinishApply, Goto
  <2>2. /\ intent' = [intent EXCEPT ![c] = None]
        /\ welcoming' = [welcoming EXCEPT ![c] = None]
    BY Zenon DEF Return, FinishApply
  <2>3. WorkerTypes'
    BY Zenon, <2>1, <2>2 DEF WorkerTypes, Labels
  <2>4. AtRequest'
    <3> SUFFICES ASSUME NEW o \in Clients
                 PROVE  /\ (pc'[o] \in {"submit", "await"}) <=> (intent'[o] # None)
                        /\ pc'[o] \in {"submit", "await"} => pending'[o] # None
                        /\ pc'[o] \in {"welcome", "put_own", "put_external", "ack"} => delivery'[o] # None
                        /\ pc'[o] \notin {"idle", "ack"} => group'[o] # None
                        /\ pc'[o] = "welcome" => welcoming'[o] # None
      BY Zenon DEF AtRequest
    <3>1. CASE o = c
      BY Zenon, <2>1, <2>2, <3>1 DEF WorkerTypes
    <3>2. CASE o # c
      BY Zenon, <2>1, <2>2, <3>2 DEF WorkerTypes, AtRequest
    <3> QED
      BY Zenon, <3>1, <3>2
  <2> QED
    BY Zenon, <2>2, <2>3, <2>4 DEF WorkerTypes

\* Creating and staging a commit, up to its POST.
<1>StartIntentInv.
    ASSUME DsTypeOK, ClientTypes, WorkerTypes, AtRequest, AcceptedOK,
           OneFounder, OnHistory, Staged, Remembered, OwnKeys,
           NEW c \in Clients, NEW it \in Intent, StartIntent(c, it),
           accepted' = accepted, UNCHANGED <<welcome_inboxes, delivery, welcoming>>,
           key_packages' \in [Clients -> KeyPackage \cup {None}],
           queued_intent' \in [Clients -> Intent \cup {None}]
    PROVE  /\ ClientTypes' /\ WorkerTypes' /\ AtRequest'
           /\ OneFounder' /\ OnHistory' /\ Staged' /\ Remembered' /\ OwnKeys'
           /\ group' = group
           /\ \A o \in Clients : made'[o].commits \in Nat /\ made[o].commits <= made'[o].commits
  <2> USE <1>StartIntentInv
  <2> DEFINE m == NewCommit(c, it)
             bytes == [commit |-> m, welcome |-> IF it.adds = {} THEN None ELSE WelcomeFor(m)]
  <2>0. CanCommit(c, it)
    BY Zenon DEF StartIntent
  <2>1. /\ MadeBy(c, m, made[c].commits + 1)
        /\ Merged(group[c], m) = Result(m)
        /\ m.id = <<c, made[c].commits + 1>>
        /\ m.parent = group[c].sid
        /\ m.epoch = group[c].epoch
        /\ m.roster = group[c].members
        /\ m.adds = it.adds
    BY Zenon, <2>0, NewCommitMade
  <2>2. m \in MlsCommit /\ m # None
    BY Zenon, <2>1, NoneIsNoValue DEF MadeBy
  <2>3. bytes \in PendingBytes /\ bytes # None
    <3>1. bytes \in PendingBytes
      BY Zenon, <2>2, ResultType DEF PendingBytes
    <3> QED
      BY Zenon, <3>1, NoneIsNoValue
  <2>4. pending_bytes' = [pending_bytes EXCEPT ![c] = bytes]
    <3>1. [state |-> Merged(group[c], m), adds |-> it.adds] = WelcomeFor(m)
      BY Zenon, <2>1 DEF WelcomeFor
    <3> QED
      BY Zenon, <3>1 DEF StartIntent
  <2>5. /\ pending' = [pending EXCEPT ![c] = m]
        /\ intent' = [intent EXCEPT ![c] = it]
        /\ pc' = [pc EXCEPT ![c] = "submit"]
        /\ group' = group /\ keys' = keys
    BY Zenon DEF StartIntent, Goto
  <2>6. made' = [made EXCEPT ![c] = [commits |-> made[c].commits + 1, key_packages |-> made[c].key_packages]]
    <3>1. made[c] \in [commits : Nat, key_packages : Nat]
      BY Zenon DEF ClientTypes
    <3>2. made' = [made EXCEPT ![c] = [made[c] EXCEPT !.commits = made[c].commits + 1]]
      BY Zenon DEF StartIntent
    <3> QED
      BY Zenon, <3>1, <3>2, MadeUpdate
  <2>7. made[c].commits \in Nat /\ made[c].key_packages \in Nat
    BY Zenon DEF ClientTypes
  <2> HIDE DEF m, bytes
  <2>8. ClientTypes'
    BY <2>2, <2>3, <2>4, <2>5, <2>6, <2>7 DEF ClientTypes
  <2>9. \A o \in Clients : made'[o].commits \in Nat /\ made[o].commits <= made'[o].commits
    <3> TAKE o \in Clients
    <3>1. made[o].commits \in Nat
      BY Zenon DEF ClientTypes
    <3> QED
      BY <2>6, <2>7, <3>1 DEF ClientTypes
  <2>10. WorkerTypes'
    BY Zenon, <2>5 DEF WorkerTypes, Labels
  <2>11. AtRequest'
    <3>1. it # None
      BY Zenon, NoneIsNoValue
    <3>2. group[c] # None
      BY Zenon, <2>0 DEF CanCommit
    <3> QED
      BY Zenon, <2>2, <2>5, <3>1, <3>2 DEF AtRequest, WorkerTypes, ClientTypes
  <2>12. OneFounder' /\ OnHistory'
    BY ZenonT(30), <2>5 DEF OneFounder, OnHistory, AtStart, NewGroup, Result
  <2>13. Staged'
    <3> SUFFICES ASSUME NEW o \in Clients, pending'[o] # None
                 PROVE  /\ group'[o] # None
                        /\ MadeBy(o, pending'[o], made'[o].commits)
                        /\ pending'[o].parent = group'[o].sid
                        /\ pending'[o].epoch = group'[o].epoch
                        /\ pending'[o].roster = group'[o].members
                        /\ pending_bytes'[o] # None /\ pending_bytes'[o].commit = pending'[o]
                        /\ \A a \in accepted' : a.commit_bytes.id = pending'[o].id => a.commit_bytes = pending'[o]
      BY Zenon DEF Staged
    <3>1. CASE o # c
      <4>1. pending'[o] = pending[o] /\ pending_bytes'[o] = pending_bytes[o] /\ made'[o] = made[o]
        BY Zenon, <2>4, <2>5, <2>6, <3>1 DEF ClientTypes
      <4> QED
        BY <2>5, <4>1 DEF Staged
    <3>2. CASE o = c
      <4>1. pending'[c] = m /\ pending_bytes'[c] = bytes /\ made'[c].commits = made[c].commits + 1
        BY Zenon, <2>4, <2>5, <2>6 DEF ClientTypes
      <4>2. bytes.commit = m
        BY Zenon DEF bytes
      <4>3. ASSUME NEW a \in accepted PROVE a.commit_bytes.id # m.id
        <5>1. a.commit_bytes.id[1] = a.sender /\ a.commit_bytes.id[2] \in 1..made[a.sender].commits
          BY Zenon DEF AcceptedOK, MadeBy
        <5> QED
          BY SMTT(30), <2>1, <2>7, <5>1
      <4> QED
        BY ZenonT(30), <2>0, <2>1, <2>3, <2>5, <3>2, <4>1, <4>2, <4>3 DEF CanCommit
    <3> QED
      BY Zenon, <3>1, <3>2
  <2>14. Remembered' /\ OwnKeys'
    <3>1. bytes.welcome \in {None, WelcomeFor(bytes.commit)}
      BY Zenon DEF bytes
    <3> QED
      BY Zenon, <2>4, <2>5, <3>1 DEF Remembered, OwnKeys, ClientTypes
  <2> QED
    BY Zenon, <2>5, <2>8, <2>9, <2>10, <2>11, <2>12, <2>13, <2>14

\* A step in which the service takes no part.
<1>ServiceFrame.
    ASSUME DsTypeOK, ClientTypes, AcceptedOK, OneChain, Carried, UNCHANGED serviceVars,
           \A c \in Clients : made'[c].commits \in Nat /\ made[c].commits <= made'[c].commits
    PROVE  DsTypeOK' /\ AcceptedOK' /\ OneChain' /\ Carried' /\ accepted' = accepted /\ Epoch' = Epoch
  <2> USE <1>ServiceFrame
  <2>1. DsTypeOK'
    BY Zenon DEF DsTypeOK, serviceVars
  <2>2. accepted' = accepted /\ Epoch' = Epoch
    BY Zenon DEF serviceVars, Epoch
  <2>3. AcceptedOK' /\ OneChain'
    BY Zenon, <2>2, <1>ChainFrame
  <2>4. Carried'
    BY Zenon, <2>2, CarriedFrame DEF serviceVars
  <2> QED
    BY Zenon, <2>1, <2>2, <2>3, <2>4

\* Nobody makes a commit.
<1>NoneMade.
    ASSUME ClientTypes, made' = made
    PROVE  \A c \in Clients : made'[c].commits \in Nat /\ made[c].commits <= made'[c].commits
    BY <1>NoneMade DEF ClientTypes

\* A step that neither accepts a commit nor moves a client is no step of the
\* history.
<1>StutterStep.
    ASSUME accepted' = accepted, Epoch' = Epoch, group' = group
    PROVE  HistoryStep
    BY Zenon, <1>StutterStep DEF HistoryStep, History!HistoryVars, Outcome, AcceptedAt

(* The inductive invariant and the refinement, action by action *)
\* The founder of the group.
<1>CreateGroupInv.
    ASSUME IInv, NEW c \in Clients, CreateGroup(c)
    PROVE  IInv' /\ HistoryStep
  <2> USE <1>CreateGroupInv
  <2> USE DEF IInv
  <2>1. accepted = {} /\ Epoch = 0
    <3>1. Epoch = 0
      BY Zenon DEF CreateGroup, Epoch
    <3> QED
      BY SMTT(30), <3>1 DEF AcceptedOK
  <2>2. \A o \in Clients : group[o] = None /\ pending[o] = None
    BY Zenon DEF CreateGroup, Staged
  <2>3. NewGroup(c) \in MlsState /\ NewGroup(c) # None
    <3>1. NewGroup(c) \in MlsState
      BY Zenon DEF NewGroup, MlsState, StateId
    <3> QED
      BY Zenon, <3>1, NoneIsNoValue
  <2>4. /\ group' = [group EXCEPT ![c] = NewGroup(c)]
        /\ pc' = [pc EXCEPT ![c] = "put_created"]
        /\ UNCHANGED <<serviceVars, mailVars, pending, pending_bytes, keys, made, queued_intent,
                       intent, delivery, welcoming>>
    BY Zenon DEF CreateGroup, Goto
  <2>5. DsTypeOK' /\ AcceptedOK' /\ OneChain' /\ Carried' /\ accepted' = accepted /\ Epoch' = Epoch
    BY Zenon, <2>4, <1>ServiceFrame, <1>NoneMade
  <2>6. ClientTypes'
    BY Zenon, <2>3, <2>4 DEF ClientTypes, mailVars
  <2>7. WorkerTypes'
    BY Zenon, <2>4 DEF WorkerTypes, Labels
  <2>8. AtRequest'
    BY ZenonT(30), <2>3, <2>4 DEF AtRequest, WorkerTypes, ClientTypes, CreateGroup
  <2>9. OneFounder' /\ OnHistory'
    BY Zenon, <2>1, <2>2, <2>3, <2>4, <2>5 DEF OneFounder, OnHistory, AtStart, NewGroup, ClientTypes
  <2>10. Staged' /\ Remembered' /\ OwnKeys'
    BY Zenon, <2>2, <2>4 DEF Staged, Remembered, OwnKeys
  <2>11. Released'
    BY Zenon, <2>4, <2>5, <1>ReleasedFrame DEF mailVars
  <2>12. History!Found(c)
    <3>1. group'[c] = NewGroup(c) /\ \A o \in Clients \ {c} : group'[o] = None
      BY Zenon, <2>2, <2>4 DEF ClientTypes
    <3> QED
      BY <2>1, <2>2, <2>3, <2>5, <3>1 DEF History!Found, NewGroup, Outcome, AcceptedAt
  <2>13. HistoryStep
    BY Zenon, <2>12 DEF HistoryStep, History!HistoryNext
  <2> QED
    BY Zenon, <2>5, <2>6, <2>7, <2>8, <2>9, <2>10, <2>11, <2>13

\* A new key package.
<1>GenerateKeyPackageInv.
    ASSUME IInv, NEW c \in Clients, GenerateKeyPackage(c)
    PROVE  IInv' /\ HistoryStep
  <2> USE <1>GenerateKeyPackageInv
  <2> USE DEF IInv
  <2> DEFINE kp == <<c, made[c].key_packages + 1>>
  <2>1. made[c] \in [commits : Nat, key_packages : Nat]
    BY Zenon DEF ClientTypes
  <2>2. kp \in KeyPackage /\ kp[1] = c
    BY <2>1 DEF KeyPackage
  <2>3. /\ keys' = [keys EXCEPT ![c] = @ \cup {kp}]
        /\ key_packages' = [key_packages EXCEPT ![c] = kp] \/ key_packages' = key_packages
        /\ UNCHANGED <<serviceVars, welcome_inboxes, group, pending, pending_bytes, workerVars>>
    BY Zenon DEF GenerateKeyPackage
  <2>4. made' = [made EXCEPT ![c] = [commits |-> made[c].commits, key_packages |-> made[c].key_packages + 1]]
    <3>1. made' = [made EXCEPT ![c] = [made[c] EXCEPT !.key_packages = made[c].key_packages + 1]]
      BY Zenon DEF GenerateKeyPackage
    <3> QED
      BY Zenon, <2>1, <3>1, MadeUpdate
  <2> HIDE DEF kp
  <2>5. \A o \in Clients : made'[o].commits = made[o].commits /\ made[o].commits \in Nat
    BY Zenon, <2>1, <2>4 DEF ClientTypes
  <2>6. DsTypeOK' /\ AcceptedOK' /\ OneChain' /\ Carried' /\ accepted' = accepted /\ Epoch' = Epoch
    <3>1. \A o \in Clients : made'[o].commits \in Nat /\ made[o].commits <= made'[o].commits
      BY <2>5
    <3> QED
      BY Zenon, <2>3, <3>1, <1>ServiceFrame
  <2>7. ClientTypes'
    <3>1. keys' \in [Clients -> SUBSET KeyPackage]
      BY Zenon, <2>2, <2>3 DEF ClientTypes
    <3>2. key_packages' \in [Clients -> KeyPackage \cup {None}]
      BY Zenon, <2>2, <2>3 DEF ClientTypes
    <3>3. made' \in [Clients -> [commits : Nat, key_packages : Nat]]
      BY SMTT(30), <2>1, <2>4 DEF ClientTypes
    <3> QED
      BY Zenon, <2>3, <3>1, <3>2, <3>3 DEF ClientTypes
  <2>8. WorkerTypes' /\ AtRequest'
    BY Zenon, <2>3 DEF WorkerTypes, AtRequest, workerVars
  <2>9. OneFounder' /\ OnHistory' /\ Remembered'
    BY ZenonT(30), <2>3, <2>6 DEF OneFounder, OnHistory, Remembered, AtStart, NewGroup, Result
  <2>10. Staged'
    BY Zenon, <2>3, <2>5, <2>6 DEF Staged
  <2>11. OwnKeys'
    BY Zenon, <2>2, <2>3 DEF OwnKeys, ClientTypes
  <2>12. Released'
    BY Zenon, <2>3, <2>6, <1>ReleasedFrame DEF workerVars
  <2> QED
    BY Zenon, <2>3, <2>6, <2>7, <2>8, <2>9, <2>10, <2>11, <2>12, <1>StutterStep

\* A step that only stages a commit.
<1>StageInv.
    ASSUME IInv, NEW c \in Clients, NEW it \in Intent, StartIntent(c, it),
           UNCHANGED <<serviceVars, welcome_inboxes, queued_intent, delivery, welcoming>>,
           key_packages' \in [Clients -> KeyPackage \cup {None}]
    PROVE  IInv' /\ HistoryStep
  <2> USE <1>StageInv
  <2> USE DEF IInv
  <2>0. accepted' = accepted /\ Epoch' = Epoch /\ queued_intent' \in [Clients -> Intent \cup {None}]
    BY Zenon DEF serviceVars, WorkerTypes, Epoch
  <2>1. /\ ClientTypes' /\ WorkerTypes' /\ AtRequest'
        /\ OneFounder' /\ OnHistory' /\ Staged' /\ Remembered' /\ OwnKeys'
        /\ group' = group
        /\ \A o \in Clients : made'[o].commits \in Nat /\ made[o].commits <= made'[o].commits
    BY Zenon, <2>0, <1>StartIntentInv
  <2>2. DsTypeOK' /\ AcceptedOK' /\ OneChain' /\ Carried'
    BY Zenon, <2>1, <1>ServiceFrame
  <2>3. Released'
    BY Zenon, <2>0, <1>ReleasedFrame
  <2> QED
    BY Zenon, <2>0, <2>1, <2>2, <2>3, <1>StutterStep

\* A step that changes nothing but the key packages the service holds.
<1>KeyPackagesInv.
    ASSUME IInv, UNCHANGED <<serviceVars, welcome_inboxes, clientVars, workerVars>>,
           key_packages' \in [Clients -> KeyPackage \cup {None}]
    PROVE  IInv' /\ HistoryStep
  <2> USE <1>KeyPackagesInv
  <2> USE DEF IInv
  <2>1. DsTypeOK' /\ AcceptedOK' /\ OneChain' /\ Carried' /\ accepted' = accepted /\ Epoch' = Epoch
    BY Zenon, <1>ServiceFrame, <1>NoneMade DEF clientVars
  <2>2. ClientTypes' /\ OneFounder' /\ OnHistory' /\ Staged' /\ Remembered' /\ OwnKeys'
    <3>1. welcome_inboxes' \in [Clients -> Seq(Welcome)]
      BY Zenon DEF ClientTypes
    <3> QED
      BY Zenon, <2>1, <3>1, <1>ClientFrame
  <2>3. WorkerTypes' /\ AtRequest'
    BY Zenon DEF WorkerTypes, AtRequest, workerVars, clientVars
  <2>4. Released'
    BY Zenon, <2>1, <1>ReleasedFrame DEF workerVars
  <2> QED
    BY Zenon, <2>1, <2>2, <2>3, <2>4, <1>StutterStep DEF clientVars

\* AddMembers keeps the invariant.
<1>AddMembersInv.
    ASSUME IInv, NEW c \in Clients, NEW ts \in SUBSET Clients, AddMembers(c, ts)
    PROVE  IInv' /\ HistoryStep
  <2> USE <1>AddMembersInv
  <2>1. ClientTypes
    BY Zenon DEF IInv
  <2> QED
    BY Zenon, <2>1, Adding, <1>StageInv, <1>KeyPackagesInv

\* RemoveMembers: the commit is staged.
<1>RemoveMembersInv.
    ASSUME IInv, NEW c \in Clients, NEW ts \in SUBSET Clients, RemoveMembers(c, ts)
    PROVE  IInv' /\ HistoryStep
  <2> USE <1>RemoveMembersInv
  <2> DEFINE it == [adds |-> {}, removes |-> ts]
  <2>1. it \in Intent
    BY Zenon DEF Intent
  <2>2. StartIntent(c, it)
    BY Zenon DEF RemoveMembers
  <2>3. UNCHANGED <<serviceVars, welcome_inboxes, queued_intent, delivery, welcoming>>
    BY Zenon DEF RemoveMembers, mailVars
  <2>4. key_packages' \in [Clients -> KeyPackage \cup {None}]
    BY Zenon DEF RemoveMembers, mailVars, IInv, ClientTypes
  <2> HIDE DEF it
  <2> QED
    BY Zenon, <2>1, <2>2, <2>3, <2>4, <1>StageInv

\* SelfUpdate: the commit is staged.
<1>SelfUpdateInv.
    ASSUME IInv, NEW c \in Clients, SelfUpdate(c)
    PROVE  IInv' /\ HistoryStep
  <2> USE <1>SelfUpdateInv
  <2> DEFINE it == [adds |-> {}, removes |-> {}]
  <2>1. it \in Intent
    BY Zenon DEF Intent
  <2>2. StartIntent(c, it)
    BY Zenon DEF SelfUpdate
  <2>3. UNCHANGED <<serviceVars, welcome_inboxes, queued_intent, delivery, welcoming>>
    BY Zenon DEF SelfUpdate, mailVars
  <2>4. key_packages' \in [Clients -> KeyPackage \cup {None}]
    BY Zenon DEF SelfUpdate, mailVars, IInv, ClientTypes
  <2> HIDE DEF it
  <2> QED
    BY Zenon, <2>1, <2>2, <2>3, <2>4, <1>StageInv

\* A step of one worker that leaves the clients and their mail alone, after
\* which its command is over or goes on to the ack.
<1>GoesOnInv.
    ASSUME IInv, NEW c \in Clients, UNCHANGED <<mailVars, clientVars>>,
           DsTypeOK', Carried', accepted' = accepted, Epoch' = Epoch,
           Return(c) \/ (FinishApply(c) /\ delivery[c] # None),
           queued_intent' \in [Clients -> Intent \cup {None}]
    PROVE  IInv' /\ HistoryStep
  <2> USE <1>GoesOnInv
  <2> USE DEF IInv
  <2>1. AcceptedOK' /\ OneChain'
    BY Zenon, <1>ChainFrame, <1>NoneMade DEF clientVars
  <2>2. ClientTypes' /\ OneFounder' /\ OnHistory' /\ Staged' /\ Remembered' /\ OwnKeys'
    <3>1. /\ welcome_inboxes' \in [Clients -> Seq(Welcome)]
          /\ key_packages' \in [Clients -> KeyPackage \cup {None}]
      BY Zenon DEF ClientTypes, mailVars
    <3> QED
      BY Zenon, <3>1, <1>ClientFrame
  <2>3. /\ WorkerTypes' /\ AtRequest'
        /\ \A o \in Clients : welcoming'[o] \in {None, welcoming[o]}
    BY Zenon, <1>WorkerGoesOn DEF clientVars
  <2>4. Released'
    BY Zenon, <2>3, <1>ReleasedFrame DEF mailVars
  <2> QED
    BY Zenon, <2>1, <2>2, <2>3, <2>4, <1>StutterStep DEF clientVars

\* A step of the service alone, or of a worker that repeats its request.
<1>ServiceInv.
    ASSUME IInv, UNCHANGED <<mailVars, clientVars, workerVars>>,
           DsTypeOK', Carried', accepted' = accepted, Epoch' = Epoch
    PROVE  IInv' /\ HistoryStep
  <2> USE <1>ServiceInv
  <2> USE DEF IInv
  <2>1. AcceptedOK' /\ OneChain'
    BY Zenon, <1>ChainFrame, <1>NoneMade DEF clientVars
  <2>2. ClientTypes' /\ OneFounder' /\ OnHistory' /\ Staged' /\ Remembered' /\ OwnKeys'
    <3>1. /\ welcome_inboxes' \in [Clients -> Seq(Welcome)]
          /\ key_packages' \in [Clients -> KeyPackage \cup {None}]
      BY Zenon DEF ClientTypes, mailVars
    <3> QED
      BY Zenon, <3>1, <1>ClientFrame
  <2>3. WorkerTypes' /\ AtRequest'
    BY Zenon DEF WorkerTypes, AtRequest, workerVars, clientVars
  <2>4. Released'
    BY Zenon, <1>ReleasedFrame DEF workerVars, mailVars
  <2> QED
    BY Zenon, <2>1, <2>2, <2>3, <2>4, <1>StutterStep DEF clientVars

\* The 200 to a submitted commit.
<1>SubmitOkInv.
    ASSUME IInv, NEW c \in Clients, SubmitOk(c)
    PROVE  IInv' /\ HistoryStep
  <2> USE <1>SubmitOkInv
  <2>1. DsTypeOK' /\ Carried' /\ accepted' = accepted /\ Epoch' = Epoch
    BY Zenon, QuietService DEF SubmitOk
  <2>2. UNCHANGED <<mailVars, clientVars>>
    BY Zenon DEF SubmitOk
  <2>3. Return(c) \/ (FinishApply(c) /\ delivery[c] # None)
    BY Zenon DEF SubmitOk
  <2>4. queued_intent' \in [Clients -> Intent \cup {None}]
    BY Zenon DEF SubmitOk, IInv, WorkerTypes
  <2> QED
    BY Zenon, <2>1, <2>2, <2>3, <2>4, <1>GoesOnInv

\* A command that is given up.
<1>GiveUpInv.
    ASSUME IInv, NEW c \in Clients, GiveUp(c)
    PROVE  IInv' /\ HistoryStep
  <2> USE <1>GiveUpInv
  <2>1. DsTypeOK' /\ Carried' /\ accepted' = accepted /\ Epoch' = Epoch
    BY Zenon, QuietService DEF GiveUp
  <2>2. UNCHANGED <<mailVars, clientVars, queued_intent>> /\ Return(c)
    BY Zenon DEF GiveUp
  <2>3. queued_intent' \in [Clients -> Intent \cup {None}]
    BY Zenon, <2>2 DEF IInv, WorkerTypes
  <2> QED
    BY Zenon, <2>1, <2>2, <2>3, <1>GoesOnInv

\* The PUT after the creation of the group, and after an own commit.
<1>PutInv.
    ASSUME IInv, NEW c \in Clients, PutCreated(c) \/ PutOwn(c) \/ PutLost(c)
    PROVE  IInv' /\ HistoryStep
  <2> USE <1>PutInv
  <2>1. group[c] # None /\ UpdateDsGroupState(c)
    BY Zenon DEF PutCreated, PutOwn, PutLost, IInv, AtRequest
  <2>2. DsTypeOK' /\ Carried' /\ accepted' = accepted /\ Epoch' = Epoch
    BY Zenon, <2>1, QuietService
  <2>3. CASE PutLost(c)
    BY Zenon, <2>2, <2>3, <1>ServiceInv DEF PutLost
  <2>4. CASE PutCreated(c) \/ PutOwn(c)
    <3>1. UNCHANGED <<mailVars, clientVars, queued_intent>>
      BY Zenon, <2>4 DEF PutCreated, PutOwn
    <3>2. Return(c) \/ (FinishApply(c) /\ delivery[c] # None)
      BY Zenon, <2>4 DEF PutCreated, PutOwn, IInv, AtRequest
    <3>3. queued_intent' \in [Clients -> Intent \cup {None}]
      BY Zenon, <3>1 DEF IInv, WorkerTypes
    <3> QED
      BY Zenon, <2>2, <3>1, <3>2, <3>3, <1>GoesOnInv
  <2> QED
    BY Zenon, <2>3, <2>4

\* An ack of whatever a worker holds leaves the service well typed, and what
\* it carries accepted.
<1>AckKeepsService.
    ASSUME DsTypeOK, Carried, NEW c \in Clients, NEW id, ack_commit(c, id)
    PROVE  DsTypeOK' /\ Carried' /\ accepted' = accepted /\ Epoch' = Epoch
  <2> USE <1>AckKeepsService
  <2>0. UNCHANGED <<groups, arrivals, group_commit_log, publishing, handed, accepted>>
    BY Zenon DEF ack_commit
  <2>1. accepted' = accepted /\ Epoch' = Epoch
    BY Zenon, <2>0 DEF Epoch
  <2>2. CASE Mode = "per_recipient"
    <3>1. \A q \in commit_inboxes[c] : commit_delivery_id(q, c) \in Groups \X Nat \X Clients \X Clients
      BY SMTT(30) DEF DsTypeOK, CommitDeliveryRecord, commit_delivery_id
    <3>2. /\ commit_inboxes' = [commit_inboxes EXCEPT ![c] =
               @ \ {d \in commit_inboxes[c] : commit_delivery_id(d, c) = id}]
          /\ commit_cursors' = commit_cursors
      BY ZenonT(30), <2>2 DEF ack_commit, AckInbox
    <3>3. acked' \subseteq Groups \X Nat \X Clients \X Clients
      BY SMTT(30), <2>2, <3>1 DEF ack_commit, AckInbox, DsTypeOK
    <3>4. DsTypeOK'
      BY Zenon, <2>0, <3>2, <3>3 DEF DsTypeOK
    <3>5. Carried'
      BY ZenonT(30), <2>0, <3>2 DEF Carried, Carries, DsTypeOK
    <3> QED
      BY Zenon, <2>1, <3>4, <3>5
  <2>3. CASE Mode # "per_recipient"
    <3> DEFINE hit == {i \in EntriesFor(c, id[1]) : commit_delivery_id(group_commit_log[id[1]][i], c) = id}
               moved == CursorMax(commit_cursors[c][id[1]], id[2])
    <3>1. /\ UNCHANGED <<commit_inboxes, acked>>
          /\ commit_cursors' = IF hit = {} THEN commit_cursors
                               ELSE [commit_cursors EXCEPT ![c] = [@ EXCEPT ![id[1]] = moved]]
      BY ZenonT(30), <2>3 DEF ack_commit, ack_group_log_commit_compat
    <3>2. CASE commit_cursors' = commit_cursors
      <4>1. DsTypeOK'
        BY Zenon, <2>0, <3>1, <3>2 DEF DsTypeOK
      <4> QED
        BY Zenon, <2>0, <2>1, <3>1, <4>1, CarriedFrame
    <3>3. CASE hit # {} /\ commit_cursors' = [commit_cursors EXCEPT ![c] = [@ EXCEPT ![id[1]] = moved]]
      <4>2. CASE id[1] \in Groups
        <5>1. PICK i \in 1..Len(group_commit_log[id[1]]) : commit_delivery_id(group_commit_log[id[1]][i], c) = id
          BY Zenon, <3>3 DEF EntriesFor
        <5>2. group_commit_log[id[1]][i] \in GroupLogCommit
          BY SMTT(30), <4>2 DEF DsTypeOK
        <5>3. id[2] \in Nat
          BY <5>1, <5>2 DEF commit_delivery_id, GroupLogCommit
        <5>4. commit_cursors[c] \in [Groups -> Nat]
          BY Zenon DEF DsTypeOK
        <5>5. moved \in Nat
          BY Zenon, <4>2, <5>3, <5>4 DEF CursorMax
        <5> HIDE DEF moved
        <5>6. [commit_cursors[c] EXCEPT ![id[1]] = moved] \in [Groups -> Nat]
          BY ZenonT(30), <5>4, <5>5
        <5>7. commit_cursors' \in [Clients -> [Groups -> Nat]]
          BY ZenonT(30), <3>3, <5>6 DEF DsTypeOK
        <5>8. DsTypeOK'
          BY Zenon, <2>0, <3>1, <5>7 DEF DsTypeOK
        <5> QED
          BY Zenon, <2>0, <2>1, <3>1, <5>8, CarriedFrame
      <4>3. CASE id[1] \notin Groups
        <5>1. commit_cursors[c] \in [Groups -> Nat] /\ DOMAIN commit_cursors[c] = Groups
          BY Zenon DEF DsTypeOK
        <5> HIDE DEF moved
        <5>2. [commit_cursors[c] EXCEPT ![id[1]] = moved] = commit_cursors[c]
          BY Zenon, <4>3, <5>1
        <5>3. commit_cursors' \in [Clients -> [Groups -> Nat]]
          BY ZenonT(30), <3>3, <5>1, <5>2 DEF DsTypeOK
        <5>4. DsTypeOK'
          BY Zenon, <2>0, <3>1, <5>3 DEF DsTypeOK
        <5> QED
          BY Zenon, <2>0, <2>1, <3>1, <5>4, CarriedFrame
      <4> QED
        BY Zenon, <4>2, <4>3
    <3> QED
      BY Zenon, <3>1, <3>2, <3>3
  <2> QED
    BY Zenon, <2>2, <2>3

\* The ack of a delivery, answered or repeated.
<1>AckDeliveryInv.
    ASSUME IInv, NEW c \in Clients, AckDelivery(c)
    PROVE  IInv' /\ HistoryStep
  <2> USE <1>AckDeliveryInv
  <2>1. DsTypeOK' /\ Carried' /\ accepted' = accepted /\ Epoch' = Epoch
    BY Zenon, <1>AckKeepsService DEF AckDelivery, IInv
  <2>2. UNCHANGED <<mailVars, clientVars, queued_intent>>
    BY Zenon DEF AckDelivery
  <2>3. CASE Return(c)
    <3>1. queued_intent' \in [Clients -> Intent \cup {None}]
      BY Zenon, <2>2 DEF IInv, WorkerTypes
    <3> QED
      BY Zenon, <2>1, <2>2, <2>3, <3>1, <1>GoesOnInv
  <2>4. CASE UNCHANGED <<intent, delivery, welcoming, pc>>
    BY Zenon, <2>1, <2>2, <2>4, <1>ServiceInv DEF workerVars
  <2> QED
    BY Zenon, <2>3, <2>4 DEF AckDelivery

\* The PUT after a foreign commit, and the retry of the queued intent.
<1>PutExternalInv.
    ASSUME IInv, NEW c \in Clients, PutExternal(c)
    PROVE  IInv' /\ HistoryStep
  <2> USE <1>PutExternalInv
  <2>1. group[c] # None /\ UpdateDsGroupState(c) /\ delivery[c] # None
    BY Zenon DEF PutExternal, IInv, AtRequest
  <2>2. DsTypeOK' /\ Carried' /\ accepted' = accepted /\ Epoch' = Epoch
    BY Zenon, <2>1, QuietService
  <2>3. UNCHANGED <<mailVars, queued_intent>> /\ queued_intent' \in [Clients -> Intent \cup {None}]
    BY Zenon DEF PutExternal, IInv, WorkerTypes
  <2>4. CASE UNCHANGED clientVars /\ (Return(c) \/ FinishApply(c))
    BY Zenon, <2>1, <2>2, <2>3, <2>4, <1>GoesOnInv
  <2>5. CASE /\ queued_intent[c] # None
             /\ StartIntent(c, queued_intent[c])
             /\ UNCHANGED <<delivery, welcoming>>
    <3> USE DEF IInv
    <3>1. queued_intent[c] \in Intent
      BY Zenon, <2>5 DEF WorkerTypes
    <3>2. key_packages' \in [Clients -> KeyPackage \cup {None}] /\ welcome_inboxes' = welcome_inboxes
      BY Zenon, <2>3 DEF ClientTypes, mailVars
    <3>3. /\ ClientTypes' /\ WorkerTypes' /\ AtRequest'
          /\ OneFounder' /\ OnHistory' /\ Staged' /\ Remembered' /\ OwnKeys'
          /\ group' = group
          /\ \A o \in Clients : made'[o].commits \in Nat /\ made[o].commits <= made'[o].commits
      BY Zenon, <2>2, <2>3, <2>5, <3>1, <3>2, <1>StartIntentInv
    <3>4. AcceptedOK' /\ OneChain'
      BY Zenon, <2>2, <3>3, <1>ChainFrame
    <3>5. Released'
      BY Zenon, <2>2, <2>5, <3>2, <1>ReleasedFrame
    <3> QED
      BY Zenon, <2>2, <3>3, <3>4, <3>5, <1>StutterStep
  <2> QED
    BY Zenon, <2>4, <2>5 DEF PutExternal

\* The 409 to a submitted commit.
<1>SubmitConflictInv.
    ASSUME IInv, NEW c \in Clients, SubmitConflict(c)
    PROVE  IInv' /\ HistoryStep
  <2> USE <1>SubmitConflictInv
  <2> USE DEF IInv
  <2>1. /\ pending' = [pending EXCEPT ![c] = None]
        /\ pending_bytes' = [pending_bytes EXCEPT ![c] = None]
        /\ queued_intent' = [queued_intent EXCEPT ![c] = intent[c]]
        /\ UNCHANGED <<serviceVars, mailVars, group, keys, made>>
    BY Zenon DEF SubmitConflict
  <2>2. DsTypeOK' /\ AcceptedOK' /\ OneChain' /\ Carried' /\ accepted' = accepted /\ Epoch' = Epoch
    BY Zenon, <2>1, <1>ServiceFrame, <1>NoneMade
  <2>3. ClientTypes'
    BY Zenon, <2>1 DEF ClientTypes, mailVars
  <2>4. queued_intent' \in [Clients -> Intent \cup {None}]
    BY Zenon, <2>1 DEF WorkerTypes
  <2>5. /\ WorkerTypes' /\ AtRequest'
        /\ \A o \in Clients : welcoming'[o] \in {None, welcoming[o]}
    <3>1. Return(c) \/ (FinishApply(c) /\ delivery[c] # None)
      BY Zenon DEF SubmitConflict
    <3>2. \A o \in Clients \ {c} : pending'[o] = pending[o] /\ group'[o] = group[o]
      BY Zenon, <2>1 DEF ClientTypes
    <3> QED
      BY Zenon, <2>4, <3>1, <3>2, <1>WorkerGoesOn
  <2>6. OneFounder' /\ OnHistory' /\ OwnKeys'
    BY ZenonT(30), <2>1, <2>2 DEF OneFounder, OnHistory, OwnKeys, AtStart, NewGroup, Result
  <2>7. Staged' /\ Remembered'
    BY Zenon, <2>1, <2>2 DEF Staged, Remembered, ClientTypes
  <2>8. Released'
    BY Zenon, <2>1, <2>2, <2>5, <1>ReleasedFrame DEF mailVars
  <2> QED
    BY Zenon, <2>1, <2>2, <2>3, <2>5, <2>6, <2>7, <2>8, <1>StutterStep

\* The lost 200, after which the same commit is posted again.
<1>SubmitLostInv.
    ASSUME IInv, NEW c \in Clients, SubmitLost(c)
    PROVE  IInv' /\ HistoryStep
  <2> USE <1>SubmitLostInv
  <2> USE DEF IInv
  <2>1. /\ pc[c] = "await"
        /\ pc' = [pc EXCEPT ![c] = "submit"]
        /\ UNCHANGED <<serviceVars, mailVars, clientVars, queued_intent, intent, delivery, welcoming>>
    BY Zenon DEF SubmitLost, Goto
  <2>2. DsTypeOK' /\ AcceptedOK' /\ OneChain' /\ Carried' /\ accepted' = accepted /\ Epoch' = Epoch
    BY Zenon, <2>1, <1>ServiceFrame, <1>NoneMade DEF clientVars
  <2>3. ClientTypes' /\ OneFounder' /\ OnHistory' /\ Staged' /\ Remembered' /\ OwnKeys'
    <3>1. /\ welcome_inboxes' \in [Clients -> Seq(Welcome)]
          /\ key_packages' \in [Clients -> KeyPackage \cup {None}]
      BY Zenon, <2>1 DEF ClientTypes, mailVars
    <3> QED
      BY Zenon, <2>1, <2>2, <3>1, <1>ClientFrame
  <2>4. WorkerTypes'
    BY Zenon, <2>1 DEF WorkerTypes, Labels
  <2>5. AtRequest'
    BY Zenon, <2>1 DEF AtRequest, WorkerTypes, clientVars
  <2>6. Released'
    BY Zenon, <2>1, <2>2, <1>ReleasedFrame DEF mailVars
  <2> QED
    BY Zenon, <2>1, <2>2, <2>3, <2>4, <2>5, <2>6, <1>StutterStep DEF clientVars

\* A released welcome reaches one more inbox, once or, if the answer is lost,
\* more often.
<1>PostWelcomeInv.
    ASSUME IInv, NEW c \in Clients, NEW r \in Clients, PostWelcome(c, r)
    PROVE  IInv' /\ HistoryStep
  <2> USE <1>PostWelcomeInv
  <2> USE DEF IInv
  <2>1. welcoming[c] \in Welcoming /\ IsReleased(welcoming[c].welcome)
    BY Zenon DEF PostWelcome, AtRequest, WorkerTypes, Released
  <2>2. /\ pc[c] = "welcome"
        /\ welcome_inboxes' = [welcome_inboxes EXCEPT ![r] = Append(@, welcoming[c].welcome)]
        /\ UNCHANGED <<serviceVars, key_packages, clientVars, queued_intent, intent, delivery>>
    BY Zenon DEF PostWelcome
  <2>3. /\ \/ pc' = [pc EXCEPT ![c] = "put_own"]
           \/ pc' = [pc EXCEPT ![c] = "welcome"]
        /\ \E to \in SUBSET Clients :
             welcoming' = [welcoming EXCEPT ![c] = [welcome |-> welcoming[c].welcome, to |-> to]]
    <3>1. welcoming[c].to \in SUBSET Clients
      BY Zenon, <2>1 DEF Welcoming
    <3>2. CASE /\ welcoming' = [welcoming EXCEPT ![c].to = @ \ {r}]
               /\ Goto(c, IF welcoming[c].to = {r} THEN "put_own" ELSE "welcome")
      <4>1. welcoming' = [welcoming EXCEPT ![c] = [welcoming[c] EXCEPT !.to = welcoming[c].to \ {r}]]
        BY Zenon, <3>2
      <4>2. welcoming' = [welcoming EXCEPT ![c] = [welcome |-> welcoming[c].welcome, to |-> welcoming[c].to \ {r}]]
        BY Zenon, <2>1, <4>1, WelcomingUpdate
      <4>3. welcoming[c].to \ {r} \in SUBSET Clients
        BY Zenon, <3>1
      <4>4. \/ pc' = [pc EXCEPT ![c] = "put_own"]
            \/ pc' = [pc EXCEPT ![c] = "welcome"]
        BY Zenon, <3>2 DEF Goto
      <4> QED
        BY Zenon, <4>2, <4>3, <4>4
    <3>3. CASE UNCHANGED <<welcoming, pc>>
      <4>1. welcoming[c] = [welcome |-> welcoming[c].welcome, to |-> welcoming[c].to]
        BY Zenon, <2>1 DEF Welcoming
      <4>2. welcoming' = [welcoming EXCEPT ![c] = [welcome |-> welcoming[c].welcome, to |-> welcoming[c].to]]
        BY Zenon, <3>3, <4>1 DEF WorkerTypes
      <4>3. pc' = [pc EXCEPT ![c] = "welcome"]
        BY Zenon, <2>2, <3>3 DEF WorkerTypes
      <4> QED
        BY Zenon, <3>1, <4>2, <4>3
    <3> QED
      BY Zenon, <3>2, <3>3 DEF PostWelcome
  <2>4. PICK to \in SUBSET Clients :
          welcoming' = [welcoming EXCEPT ![c] = [welcome |-> welcoming[c].welcome, to |-> to]]
    BY Zenon, <2>3
  <2> DEFINE w == [welcome |-> welcoming[c].welcome, to |-> to]
  <2>5. w \in Welcoming /\ w # None /\ w.welcome = welcoming[c].welcome /\ w.welcome \in Welcome
    BY SMTT(30), <2>1, NoneIsNoValue DEF Welcoming
  <2>6. welcoming' = [welcoming EXCEPT ![c] = w]
    BY Zenon, <2>4
  <2> HIDE DEF w
  <2>7. DsTypeOK' /\ AcceptedOK' /\ OneChain' /\ Carried' /\ accepted' = accepted /\ Epoch' = Epoch
    BY Zenon, <2>2, <1>ServiceFrame, <1>NoneMade DEF clientVars
  <2>8. ClientTypes' /\ OneFounder' /\ OnHistory' /\ Staged' /\ Remembered' /\ OwnKeys'
    <3>1. /\ welcome_inboxes' \in [Clients -> Seq(Welcome)]
          /\ key_packages' \in [Clients -> KeyPackage \cup {None}]
      BY SMTT(30), <2>2, <2>5 DEF ClientTypes
    <3> QED
      BY Zenon, <2>2, <2>7, <3>1, <1>ClientFrame
  <2>9. WorkerTypes'
    BY Zenon, <2>2, <2>3, <2>5, <2>6 DEF WorkerTypes, Labels
  <2>10. AtRequest'
    BY ZenonT(30), <2>2, <2>3, <2>5, <2>6 DEF AtRequest, WorkerTypes, clientVars
  <2>11. Released'
    <3>1. \A x : IsReleased(x)' <=> IsReleased(x)
      BY Zenon, <2>7 DEF IsReleased
    <3>2. \A o \in Clients : welcoming'[o] # None => IsReleased(welcoming'[o].welcome)
      BY Zenon, <2>1, <2>5, <2>6 DEF Released, WorkerTypes
    <3>3. ASSUME NEW o \in Clients, NEW i \in 1..Len(welcome_inboxes'[o])
          PROVE  IsReleased(welcome_inboxes'[o][i])
      <4>1. CASE o # r
        BY ZenonT(30), <2>2, <3>3, <4>1 DEF Released, ClientTypes
      <4>2. CASE o = r
        <5>1. welcome_inboxes'[r] = Append(welcome_inboxes[r], w.welcome) /\ welcome_inboxes[r] \in Seq(Welcome)
          BY Zenon, <2>2, <2>5 DEF ClientTypes
        <5>2. /\ i \in 1..Len(welcome_inboxes[r]) => welcome_inboxes'[r][i] = welcome_inboxes[r][i]
              /\ i \notin 1..Len(welcome_inboxes[r]) => welcome_inboxes'[r][i] = w.welcome
          BY SMTT(30), <2>5, <3>3, <4>2, <5>1
        <5> QED
          BY Zenon, <2>1, <2>5, <4>2, <5>2 DEF Released
      <4> QED
        BY ZenonT(30), <4>1, <4>2
    <3> QED
      BY Zenon, <3>1, <3>2, <3>3 DEF Released, IsReleased
  <2> QED
    BY Zenon, <2>2, <2>7, <2>8, <2>9, <2>10, <2>11, <1>StutterStep DEF clientVars

\* The steps of publish_group_commit after the accept.
<1>ServiceStepInv.
    ASSUME IInv, ServiceStep
    PROVE  IInv' /\ HistoryStep
  <2> USE <1>ServiceStepInv
  <2> USE DEF IInv
  <2>1. PICK p \in publishing : PushToLog(p) \/ FinishPublish(p) \/ \E r \in Clients : PushToRecipient(p, r)
    BY Zenon DEF ServiceStep
  <2>2. p \in GroupLogCommit /\ p.group_id \in Groups /\ Carries(p)
    BY Zenon DEF DsTypeOK, GroupLogCommit, Carried
  <2>3. CASE PushToLog(p)
    <3>1. /\ group_commit_log' = [group_commit_log EXCEPT ![p.group_id] = Append(@, p)]
          /\ publishing' = publishing \ {p}
          /\ UNCHANGED <<groups, commit_inboxes, arrivals, commit_cursors, handed, accepted, acked>>
      BY Zenon, <2>3 DEF PushToLog
    <3>2. DsTypeOK'
      <4>1. group_commit_log' \in [Groups -> Seq(GroupLogCommit)]
        BY SMTT(30), <2>2, <3>1 DEF DsTypeOK
      <4> QED
        BY Zenon, <3>1, <4>1 DEF DsTypeOK
    <3>3. ASSUME NEW g \in Groups, NEW i \in 1..Len(group_commit_log'[g])
          PROVE  Carries(group_commit_log'[g][i])
      <4>1. CASE g # p.group_id
        BY ZenonT(30), <3>1, <3>3, <4>1 DEF Carried, DsTypeOK
      <4>2. CASE g = p.group_id
        <5>1. group_commit_log'[g] = Append(group_commit_log[g], p) /\ group_commit_log[g] \in Seq(GroupLogCommit)
          BY Zenon, <3>1, <4>2 DEF DsTypeOK
        <5>2. \/ i \in 1..Len(group_commit_log[g]) /\ group_commit_log'[g][i] = group_commit_log[g][i]
              \/ group_commit_log'[g][i] = p
          BY <2>2, <3>3, <5>1
        <5> QED
          BY Zenon, <2>2, <5>2 DEF Carried
      <4> QED
        BY Zenon, <4>1, <4>2
    <3>4. Carried'
      BY ZenonT(30), <3>1, <3>3 DEF Carried, Carries
    <3>5. accepted' = accepted /\ Epoch' = Epoch
      BY Zenon, <3>1 DEF Epoch
    <3> QED
      BY Zenon, <3>2, <3>4, <3>5, <1>ServiceInv DEF ServiceStep
  <2>4. CASE FinishPublish(p)
    <3>1. /\ publishing' = publishing \ {p}
          /\ UNCHANGED <<groups, commit_inboxes, arrivals, group_commit_log, commit_cursors, handed,
                         accepted, acked>>
      BY Zenon, <2>4 DEF FinishPublish
    <3>2. DsTypeOK' /\ accepted' = accepted /\ Epoch' = Epoch
      BY Zenon, <3>1 DEF DsTypeOK, Epoch
    <3>3. Carried'
      BY Zenon, <3>1 DEF Carried, Carries
    <3> QED
      BY Zenon, <3>2, <3>3, <1>ServiceInv DEF ServiceStep
  <2>5. ASSUME NEW r \in Clients, PushToRecipient(p, r) PROVE IInv' /\ HistoryStep
    <3> DEFINE rest == [p EXCEPT !.recipients = @ \ {r}]
               q == QueuedRecord(p, arrivals[r] + 1)
    <3>1. /\ arrivals' = [arrivals EXCEPT ![r] = @ + 1]
          /\ commit_inboxes' = [commit_inboxes EXCEPT ![r] = @ \cup {q}]
          /\ publishing' = (publishing \ {p}) \cup {rest}
          /\ UNCHANGED <<groups, group_commit_log, commit_cursors, handed, accepted, acked>>
      BY Zenon, <2>5 DEF PushToRecipient
    <3>2. rest = [group_id |-> p.group_id, epoch |-> p.epoch, sender |-> p.sender,
                  commit_bytes |-> p.commit_bytes, recipients |-> p.recipients \ {r}]
      BY SMTT(30), <2>2 DEF GroupLogCommit
    <3>3. rest \in GroupLogCommit /\ Carries(rest)
      BY Zenon, <2>2, <3>2 DEF GroupLogCommit, Carries
    <3>4. q \in CommitDeliveryRecord /\ Carries(q)
      <4>1. arrivals[r] + 1 \in Nat
        BY DEF DsTypeOK
      <4>2. q = [group_id |-> p.group_id, epoch |-> p.epoch, sender |-> p.sender,
                 commit_bytes |-> p.commit_bytes, at |-> arrivals[r] + 1]
        BY Zenon DEF QueuedRecord
      <4> QED
        BY <2>2, <4>1, <4>2 DEF GroupLogCommit, CommitDeliveryRecord, Carries
    <3> HIDE DEF rest, q
    <3>5. DsTypeOK'
      <4>1. arrivals' \in [Clients -> Nat] /\ commit_inboxes' \in [Clients -> SUBSET CommitDeliveryRecord]
        BY SMTT(30), <3>1, <3>4 DEF DsTypeOK
      <4> QED
        BY Zenon, <3>1, <3>3, <4>1 DEF DsTypeOK
    <3>6. Carried'
      <4>1. \A x : Carries(x)' <=> Carries(x)
        BY Zenon, <3>1 DEF Carries
      <4>2. /\ \A x \in publishing' : Carries(x)
            /\ \A o \in Clients : \A x \in commit_inboxes'[o] : Carries(x)
        BY Zenon, <3>1, <3>3, <3>4 DEF Carried, DsTypeOK
      <4> QED
        BY SMTT(30), <3>1, <4>1, <4>2 DEF Carried, Carries
    <3>7. accepted' = accepted /\ Epoch' = Epoch
      BY Zenon, <3>1 DEF Epoch
    <3> QED
      BY Zenon, <3>5, <3>6, <3>7, <1>ServiceInv DEF ServiceStep
  <2> QED
    BY Zenon, <2>1, <2>3, <2>4, <2>5

\* A sequence with one more element begins with the shorter one.
<1>OneLonger.
    ASSUME NEW S, NEW n \in Nat, NEW h \in [1..n -> S], NEW k \in [1..(n + 1) -> S],
           \A e \in 1..n : h[e] = k[e]
    PROVE  Len(h) = n /\ Len(k) = n + 1 /\ SubSeq(k, 1, n) = h
    BY <1>OneLonger

\* The same in the next state.
<1>NextHistoryIs.
    ASSUME AcceptedOK', OneChain'
    PROVE  \A a \in accepted' : Outcome(AcceptedAt(a.epoch))' = Result(a.commit_bytes)
  <2> USE <1>NextHistoryIs
  <2>1. ASSUME NEW a \in accepted' PROVE Outcome(AcceptedAt(a.epoch))' = Result(a.commit_bytes)
    <3>1. AcceptedAt(a.epoch)' = a
      BY Zenon, ChosenByEpoch DEF AcceptedAt, OneChain
    <3> QED
      BY Zenon, <3>1 DEF Outcome, Result, AcceptedOK
  <2> QED
    BY Zenon, <2>1

\* The accepted commit is the next link of the chain.
<1>AcceptExtendsChain.
    ASSUME IInv, NEW c \in Clients, pending[c] # None, groups[G] # None,
           groups[G].current_epoch = group[c].epoch,
           NEW rec \in GroupLogCommit, rec.group_id = G, rec.epoch = Epoch + 1, rec.sender = c,
           rec.commit_bytes = pending[c], accepted' = accepted \cup {rec}, Epoch' = Epoch + 1, made' = made
    PROVE  AcceptedOK' /\ OneChain'
  <2> USE <1>AcceptExtendsChain
  <2> USE DEF IInv
  <2>1. /\ Epoch \in Nat /\ group[c].epoch = Epoch /\ group[c] # None
        /\ MadeBy(c, rec.commit_bytes, made[c].commits)
        /\ rec.commit_bytes.parent = group[c].sid
        /\ rec.commit_bytes.epoch = Epoch
        /\ rec.commit_bytes.roster = group[c].members
        /\ \A a \in accepted : a.commit_bytes.id = rec.commit_bytes.id => a.commit_bytes = rec.commit_bytes
    BY HistoryIs DEF Staged, Epoch
  <2>2. \A a \in accepted : a.epoch \in 1..Epoch /\ a.epoch = a.commit_bytes.epoch + 1
    BY Zenon DEF AcceptedOK
  <2>3. rec \notin accepted
    BY <2>1, <2>2
  <2>4. AcceptedOK'
    <3>1. Epoch' \in Nat
      BY <2>1
    <3>2. \A e \in 1..(Epoch + 1) : \E a \in accepted' : a.epoch = e
      <4> TAKE e \in 1..(Epoch + 1)
      <4>1. CASE e \in 1..Epoch
        BY Zenon, <4>1 DEF AcceptedOK
      <4>2. CASE e \notin 1..Epoch
        BY <2>1, <4>2
      <4> QED
        BY Zenon, <4>1, <4>2
    <3>3. ASSUME NEW a \in accepted'
          PROVE  /\ a.group_id = G /\ a.epoch \in 1..(Epoch + 1) /\ a.epoch = a.commit_bytes.epoch + 1
                 /\ MadeBy(a.sender, a.commit_bytes, made'[a.sender].commits)
      <4>1. CASE a \in accepted
        BY <2>1, <2>2, <4>1 DEF AcceptedOK
      <4>2. CASE a = rec
        BY <2>1, <4>2
      <4> QED
        BY Zenon, <4>1, <4>2
    <3> QED
      BY Zenon, <3>1, <3>2, <3>3 DEF AcceptedOK
  <2>5. ASSUME NEW b \in accepted, b.epoch = Epoch
        PROVE  rec.commit_bytes.parent = b.commit_bytes.id
               /\ rec.commit_bytes.roster = Result(b.commit_bytes).members
    <3>1. PICK a \in accepted : group[c] = Result(a.commit_bytes)
      BY <2>1, <2>2, <2>5 DEF OnHistory
    <3>2. a.epoch = Epoch
      BY <2>1, <2>2, <3>1 DEF Result
    <3>3. a = b
      BY <2>5, <3>2 DEF OneChain
    <3> QED
      BY <2>1, <3>1, <3>3 DEF Result
  <2>6. Epoch = 0 => rec.commit_bytes.parent = <<None, 0>>
    <3>1. Epoch = 0 => group[c] = NewGroup(c)
      BY Zenon, <2>1 DEF OneFounder, AtStart
    <3>2. NewGroup(c).sid = <<None, 0>>
      BY Zenon DEF NewGroup
    <3> QED
      BY Zenon, <2>1, <3>1, <3>2
  <2>7. \A a \in accepted : a.commit_bytes.id # rec.commit_bytes.id
    BY <2>1, <2>2
  <2>8. ASSUME NEW a \in accepted', NEW b \in accepted'
        PROVE  /\ a.epoch = b.epoch => a = b
               /\ a.commit_bytes.id = b.commit_bytes.id => a = b
               /\ a.epoch = b.epoch + 1 =>
                    /\ a.commit_bytes.parent = b.commit_bytes.id
                    /\ a.commit_bytes.roster = Result(b.commit_bytes).members
    <3>1. CASE a \in accepted /\ b \in accepted
      BY Zenon, <3>1 DEF OneChain
    <3>2. CASE a = rec /\ b \in accepted
      BY <2>1, <2>2, <2>5, <2>7, <3>2
    <3>3. CASE a \in accepted /\ b = rec
      BY <2>1, <2>2, <2>7, <3>3
    <3>4. CASE a = rec /\ b = rec
      BY <2>1, <3>4
    <3> QED
      BY Zenon, <3>1, <3>2, <3>3, <3>4
  <2>9. \A a \in accepted' : a.epoch = 1 => a.commit_bytes.parent = <<None, 0>>
    BY <2>1, <2>6 DEF OneChain
  <2>10. OneChain'
    BY Zenon, <2>8, <2>9 DEF OneChain, Result
  <2> QED
    BY Zenon, <2>4, <2>10

\* The accept step of publish_group_commit.
<1>SubmitAcceptedInv.
    ASSUME IInv, NEW c \in Clients, SubmitAccepted(c)
    PROVE  IInv' /\ HistoryStep
  <2> USE <1>SubmitAcceptedInv
  <2> USE DEF IInv
  <2> DEFINE rec == [group_id |-> G, epoch |-> group[c].epoch + 1, sender |-> c,
                     commit_bytes |-> pending[c], recipients |-> groups[G].members]
  <2>1. /\ pc[c] = "submit" /\ pending[c] # None /\ group[c] # None
        /\ groups[G] # None /\ groups[G].current_epoch = group[c].epoch
    BY Zenon DEF SubmitAccepted, AcceptCommit, CommitConflict, AtRequest
  <2>2. /\ groups[G] \in GroupState /\ group[c] \in MlsState /\ pending[c] \in MlsCommit
        /\ group[c].epoch = Epoch /\ Epoch \in Nat
    BY Zenon, <2>1, GroupOfRun, HistoryIs DEF DsTypeOK, ClientTypes, Epoch
  <2>3. /\ groups' = [groups EXCEPT ![G] = [groups[G] EXCEPT !.current_epoch = group[c].epoch + 1]]
        /\ publishing' = publishing \cup {rec}
        /\ accepted' = accepted \cup {rec}
        /\ UNCHANGED <<commit_inboxes, arrivals, group_commit_log, commit_cursors, handed, acked>>
    BY Zenon DEF SubmitAccepted, AcceptCommit, next_epoch
  <2>4. /\ pc' = [pc EXCEPT ![c] = "await"]
        /\ UNCHANGED <<mailVars, clientVars, queued_intent, intent, delivery, welcoming>>
    BY Zenon DEF SubmitAccepted, Goto
  <2>5. groups' = [groups EXCEPT ![G] = [current_epoch |-> Epoch + 1, members |-> groups[G].members]]
    BY Zenon, <2>2, <2>3, GroupStateUpdate
  <2>6. [current_epoch |-> Epoch + 1, members |-> groups[G].members] \in GroupState
    BY <2>2 DEF GroupState
  <2>7. Epoch' = Epoch + 1
    <3>1. groups'[G] = [current_epoch |-> Epoch + 1, members |-> groups[G].members]
      BY Zenon, <2>5, GroupOfRun DEF DsTypeOK
    <3> QED
      BY <2>6, <3>1, NoneIsNoValue DEF Epoch
  <2>8. /\ rec \in GroupLogCommit /\ rec.group_id = G /\ rec.epoch = Epoch + 1 /\ rec.sender = c
        /\ rec.commit_bytes = pending[c]
    <3>1. groups[G].members \in SUBSET Clients
      BY Zenon, <2>2 DEF GroupState
    <3> QED
      BY <2>2, <3>1, GroupOfRun DEF GroupLogCommit
  <2> HIDE DEF rec
  <2>9. AcceptedOK' /\ OneChain'
    BY Zenon, <2>1, <2>3, <2>4, <2>7, <2>8, <1>AcceptExtendsChain DEF clientVars
  <2>10. DsTypeOK'
    <3>1. groups' \in [Groups -> GroupState \cup {None}]
      BY Zenon, <2>5, <2>6, GroupOfRun DEF DsTypeOK
    <3>2. publishing' \subseteq GroupLogCommit /\ accepted' \subseteq GroupLogCommit
      BY Zenon, <2>3, <2>8 DEF DsTypeOK
    <3> QED
      BY Zenon, <2>3, <3>1, <3>2 DEF DsTypeOK
  <2>11. ClientTypes' /\ Remembered' /\ OwnKeys'
    BY Zenon, <2>4 DEF ClientTypes, Remembered, OwnKeys, clientVars, mailVars
  <2>12. WorkerTypes'
    BY Zenon, <2>4 DEF WorkerTypes, Labels
  <2>13. AtRequest'
    BY Zenon, <2>1, <2>4 DEF AtRequest, WorkerTypes, clientVars
  <2>14. Released'
    BY Zenon, <2>3, <2>4, <1>ReleasedFrame DEF mailVars
  <2>15. Carried'
    BY SMTT(30), <2>3 DEF Carried, Carries
  <2>16. Staged'
    <3> SUFFICES ASSUME NEW o \in Clients, pending'[o] # None
                 PROVE  /\ group'[o] # None
                        /\ MadeBy(o, pending'[o], made'[o].commits)
                        /\ pending'[o].parent = group'[o].sid
                        /\ pending'[o].epoch = group'[o].epoch
                        /\ pending'[o].roster = group'[o].members
                        /\ pending_bytes'[o] # None /\ pending_bytes'[o].commit = pending'[o]
                        /\ \A a \in accepted' : a.commit_bytes.id = pending'[o].id => a.commit_bytes = pending'[o]
      BY Zenon DEF Staged
    <3>1. pending[c].id[1] = c /\ pending[o].id[1] = o
      BY Zenon, <2>1, <2>4 DEF Staged, MadeBy, clientVars
    <3>2. \A a \in accepted' : a.commit_bytes.id = pending[o].id => a.commit_bytes = pending[o]
      BY <2>3, <2>4, <2>8, <3>1 DEF Staged, clientVars
    <3> QED
      BY Zenon, <2>4, <3>2 DEF Staged, clientVars
  <2>17. OnHistory'
    BY Zenon, <2>3, <2>4 DEF OnHistory, Result, clientVars
  <2>18. OneFounder'
    <3> SUFFICES ASSUME NEW o \in Clients, AtStart(o)
                 PROVE  /\ group[o] = NewGroup(o)
                        /\ \A x \in Clients : AtStart(x) => x = o
                        /\ \A a \in accepted' : a.epoch = 1 => a.commit_bytes.roster = {o}
      BY Zenon, <2>4 DEF OneFounder, AtStart, clientVars, NewGroup
    <3>1. Epoch = 0 => c = o /\ pending[c].roster = {c}
      <4>1. Epoch = 0 => c = o /\ group[c] = NewGroup(c)
        BY Zenon, <2>1, <2>2 DEF OneFounder, AtStart
      <4>2. NewGroup(c).members = {c} /\ pending[c].roster = group[c].members
        BY Zenon, <2>1 DEF NewGroup, Staged
      <4> QED
        BY Zenon, <4>1, <4>2
    <3>2. \A a \in accepted' : a.epoch = 1 => a.commit_bytes.roster = {o}
      BY <2>2, <2>3, <2>8, <3>1 DEF OneFounder
    <3> QED
      BY Zenon, <3>2 DEF OneFounder
  <2>19. HistoryStep
    <3> DEFINE f == [e \in 1..Epoch |-> Outcome(AcceptedAt(e))]
               g == [e \in 1..(Epoch + 1) |-> Outcome(AcceptedAt(e))']
    <3>1. Epoch' = Epoch + 1
      BY Zenon, <2>7
    <3>2. \A e \in 1..Epoch : f[e] = g[e]
      <4> TAKE e \in 1..Epoch
      <4>1. PICK a \in accepted : a.epoch = e
        BY Zenon DEF AcceptedOK
      <4>2. f[e] = Result(a.commit_bytes)
        BY Zenon, <4>1, HistoryIs
      <4>3. g[e] = Result(a.commit_bytes)
        BY <2>2, <2>3, <2>9, <4>1, <1>NextHistoryIs
      <4> QED
        BY Zenon, <4>2, <4>3
    <3>3. g[Epoch + 1] = Result(pending[c])
      BY <2>2, <2>3, <2>8, <2>9, <1>NextHistoryIs
    <3>4. Epoch # 0 => group[c] = f[Epoch]
      <4>1. SUFFICES ASSUME Epoch # 0 PROVE group[c] = f[Epoch]
        OBVIOUS
      <4>2. PICK a \in accepted : group[c] = Result(a.commit_bytes)
        BY Zenon, <2>1, <2>2, <4>1 DEF OnHistory
      <4>3. a.epoch = Epoch
        BY SMTT(30), <2>2, <4>2 DEF AcceptedOK, Result
      <4> QED
        BY <2>2, <4>1, <4>2, <4>3, HistoryIs
    <3>5. pending[c].epoch = Epoch /\ c \in Result(pending[c]).members
      BY Zenon, <2>1, <2>2 DEF Staged, MadeBy, Result
    <3>6. Result(pending[c]).epoch = Epoch + 1
      BY Zenon, <3>5 DEF Result
    <3>7. Len(f) = Epoch /\ Len(g) = Epoch + 1 /\ SubSeq(g, 1, Epoch) = f
      <4>1. f \in [1..Epoch -> MlsState]
        <5> SUFFICES ASSUME NEW e \in 1..Epoch PROVE Outcome(AcceptedAt(e)) \in MlsState
          OBVIOUS
        <5>1. PICK a \in accepted : a.epoch = e
          BY Zenon DEF AcceptedOK
        <5>2. a.commit_bytes \in MlsCommit
          BY Zenon DEF AcceptedOK, MadeBy
        <5> QED
          BY Zenon, <5>1, <5>2, HistoryIs, ResultType
      <4>2. g \in [1..(Epoch + 1) -> MlsState]
        <5> SUFFICES ASSUME NEW e \in 1..(Epoch + 1) PROVE g[e] \in MlsState
          OBVIOUS
        <5>1. CASE e \in 1..Epoch
          BY Zenon, <3>2, <4>1, <5>1
        <5>2. CASE e \notin 1..Epoch
          <6>1. e = Epoch + 1
            BY <2>2, <5>2
          <6> HIDE DEF g
          <6> QED
            BY Zenon, <2>2, <3>3, <6>1, ResultType
        <5> QED
          BY Zenon, <5>1, <5>2
      <4> HIDE DEF f, g
      <4> QED
        BY <2>2, <3>2, <4>1, <4>2, <1>OneLonger
    <3>8. Epoch = 0 => f = <<>>
      OBVIOUS
    <3>9. /\ f = [e \in 1..Epoch |-> Outcome(AcceptedAt(e))]
          /\ g = [e \in 1..Epoch |-> Outcome(AcceptedAt(e))]'
      BY Zenon, <3>1
    <3> HIDE DEF f, g
    <3>10. History!Extend(c)
      BY Zenon, <2>1, <2>2, <2>4, <3>3, <3>4, <3>5, <3>6, <3>7, <3>8, <3>9
         DEF History!Extend, History!AtEnd, clientVars
    <3> QED
      BY Zenon, <3>10 DEF HistoryStep, History!HistoryNext
  <2> QED
    BY Zenon, <2>9, <2>10, <2>11, <2>12, <2>13, <2>14, <2>15, <2>16, <2>17, <2>18, <2>19

\* A client that moves to the state of an accepted commit, or drops its state,
\* is on the history.
<1>MoveInv.
    ASSUME ClientTypes, AcceptedOK, OneFounder, OnHistory, accepted' = accepted, NEW c \in Clients,
           \/ group' = [group EXCEPT ![c] = None]
           \/ \E a \in accepted : /\ c \in Result(a.commit_bytes).members
                                  /\ group' = [group EXCEPT ![c] = Result(a.commit_bytes)]
    PROVE  OneFounder' /\ OnHistory' /\ group' \in [Clients -> MlsState \cup {None}]
  <2> USE <1>MoveInv
  <2>1. CASE group' = [group EXCEPT ![c] = None]
    BY ZenonT(30), <2>1 DEF ClientTypes, OneFounder, OnHistory, AtStart, NewGroup, Result
  <2>2. ASSUME NEW a \in accepted, c \in Result(a.commit_bytes).members,
               group' = [group EXCEPT ![c] = Result(a.commit_bytes)]
        PROVE  OneFounder' /\ OnHistory' /\ group' \in [Clients -> MlsState \cup {None}]
    <3> DEFINE st == Result(a.commit_bytes)
    <3>1. a.commit_bytes \in MlsCommit
      BY Zenon DEF AcceptedOK, MadeBy
    <3>2. st \in MlsState /\ st.epoch # 0
      BY SMTT(30), <3>1, ResultType DEF Result, MlsCommit
    <3>3. group' \in [Clients -> MlsState \cup {None}]
      BY Zenon, <2>2, <3>2 DEF ClientTypes
    <3>4. OnHistory'
      <4> SUFFICES ASSUME NEW o \in Clients, group'[o] # None
                   PROVE  /\ o \in group'[o].members
                          /\ group'[o].epoch # 0 => \E b \in accepted : group'[o] = Result(b.commit_bytes)
        BY Zenon DEF OnHistory, Result
      <4> HIDE DEF st
      <4>1. CASE o = c
        BY Zenon, <2>2, <4>1 DEF ClientTypes
      <4>2. CASE o # c
        BY Zenon, <2>2, <4>2 DEF ClientTypes, OnHistory
      <4> QED
        BY Zenon, <4>1, <4>2
    <3>5. OneFounder'
      <4>1. \A o \in Clients : AtStart(o)' => AtStart(o) /\ o # c /\ group'[o] = group[o]
        <5> HIDE DEF st
        <5> QED
          BY Zenon, <2>2, <3>2 DEF ClientTypes, AtStart, st
      <4> QED
        BY Zenon, <4>1 DEF OneFounder, NewGroup
    <3> QED
      BY Zenon, <3>3, <3>4, <3>5
  <2> QED
    BY Zenon, <2>1, <2>2

\* The abstract history, read at the epoch of an accepted commit.
<1>HistoryAt.
    ASSUME AcceptedOK, OneChain, NEW a \in accepted
    PROVE  LET h == [e \in 1..Epoch |-> Outcome(AcceptedAt(e))]
           IN  /\ Len(h) = Epoch /\ Epoch \in Nat
               /\ a.epoch \in 1..Epoch
               /\ h[a.epoch] = Result(a.commit_bytes)
  <2> USE <1>HistoryAt
  <2> DEFINE h == [e \in 1..Epoch |-> Outcome(AcceptedAt(e))]
  <2>1. Epoch \in Nat /\ a.epoch \in 1..Epoch
    BY Zenon, HistoryIs DEF AcceptedOK
  <2>2. h[a.epoch] = Result(a.commit_bytes)
    BY Zenon, <2>1, HistoryIs
  <2>3. Len(h) = Epoch
    BY <2>1
  <2> QED
    BY Zenon, <2>1, <2>2, <2>3

\* Dropping a state is a step of the history, or none.
<1>LeaveStep.
    ASSUME ClientTypes, NEW c \in Clients, accepted' = accepted, Epoch' = Epoch,
           group' = [group EXCEPT ![c] = None]
    PROVE  HistoryStep
  <2> USE <1>LeaveStep
  <2>1. CASE group[c] = None
    <3>1. group' = group
      BY Zenon, <2>1 DEF ClientTypes
    <3> QED
      BY Zenon, <3>1, <1>StutterStep
  <2>2. CASE group[c] # None
    <3>1. History!Leave(c)
      BY Zenon, <2>2 DEF History!Leave, Outcome, AcceptedAt
    <3> QED
      BY Zenon, <3>1 DEF HistoryStep, History!HistoryNext
  <2> QED
    BY Zenon, <2>1, <2>2

\* Applying the next commit is a step along the history.
<1>AdvanceStep.
    ASSUME ClientTypes, AcceptedOK, OneChain, NEW c \in Clients, group[c] # None,
           NEW a \in accepted, a.epoch = group[c].epoch + 1, c \in Result(a.commit_bytes).members,
           accepted' = accepted, Epoch' = Epoch, group' = [group EXCEPT ![c] = Result(a.commit_bytes)]
    PROVE  HistoryStep
  <2> USE <1>AdvanceStep
  <2> DEFINE h == [e \in 1..Epoch |-> Outcome(AcceptedAt(e))]
  <2>1. /\ Len(h) = Epoch /\ Epoch \in Nat /\ a.epoch \in 1..Epoch
        /\ h[a.epoch] = Result(a.commit_bytes)
    BY Zenon, <1>HistoryAt
  <2>2. h' = h
    BY Zenon DEF Outcome, AcceptedAt
  <2>3. group[c].epoch \in Nat
    BY Zenon DEF ClientTypes, MlsState
  <2> HIDE DEF h
  <2>4. group[c].epoch < Len(h)
    BY <2>1, <2>3
  <2>5. History!Advance(c)
    <3>1. /\ c \in h[group[c].epoch + 1].members
          /\ group' = [group EXCEPT ![c] = h[group[c].epoch + 1]]
      BY Zenon, <2>1
    <3> QED
      BY Zenon, <2>2, <2>4, <3>1 DEF History!Advance, h
  <2> QED
    BY Zenon, <2>5 DEF HistoryStep, History!HistoryNext

\* Joining at a state that adds the client enters the history.
<1>EnterStep.
    ASSUME ClientTypes, AcceptedOK, OneChain, NEW c \in Clients,
           NEW a \in accepted, c \in Result(a.commit_bytes).members, c \notin a.commit_bytes.roster,
           accepted' = accepted, Epoch' = Epoch, group' = [group EXCEPT ![c] = Result(a.commit_bytes)]
    PROVE  HistoryStep
  <2> USE <1>EnterStep
  <2> DEFINE h == [e \in 1..Epoch |-> Outcome(AcceptedAt(e))]
  <2>1. /\ Len(h) = Epoch /\ Epoch \in Nat /\ a.epoch \in 1..Epoch
        /\ h[a.epoch] = Result(a.commit_bytes)
    BY Zenon, <1>HistoryAt
  <2>2. h' = h
    BY Zenon DEF Outcome, AcceptedAt
  <2>3. a.epoch > 1 => c \notin h[a.epoch - 1].members
    <3>1. SUFFICES ASSUME a.epoch > 1 PROVE c \notin h[a.epoch - 1].members
      OBVIOUS
    <3>2. a.epoch - 1 \in 1..Epoch
      BY <2>1, <3>1
    <3>3. PICK b \in accepted : b.epoch = a.epoch - 1
      BY Zenon, <3>2 DEF AcceptedOK
    <3>4. h[b.epoch] = Result(b.commit_bytes)
      BY Zenon, <1>HistoryAt
    <3>5. a.epoch = b.epoch + 1
      BY <2>1, <3>3
    <3>6. a.commit_bytes.roster = Result(b.commit_bytes).members
      BY Zenon, <3>5 DEF OneChain
    <3> HIDE DEF h
    <3> QED
      BY Zenon, <3>3, <3>4, <3>6
  <2> HIDE DEF h
  <2>4. History!Enter(c)
    <3>1. \E e \in 1..Len(h) : /\ c \in h[e].members
                               /\ e > 1 => c \notin h[e - 1].members
                               /\ group' = [group EXCEPT ![c] = h[e]]
      BY Zenon, <2>1, <2>3
    <3> QED
      BY Zenon, <2>2, <3>1 DEF History!Enter, h
  <2> QED
    BY Zenon, <2>4 DEF HistoryStep, History!HistoryNext

\* The own commit comes back.
<1>ApplyOwnInv.
    ASSUME IInv, NEW c \in Clients, group[c] # None, pc[c] = "idle",
           NEW d \in Delivery, Carries(d), ApplyOwn(c, d), UNCHANGED <<mailVars, made, intent>>,
           DsTypeOK', Carried', accepted' = accepted, Epoch' = Epoch
    PROVE  IInv' /\ HistoryStep
  <2> USE <1>ApplyOwnInv
  <2> USE DEF IInv
  <2>1. PICK a \in accepted : d.commit_bytes = a.commit_bytes
    BY Zenon DEF Carries
  <2>2. /\ pending_bytes[c] \in PendingBytes /\ pending_bytes[c].commit = a.commit_bytes
        /\ pending_bytes[c].welcome \in {None, WelcomeFor(a.commit_bytes)}
    BY Zenon, <2>1 DEF ApplyOwn, IsOwnPending, ClientTypes, Remembered
  <2>3. AcceptedOK' /\ OneChain'
    BY Zenon, <1>ChainFrame, <1>NoneMade
  <2>4. /\ pending' = [pending EXCEPT ![c] = None]
        /\ pending_bytes' = [pending_bytes EXCEPT ![c] = None]
        /\ delivery' = [delivery EXCEPT ![c] = d]
        /\ UNCHANGED <<keys, queued_intent>>
    BY Zenon DEF ApplyOwn
  <2>5. /\ OneFounder' /\ OnHistory' /\ group' \in [Clients -> MlsState \cup {None}] /\ HistoryStep
        /\ group'[c] # None /\ \A o \in Clients \ {c} : group'[o] = group[o]
    <3>1. CASE pending[c] = None
      <4>1. group' = group
        BY Zenon, <3>1 DEF ApplyOwn, ClientTypes
      <4>2. OneFounder' /\ OnHistory'
        BY Zenon, <4>1 DEF OneFounder, OnHistory, AtStart, NewGroup, Result
      <4> QED
        BY Zenon, <4>1, <4>2, <1>StutterStep DEF ClientTypes
    <3>2. CASE pending[c] # None
      <4>1. /\ pending[c] = a.commit_bytes /\ a.commit_bytes.parent = group[c].sid
            /\ MadeBy(c, a.commit_bytes, made[c].commits)
        BY Zenon, <2>2, <3>2 DEF Staged
      <4>2. /\ a.epoch = group[c].epoch + 1
            /\ Merged(group[c], a.commit_bytes) = Result(a.commit_bytes)
        BY Zenon, <4>1, ParentLink
      <4>3. group' = [group EXCEPT ![c] = Result(a.commit_bytes)]
        BY Zenon, <3>2, <4>1, <4>2 DEF ApplyOwn
      <4>4. c \in Result(a.commit_bytes).members
        BY Zenon, <4>1 DEF MadeBy, Result
      <4>5. Result(a.commit_bytes) # None
        BY Zenon, <4>1, ResultType, NoneIsNoValue DEF MadeBy
      <4>6. OneFounder' /\ OnHistory' /\ group' \in [Clients -> MlsState \cup {None}]
        BY Zenon, <4>3, <4>4, <1>MoveInv
      <4>7. HistoryStep
        BY Zenon, <4>2, <4>3, <4>4, <1>AdvanceStep
      <4> QED
        BY Zenon, <4>3, <4>5, <4>6, <4>7 DEF ClientTypes
    <3> QED
      BY Zenon, <3>1, <3>2
  <2>6. ClientTypes'
    BY Zenon, <2>4, <2>5 DEF ClientTypes, mailVars
  <2>7. Staged' /\ Remembered' /\ OwnKeys'
    BY <2>4, <2>5 DEF Staged, Remembered, OwnKeys, ClientTypes
  <2> DEFINE w == [welcome |-> pending_bytes[c].welcome, to |-> Added(d.commit_bytes.adds)]
  <2>8. /\ pending_bytes[c].welcome # None => w \in Welcoming /\ w # None /\ IsReleased(w.welcome)
        /\ w.welcome = pending_bytes[c].welcome
    <3>1. d.commit_bytes \in MlsCommit
      BY Zenon DEF Delivery
    <3>2. Added(d.commit_bytes.adds) \subseteq Clients
      BY Zenon, <3>1 DEF Added, MlsCommit, KeyPackage
    <3>3. pending_bytes[c].welcome # None => w \in Welcoming
      BY Zenon, <2>2, <3>2 DEF Welcoming, PendingBytes
    <3>4. pending_bytes[c].welcome # None => IsReleased(w.welcome)
      BY Zenon, <2>2 DEF IsReleased
    <3> QED
      BY Zenon, <3>3, <3>4, NoneIsNoValue
  <2>9. /\ welcoming' = [welcoming EXCEPT ![c] = IF pending_bytes[c].welcome = None THEN None ELSE w]
        /\ pc' = [pc EXCEPT ![c] = IF pending_bytes[c].welcome = None THEN "put_own" ELSE "welcome"]
    BY Zenon DEF ApplyOwn, Goto
  <2> HIDE DEF w
  <2>10. WorkerTypes'
    BY Zenon, <2>4, <2>8, <2>9 DEF WorkerTypes, Labels
  <2>11. AtRequest'
    <3>1. d # None /\ intent[c] = None
      BY Zenon, NoneIsNoValue DEF AtRequest
    <3> SUFFICES ASSUME NEW o \in Clients
                 PROVE  /\ (pc'[o] \in {"submit", "await"}) <=> (intent'[o] # None)
                        /\ pc'[o] \in {"submit", "await"} => pending'[o] # None
                        /\ pc'[o] \in {"welcome", "put_own", "put_external", "ack"} => delivery'[o] # None
                        /\ pc'[o] \notin {"idle", "ack"} => group'[o] # None
                        /\ pc'[o] = "welcome" => welcoming'[o] # None
      BY Zenon DEF AtRequest
    <3>2. CASE o = c
      BY Zenon, <2>4, <2>5, <2>8, <2>9, <3>1, <3>2 DEF WorkerTypes
    <3>3. CASE o # c
      BY Zenon, <2>4, <2>5, <2>9, <3>3 DEF AtRequest, WorkerTypes, ClientTypes
    <3> QED
      BY Zenon, <3>2, <3>3
  <2>12. Released'
    <3>1. \A x : IsReleased(x)' <=> IsReleased(x)
      BY Zenon DEF IsReleased
    <3>2. \A o \in Clients : welcoming'[o] # None => IsReleased(welcoming'[o].welcome)
      BY Zenon, <2>8, <2>9 DEF Released, WorkerTypes
    <3> QED
      BY Zenon, <3>1, <3>2 DEF Released, IsReleased, mailVars
  <2> QED
    BY Zenon, <2>3, <2>5, <2>6, <2>7, <2>10, <2>11, <2>12

\* A commit of another member is applied, or removes the client.
<1>ApplyExternalInv.
    ASSUME IInv, NEW c \in Clients, pc[c] = "idle",
           NEW d \in Delivery, Carries(d), ApplyExternal(c, d), UNCHANGED <<mailVars, made, intent>>,
           DsTypeOK', Carried', accepted' = accepted, Epoch' = Epoch
    PROVE  IInv' /\ HistoryStep
  <2> USE <1>ApplyExternalInv
  <2> USE DEF IInv
  <2>1. PICK a \in accepted : d.commit_bytes = a.commit_bytes
    BY Zenon DEF Carries
  <2>2. group[c] # None /\ a.commit_bytes.parent = group[c].sid
    BY Zenon, <2>1 DEF ApplyExternal, CanProcess
  <2>3. /\ a.epoch = group[c].epoch + 1
        /\ Merged(group[c], d.commit_bytes) = Result(a.commit_bytes)
    BY Zenon, <2>1, <2>2, ParentLink
  <2>4. AcceptedOK' /\ OneChain'
    BY ZenonT(30), <1>ChainFrame, <1>NoneMade
  <2>5. Result(a.commit_bytes) # None /\ d # None /\ intent[c] = None
    BY ResultType, NoneIsNoValue DEF AcceptedOK, MadeBy, AtRequest
  <2>6. pending' = [pending EXCEPT ![c] = None] /\ welcoming' = welcoming
    BY Zenon DEF ApplyExternal
  <2>7. Released'
    BY Zenon, <2>6, <1>ReleasedFrame DEF mailVars
  <2>8. CASE c \in Result(a.commit_bytes).members
    <3>1. /\ group' = [group EXCEPT ![c] = Result(a.commit_bytes)]
          /\ delivery' = [delivery EXCEPT ![c] = d]
          /\ pc' = [pc EXCEPT ![c] = "put_external"]
          /\ UNCHANGED <<pending_bytes, keys, queued_intent>>
      BY Zenon, <2>3, <2>8 DEF ApplyExternal, Goto
    <3>2. OneFounder' /\ OnHistory' /\ group' \in [Clients -> MlsState \cup {None}]
      BY Zenon, <2>8, <3>1, <1>MoveInv
    <3>3. HistoryStep
      BY Zenon, <2>2, <2>3, <2>8, <3>1, <1>AdvanceStep
    <3>4. ClientTypes'
      BY Zenon, <2>6, <3>1, <3>2 DEF ClientTypes, mailVars
    <3>5. WorkerTypes'
      BY Zenon, <2>6, <3>1 DEF WorkerTypes, Labels
    <3>6. AtRequest'
      BY Zenon, <2>5, <2>6, <3>1 DEF AtRequest, WorkerTypes, ClientTypes
    <3>7. Staged' /\ Remembered' /\ OwnKeys'
      BY ZenonT(30), <2>6, <3>1 DEF Staged, Remembered, OwnKeys, ClientTypes
    <3> QED
      BY Zenon, <2>4, <2>7, <3>2, <3>3, <3>4, <3>5, <3>6, <3>7
  <2>9. CASE c \notin Result(a.commit_bytes).members
    <3>1. /\ group' = [group EXCEPT ![c] = None]
          /\ pending_bytes' = [pending_bytes EXCEPT ![c] = None]
          /\ keys' = [keys EXCEPT ![c] = {}]
          /\ queued_intent' = [queued_intent EXCEPT ![c] = None]
          /\ \/ /\ delivery' = [delivery EXCEPT ![c] = None]
                /\ pc' = [pc EXCEPT ![c] = "idle"]
             \/ /\ delivery' = [delivery EXCEPT ![c] = d]
                /\ pc' = [pc EXCEPT ![c] = "ack"]
      BY Zenon, <2>3, <2>9 DEF ApplyExternal, Goto
    <3>2. OneFounder' /\ OnHistory' /\ group' \in [Clients -> MlsState \cup {None}]
      BY Zenon, <3>1, <1>MoveInv
    <3>3. HistoryStep
      BY Zenon, <3>1, <1>LeaveStep
    <3>4. ClientTypes'
      BY Zenon, <2>6, <3>1, <3>2 DEF ClientTypes, mailVars
    <3>5. WorkerTypes'
      BY ZenonT(30), <2>6, <3>1 DEF WorkerTypes, Labels
    <3>6. AtRequest'
      BY SMTT(30), <2>5, <2>6, <3>1 DEF AtRequest, WorkerTypes, ClientTypes
    <3>7. Staged' /\ Remembered' /\ OwnKeys'
      BY ZenonT(30), <2>6, <3>1 DEF Staged, Remembered, OwnKeys, ClientTypes
    <3> QED
      BY Zenon, <2>4, <2>7, <3>2, <3>3, <3>4, <3>5, <3>6, <3>7
  <2> QED
    BY Zenon, <2>8, <2>9

\* The fetch of a commit changes nothing but what the client was handed.
<1>HandOutKeepsService.
    ASSUME DsTypeOK, Carried, NEW c \in Clients, NEW d, HandOut(c, d)
    PROVE  /\ DsTypeOK' /\ Carried' /\ accepted' = accepted /\ Epoch' = Epoch
           /\ d \in Delivery /\ Carries(d)
  <2> USE <1>HandOutKeepsService
  <2>1. d \in CommitDelivery /\ Carries(d)
    BY Zenon, Fetched DEF HandOut
  <2>2. /\ handed' = [handed EXCEPT ![c] = @ \cup {d}]
        /\ UNCHANGED <<groups, commit_inboxes, arrivals, group_commit_log, commit_cursors, publishing,
                       accepted, acked>>
    BY Zenon DEF HandOut
  <2>3. handed' \in [Clients -> SUBSET CommitDelivery]
    BY Zenon, <2>1, <2>2 DEF DsTypeOK
  <2>4. DsTypeOK'
    BY Zenon, <2>2, <2>3 DEF DsTypeOK
  <2> QED
    BY Zenon, <2>1, <2>2, <2>4, CarriedFrame, FetchedType DEF Epoch

\* ReceiveCommit: the fetched commit is skipped, applied, or fails the command.
<1>ReceiveCommitInv.
    ASSUME IInv, NEW c \in Clients, ReceiveCommit(c)
    PROVE  IInv' /\ HistoryStep
  <2> USE <1>ReceiveCommitInv
  <2>1. PICK d : /\ HandOut(c, d)
                 /\ IF group[c].epoch >= d.epoch
                    THEN /\ Goto(c, "ack")
                         /\ delivery' = [delivery EXCEPT ![c] = d]
                         /\ UNCHANGED <<group, pending, pending_bytes, keys, queued_intent, welcoming>>
                    ELSE \/ ApplyOwn(c, d)
                         \/ ApplyExternal(c, d)
                         \/ UNCHANGED <<group, pending, pending_bytes, keys, queued_intent,
                                        delivery, welcoming, pc>>
    BY Zenon DEF ReceiveCommit
  <2>2. pc[c] = "idle" /\ group[c] # None /\ UNCHANGED <<mailVars, made, intent>>
    BY Zenon DEF ReceiveCommit
  <2>3. /\ DsTypeOK' /\ Carried' /\ accepted' = accepted /\ Epoch' = Epoch
        /\ d \in Delivery /\ Carries(d)
    BY Zenon, <2>1, <1>HandOutKeepsService DEF IInv
  <2>4. CASE ApplyOwn(c, d)
    BY Zenon, <2>2, <2>3, <2>4, <1>ApplyOwnInv
  <2>5. CASE ApplyExternal(c, d)
    BY Zenon, <2>2, <2>3, <2>5, <1>ApplyExternalInv
  <2>6. CASE UNCHANGED <<group, pending, pending_bytes, keys, queued_intent, delivery, welcoming, pc>>
    BY Zenon, <2>2, <2>3, <2>6, <1>ServiceInv DEF clientVars, workerVars
  <2>7. CASE /\ Goto(c, "ack")
             /\ delivery' = [delivery EXCEPT ![c] = d]
             /\ UNCHANGED <<group, pending, pending_bytes, keys, queued_intent, welcoming>>
    <3> USE DEF IInv
    <3>1. AcceptedOK' /\ OneChain'
      BY Zenon, <2>2, <2>3, <1>ChainFrame, <1>NoneMade
    <3>2. ClientTypes' /\ OneFounder' /\ OnHistory' /\ Staged' /\ Remembered' /\ OwnKeys'
      <4>1. /\ welcome_inboxes' \in [Clients -> Seq(Welcome)]
            /\ key_packages' \in [Clients -> KeyPackage \cup {None}]
            /\ UNCHANGED clientVars
        BY Zenon, <2>2, <2>7 DEF ClientTypes, mailVars, clientVars
      <4> QED
        BY Zenon, <2>3, <4>1, <1>ClientFrame
    <3>3. WorkerTypes'
      BY Zenon, <2>2, <2>3, <2>7 DEF WorkerTypes, Labels, Goto
    <3>4. AtRequest'
      <4>1. d # None
        BY Zenon, <2>3, NoneIsNoValue
      <4> QED
        BY Zenon, <2>2, <2>7, <4>1 DEF AtRequest, WorkerTypes, Goto
    <3>5. Released'
      BY Zenon, <2>2, <2>3, <2>7, <1>ReleasedFrame DEF mailVars
    <3> QED
      BY Zenon, <2>3, <2>7, <3>1, <3>2, <3>3, <3>4, <3>5, <1>StutterStep
  <2> QED
    BY Zenon, <2>1, <2>4, <2>5, <2>6, <2>7

\* ProcessPending: the next log entry is applied.
<1>ProcessPendingInv.
    ASSUME IInv, NEW c \in Clients, ProcessPending(c)
    PROVE  IInv' /\ HistoryStep
  <2> USE <1>ProcessPendingInv
  <2>1. PICK rec \in fetch_pending_commits(c, group[c].epoch) :
          LET d == [AsDelivery(rec, c) EXCEPT !.id = None] IN ApplyOwn(c, d) \/ ApplyExternal(c, d)
    BY Zenon DEF ProcessPending
  <2>2. PICK d : d = [AsDelivery(rec, c) EXCEPT !.id = None]
    BY Zenon
  <2>3. ApplyOwn(c, d) \/ ApplyExternal(c, d)
    BY Zenon, <2>1, <2>2
  <2>4. /\ pc[c] = "idle" /\ group[c] # None
        /\ UNCHANGED <<serviceVars, mailVars, made, intent>>
    BY Zenon DEF ProcessPending
  <2>5. d \in Delivery /\ Carries(d)
    BY Zenon, <2>2, FetchedPending DEF IInv
  <2>6. DsTypeOK' /\ Carried' /\ accepted' = accepted /\ Epoch' = Epoch
    BY Zenon, <2>4, QuietService
  <2> QED
    BY Zenon, <2>3, <2>4, <2>5, <2>6, <1>ApplyOwnInv, <1>ApplyExternalInv

\* JoinFromWelcome: the client enters the state it is welcomed to, or is left
\* with none.
<1>JoinFromWelcomeInv.
    ASSUME IInv, NEW c \in Clients, JoinFromWelcome(c)
    PROVE  IInv' /\ HistoryStep
  <2> USE <1>JoinFromWelcomeInv
  <2> USE DEF IInv
  <2> DEFINE w == Head(welcome_inboxes[c])
  <2>1. /\ welcome_inboxes[c] # <<>> /\ pc[c] = "idle"
        /\ welcome_inboxes' = [welcome_inboxes EXCEPT ![c] = Tail(@)]
        /\ UNCHANGED <<serviceVars, key_packages, made, workerVars>>
    BY Zenon DEF JoinFromWelcome
  <2>2. welcome_inboxes[c] \in Seq(Welcome) /\ w = welcome_inboxes[c][1] /\ 1 \in 1..Len(welcome_inboxes[c])
    BY SMTT(30), <2>1 DEF ClientTypes
  <2>3. DsTypeOK' /\ AcceptedOK' /\ OneChain' /\ Carried' /\ accepted' = accepted /\ Epoch' = Epoch
    BY Zenon, <2>1, <1>ServiceFrame, <1>NoneMade
  <2>4. WorkerTypes'
    BY Zenon, <2>1 DEF WorkerTypes, workerVars
  <2>5. welcome_inboxes' \in [Clients -> Seq(Welcome)]
    BY <2>1, <2>2 DEF ClientTypes
  <2>6. Released'
    <3>1. \A x : IsReleased(x)' <=> IsReleased(x)
      BY Zenon, <2>3 DEF IsReleased
    <3>2. ASSUME NEW o \in Clients, NEW i \in 1..Len(welcome_inboxes'[o])
          PROVE  IsReleased(welcome_inboxes'[o][i])
      <4>1. CASE o # c
        BY Zenon, <2>1, <3>2, <4>1 DEF Released, ClientTypes
      <4>2. CASE o = c
        <5>1. welcome_inboxes'[c] = Tail(welcome_inboxes[c])
          BY Zenon, <2>1 DEF ClientTypes
        <5>2. i + 1 \in 1..Len(welcome_inboxes[c]) /\ welcome_inboxes'[c][i] = welcome_inboxes[c][i + 1]
          <6>1. i \in 1..Len(Tail(welcome_inboxes[c]))
            BY Zenon, <3>2, <4>2, <5>1
          <6> QED
            BY Zenon, <2>1, <2>2, <5>1, <6>1, TailAt
        <5> QED
          BY Zenon, <4>2, <5>2 DEF Released
      <4> QED
        BY Zenon, <4>1, <4>2
    <3> QED
      BY Zenon, <2>1, <3>1, <3>2 DEF Released, IsReleased, workerVars
  <2>7. CASE UNCHANGED <<group, keys, pending, pending_bytes>>
    <3>1. ClientTypes' /\ OneFounder' /\ OnHistory' /\ Staged' /\ Remembered' /\ OwnKeys'
      <4>1. key_packages' \in [Clients -> KeyPackage \cup {None}] /\ UNCHANGED clientVars
        BY Zenon, <2>1, <2>7 DEF ClientTypes, clientVars
      <4> QED
        BY Zenon, <2>3, <2>5, <4>1, <1>ClientFrame
    <3>2. AtRequest'
      BY Zenon, <2>1, <2>7 DEF AtRequest, workerVars
    <3> QED
      BY Zenon, <2>3, <2>4, <2>6, <2>7, <3>1, <3>2, <1>StutterStep
  <2>8. CASE /\ group' = [group EXCEPT ![c] = IF w.adds \cap keys[c] = {} THEN None ELSE w.state]
             /\ keys' = [keys EXCEPT ![c] = @ \ w.adds]
             /\ pending' = [pending EXCEPT ![c] = None]
             /\ pending_bytes' = [pending_bytes EXCEPT ![c] = None]
    <3>1. PICK a \in accepted : w = WelcomeFor(a.commit_bytes)
      BY Zenon, <2>2 DEF Released, IsReleased
    <3>2. w.state = Result(a.commit_bytes) /\ w.adds = a.commit_bytes.adds
      BY SMTT(30), <3>1 DEF WelcomeFor
    <3>3. w.adds \cap keys[c] # {} =>
            c \in Result(a.commit_bytes).members /\ c \notin a.commit_bytes.roster
      <4>1. w.adds \cap keys[c] # {} => c \in Added(a.commit_bytes.adds)
        BY Zenon, <3>2 DEF OwnKeys, Added
      <4> QED
        BY Zenon, <4>1 DEF AcceptedOK, MadeBy, Result
    <3> HIDE DEF w
    <3>4. OneFounder' /\ OnHistory' /\ group' \in [Clients -> MlsState \cup {None}] /\ HistoryStep
      <4>1. CASE w.adds \cap keys[c] = {}
        BY Zenon, <2>3, <2>8, <4>1, <1>MoveInv, <1>LeaveStep
      <4>2. CASE w.adds \cap keys[c] # {}
        <5>1. group' = [group EXCEPT ![c] = Result(a.commit_bytes)]
          BY ZenonT(30), <2>8, <3>2, <4>2
        <5> QED
          BY Zenon, <2>3, <3>3, <4>2, <5>1, <1>MoveInv, <1>EnterStep
      <4> QED
        BY Zenon, <4>1, <4>2
    <3>5. ClientTypes'
      BY Zenon, <2>1, <2>5, <2>8, <3>4 DEF ClientTypes
    <3>6. AtRequest'
      BY Zenon, <2>1, <2>8 DEF AtRequest, workerVars, ClientTypes
    <3>7. Staged' /\ Remembered' /\ OwnKeys'
      BY ZenonT(30), <2>1, <2>3, <2>8 DEF Staged, Remembered, OwnKeys, ClientTypes
    <3> QED
      BY Zenon, <2>3, <2>4, <2>6, <3>4, <3>5, <3>6, <3>7
  <2> QED
    BY Zenon, <2>7, <2>8 DEF JoinFromWelcome

<1>Step.
    ASSUME IInv, [Next]_vars
    PROVE  IInv' /\ HistoryStep
  <2> USE <1>Step
  <2>1. CASE UNCHANGED vars
    <3>1. /\ UNCHANGED <<mailVars, clientVars, workerVars>> /\ UNCHANGED serviceVars
      BY Zenon, <2>1 DEF vars
    <3>2. DsTypeOK' /\ Carried' /\ accepted' = accepted /\ Epoch' = Epoch
      BY Zenon, <3>1, QuietService
    <3> QED
      BY Zenon, <3>1, <3>2, <1>ServiceInv
  <2>2. CASE ServiceStep
    BY Zenon, <2>2, <1>ServiceStepInv
  <2>3. ASSUME NEW c \in Clients, ClientCommand(c)
        PROVE  IInv' /\ HistoryStep
    BY Zenon, <2>3, <1>CreateGroupInv, <1>GenerateKeyPackageInv, <1>AddMembersInv, <1>RemoveMembersInv, <1>SelfUpdateInv,
       <1>JoinFromWelcomeInv DEF ClientCommand
  <2>4. ASSUME NEW c \in Clients, WorkerStep(c)
        PROVE  IInv' /\ HistoryStep
    BY Zenon, <2>4, <1>SubmitAcceptedInv, <1>SubmitOkInv, <1>SubmitConflictInv, <1>PostWelcomeInv, <1>PutInv, <1>PutExternalInv,
       <1>AckDeliveryInv DEF WorkerStep
  <2>5. ASSUME NEW c \in Clients, Fault(c)
        PROVE  IInv' /\ HistoryStep
    BY Zenon, <2>5, <1>SubmitLostInv, <1>PutInv, <1>GiveUpInv DEF Fault
  <2>6. ASSUME NEW c \in Clients, ReceiveCommit(c) \/ ProcessPending(c)
        PROVE  IInv' /\ HistoryStep
    BY Zenon, <2>6, <1>ReceiveCommitInv, <1>ProcessPendingInv
  <2> QED
    BY Zenon, <2>1, <2>2, <2>3, <2>4, <2>5, <2>6 DEF Next

<1> QED
  BY Zenon, <1>Step

\* The inductive invariant holds in every reachable state, for any number of
\* clients, either delivery mode and any number of lost answers and failures.
THEOREM IInvHolds == Spec => []IInv
<1>1. Init => IInv
  BY Zenon, InitIInv
<1>2. IInv /\ [Next]_vars => IInv'
  BY Zenon, NextIInv
<1> QED
  BY <1>1, <1>2, PTL DEF Spec

\* Every client and worker field keeps its type, and a worker at a request
\* holds what the rest of its command unwraps: the commit it submits is the
\* one staged and remembered, and a delivery is being applied or acked.
THEOREM TypeCorrect == Spec => []TypeOK
<1>1. IInv => TypeOK
  BY Zenon DEF IInv, ClientTypes, WorkerTypes, AtRequest, Staged, TypeOK
<1> QED
  BY <1>1, IInvHolds, PTL

\* Clients, workers and service implement the abstract group: all client
\* states lie on one history of accepted commits, which only its last state
\* extends, and no client skips or repeats a state of it, whatever races,
\* lost answers, failed commands, late joins and leftover welcomes there are.
THEOREM ImplementsHistoryHolds == Spec => ImplementsHistory
<1>1. Init => History!HistoryInit
  BY Zenon, InitIInv
<1>2. IInv /\ [Next]_vars => [History!HistoryNext]_(History!HistoryVars)
  BY Zenon, NextIInv DEF HistoryStep
<1> QED
  BY <1>1, <1>2, IInvHolds, PTL DEF Spec, ImplementsHistory, History!HistorySpec

----------------------------------------------------------------------------
(* The order of the log *)

Log == group_commit_log[G]

\* The log holds the epochs one after the other, and no more than one commit
\* is accepted and not yet in it.
LogOrdered ==
    /\ \A g \in Groups : g # G \/ Mode = "per_recipient" => group_commit_log[g] = <<>>
    /\ \A i \in 1..Len(Log) : Log[i].epoch = i
    /\ Mode = "group_log" =>
         /\ Len(Log) <= Epoch
         /\ Epoch <= Len(Log) + 1
         /\ \A p \in publishing : p.epoch = Len(Log) + 1
         /\ \A p, q \in publishing : p = q

\* The log has reached the epoch of r.
Logged(r) == Mode = "group_log" => r.epoch <= Len(Log)

\* w is being posted, or waits to be fetched.
Sent(w) ==
    \/ \E c \in Clients : welcoming[c] # None /\ welcoming[c].welcome = w
    \/ \E c \in Clients : \E i \in 1..Len(welcome_inboxes[c]) : welcome_inboxes[c][i] = w

\* A client gets a state only from the log, or from a welcome that its author
\* posted when it had got the state from the log.
AllLogged ==
    /\ \A c \in Clients : group[c] # None => Logged(group[c])
    /\ \A w : Sent(w) => Logged(w.state)

LogInv == LogOrdered /\ AllLogged

\* The steps that move no client and post no welcome.
LEMMA QuietStep ==
  ASSUME IInv, NEW c \in Clients,
         \/ GenerateKeyPackage(c) \/ SelfUpdate(c)
         \/ \E ts \in SUBSET Clients : AddMembers(c, ts) \/ RemoveMembers(c, ts)
         \/ SubmitOk(c) \/ SubmitConflict(c) \/ SubmitLost(c) \/ GiveUp(c)
         \/ PutCreated(c) \/ PutOwn(c) \/ PutExternal(c) \/ PutLost(c) \/ AckDelivery(c)
  PROVE  /\ UNCHANGED <<group_commit_log, publishing, accepted, group, welcome_inboxes>>
         /\ Epoch' = Epoch
         /\ \A o \in Clients : welcoming'[o] \in {None, welcoming[o]}
         /\ \A w : Sent(w)' => Sent(w)
<1> DEFINE Same == /\ UNCHANGED <<group_commit_log, publishing, accepted, group, welcome_inboxes>>
                   /\ Epoch' = Epoch
                   /\ \A o \in Clients : welcoming'[o] \in {None, welcoming[o]}
<1> SUFFICES Same
  BY Zenon DEF Sent
<1>1. ASSUME Return(c) \/ FinishApply(c)
      PROVE  \A o \in Clients : welcoming'[o] \in {None, welcoming[o]}
  BY Zenon, <1>1 DEF Return, FinishApply, IInv, WorkerTypes
<1>2. CASE GenerateKeyPackage(c)
  BY Zenon, <1>2 DEF GenerateKeyPackage, serviceVars, workerVars, Epoch
<1>3. CASE SelfUpdate(c)
  BY Zenon, <1>3 DEF SelfUpdate, StartIntent, serviceVars, mailVars, Epoch
<1>4. ASSUME NEW ts \in SUBSET Clients, AddMembers(c, ts)
      PROVE  Same
  <2>1. ClientTypes
    BY Zenon DEF IInv
  <2> QED
    BY Zenon, <1>4, <2>1, Adding DEF StartIntent, serviceVars, clientVars, workerVars, Epoch
<1>5. ASSUME NEW ts \in SUBSET Clients, RemoveMembers(c, ts)
      PROVE  Same
  BY Zenon, <1>5 DEF RemoveMembers, StartIntent, serviceVars, mailVars, Epoch
<1>6. CASE SubmitOk(c) \/ GiveUp(c)
  BY Zenon, <1>1, <1>6 DEF SubmitOk, GiveUp, serviceVars, mailVars, clientVars, Epoch
<1>7. CASE SubmitConflict(c)
  BY Zenon, <1>1, <1>7 DEF SubmitConflict, serviceVars, mailVars, Epoch
<1>8. CASE SubmitLost(c)
  BY Zenon, <1>8 DEF SubmitLost, serviceVars, mailVars, clientVars, Epoch
<1>9. CASE PutCreated(c) \/ PutOwn(c) \/ PutExternal(c) \/ PutLost(c)
  <2>1. group[c] # None /\ UpdateDsGroupState(c)
    BY Zenon, <1>9 DEF PutCreated, PutOwn, PutExternal, PutLost, IInv, AtRequest
  <2>2. UNCHANGED <<group_commit_log, publishing>>
    BY Zenon, <2>1 DEF UpdateDsGroupState, put_group_state, serviceVars
  <2>3. accepted' = accepted /\ Epoch' = Epoch
    BY Zenon, <2>1, QuietService
  <2>4. group' = group /\ welcome_inboxes' = welcome_inboxes
    BY Zenon, <1>9 DEF PutCreated, PutOwn, PutExternal, PutLost, StartIntent, mailVars, clientVars
  <2>5. \A o \in Clients : welcoming'[o] \in {None, welcoming[o]}
    BY Zenon, <1>1, <1>9 DEF PutCreated, PutOwn, PutExternal, PutLost, workerVars
  <2> QED
    BY Zenon, <2>2, <2>3, <2>4, <2>5
<1>10. CASE AckDelivery(c)
  BY Zenon, <1>1, <1>10 DEF AckDelivery, ack_commit, mailVars, clientVars, Epoch
<1> QED
  BY Zenon, <1>2, <1>3, <1>4, <1>5, <1>6, <1>7, <1>8, <1>9, <1>10

\* Only applying the own commit makes a new welcome.
LEMMA ApplySends ==
  ASSUME IInv, NEW c \in Clients, NEW d, ApplyOwn(c, d) \/ ApplyExternal(c, d),
         welcome_inboxes' = welcome_inboxes, NEW w, Sent(w)'
  PROVE  \/ Sent(w)
         \/ /\ ApplyOwn(c, d)
            /\ pending_bytes[c].welcome # None
            /\ w = pending_bytes[c].welcome
<1>1. CASE ApplyOwn(c, d)
  BY Zenon, <1>1 DEF ApplyOwn, Sent, IInv, WorkerTypes
<1>2. CASE ApplyExternal(c, d)
  BY Zenon, <1>2 DEF ApplyExternal, Sent
<1> QED
  BY Zenon, <1>1, <1>2

\* JoinFromWelcome and PostWelcome make no new welcome.
LEMMA PassedOn ==
  ASSUME IInv, NEW c \in Clients,
         JoinFromWelcome(c) \/ (\E r \in Clients : PostWelcome(c, r)), NEW w, Sent(w)'
  PROVE  Sent(w)
<1> USE DEF IInv
<1>1. CASE JoinFromWelcome(c)
  <2>1. /\ welcome_inboxes[c] \in Seq(Welcome) /\ welcome_inboxes[c] # <<>>
        /\ welcome_inboxes' = [welcome_inboxes EXCEPT ![c] = Tail(@)]
        /\ welcoming' = welcoming
    BY Zenon, <1>1 DEF JoinFromWelcome, workerVars, ClientTypes
  <2>2. ASSUME NEW o \in Clients, NEW i \in 1..Len(welcome_inboxes'[o])
        PROVE  \E j \in 1..Len(welcome_inboxes[o]) : welcome_inboxes'[o][i] = welcome_inboxes[o][j]
    <3>1. CASE o # c
      BY Zenon, <2>1, <2>2, <3>1 DEF ClientTypes
    <3>2. CASE o = c
      <4>1. welcome_inboxes'[c] = Tail(welcome_inboxes[c])
        BY Zenon, <2>1 DEF ClientTypes
      <4>2. i \in 1..Len(Tail(welcome_inboxes[c]))
        BY Zenon, <2>2, <3>2, <4>1
      <4>3. i + 1 \in 1..Len(welcome_inboxes[c]) /\ welcome_inboxes'[c][i] = welcome_inboxes[c][i + 1]
        BY Zenon, <2>1, <4>1, <4>2, TailAt
      <4> QED
        BY Zenon, <3>2, <4>3
    <3> QED
      BY Zenon, <3>1, <3>2
  <2> QED
    BY SMTT(30), <2>1, <2>2 DEF Sent
<1>2. ASSUME NEW r \in Clients, PostWelcome(c, r)
      PROVE  Sent(w)
  <2>1. /\ welcoming[c] \in Welcoming /\ welcoming[c] # None
        /\ welcome_inboxes[r] \in Seq(Welcome) /\ welcoming[c].welcome \in Welcome
        /\ welcome_inboxes' = [welcome_inboxes EXCEPT ![r] = Append(@, welcoming[c].welcome)]
    BY Zenon, <1>2 DEF PostWelcome, ClientTypes, WorkerTypes, AtRequest, Welcoming
  <2>2. \A o \in Clients : welcoming'[o] # None =>
          welcoming[o] # None /\ welcoming'[o].welcome = welcoming[o].welcome
    <3>1. CASE welcoming' = welcoming
      BY Zenon, <3>1
    <3>2. CASE welcoming' = [welcoming EXCEPT ![c].to = @ \ {r}]
      <4>1. welcoming' = [welcoming EXCEPT ![c] = [welcoming[c] EXCEPT !.to = welcoming[c].to \ {r}]]
        BY Zenon, <3>2, Zenon
      <4>2. welcoming' = [welcoming EXCEPT ![c] = [welcome |-> welcoming[c].welcome, to |-> welcoming[c].to \ {r}]]
        BY Zenon, <2>1, <4>1, WelcomingUpdate
      <4> QED
        BY Zenon, <2>1, <4>2 DEF WorkerTypes
    <3> QED
      BY Zenon, <1>2, <3>1, <3>2 DEF PostWelcome
  <2>3. ASSUME NEW o \in Clients, NEW i \in 1..Len(welcome_inboxes'[o])
        PROVE  \/ \E j \in 1..Len(welcome_inboxes[o]) : welcome_inboxes'[o][i] = welcome_inboxes[o][j]
               \/ welcome_inboxes'[o][i] = welcoming[c].welcome
    <3>1. CASE o # r
      BY Zenon, <2>1, <2>3, <3>1 DEF ClientTypes
    <3>2. CASE o = r
      <4>1. welcome_inboxes'[r] = Append(welcome_inboxes[r], welcoming[c].welcome)
        BY Zenon, <2>1 DEF ClientTypes
      <4> QED
        BY <2>1, <2>3, <3>2, <4>1
    <3> QED
      BY Zenon, <3>1, <3>2
  <2> QED
    BY SMTT(30), <2>1, <2>2, <2>3 DEF Sent
<1> QED
  BY Zenon, <1>1, <1>2

\* The welcome that JoinFromWelcome pops was sent.
LEMMA PoppedSent ==
  ASSUME IInv, NEW c \in Clients, welcome_inboxes[c] # <<>>
  PROVE  Sent(Head(welcome_inboxes[c]))
<1>1. welcome_inboxes[c] \in Seq(Welcome)
  BY Zenon DEF IInv, ClientTypes
<1>2. 1 \in 1..Len(welcome_inboxes[c]) /\ Head(welcome_inboxes[c]) = welcome_inboxes[c][1]
  BY SMTT(30), <1>1
<1> QED
  BY Zenon, <1>2 DEF Sent

\* The order of the log is inductive.
LEMMA NextLog == IInv /\ LogInv /\ [Next]_vars => LogInv'
\* A step that leaves the log alone keeps its order.
<1>LogFrame.
    ASSUME LogInv, UNCHANGED <<group_commit_log, publishing>>, Epoch' = Epoch,
           \A c \in Clients : group'[c] # None => Logged(group'[c]),
           \A w : Sent(w)' => Logged(w.state)
    PROVE  LogInv'
  <2> USE <1>LogFrame
  <2>1. LogOrdered'
    BY Zenon DEF LogInv, LogOrdered, Log
  <2>2. AllLogged'
    BY Zenon DEF AllLogged, Logged, Log
  <2> QED
    BY Zenon, <2>1, <2>2 DEF LogInv

\* What a worker fetches is in the log.
<1>LoggedFetched.
    ASSUME IInv, LogInv, NEW c \in Clients
    PROVE  /\ \A d \in fetch_next_pending_commit(c) : Logged(d)
           /\ \A e : \A rec \in fetch_pending_commits(c, e) : Logged(rec)
  <2> USE <1>LoggedFetched
  <2>1. ASSUME NEW g \in Groups, NEW i \in 1..Len(group_commit_log[g])
        PROVE  Logged(group_commit_log[g][i])
    BY GroupOfRun DEF IInv, DsTypeOK, LogInv, LogOrdered, Logged, Log
  <2>2. ASSUME NEW d \in fetch_next_pending_commit(c)
        PROVE  Logged(d)
    <3>1. CASE Mode = "per_recipient"
      BY Zenon, <3>1 DEF Logged
    <3>2. CASE Mode # "per_recipient"
      <4>1. \E g \in Groups : \E i \in 1..Len(group_commit_log[g]) : d = AsDelivery(group_commit_log[g][i], c)
        BY Zenon, <2>2, <3>2 DEF fetch_next_pending_commit, fetch_group_log_commit_compat, EntriesBeyond, EntriesFor
      <4> QED
        BY <2>1, <4>1 DEF AsDelivery, Logged
    <3> QED
      BY Zenon, <3>1, <3>2
  <2>3. ASSUME NEW e, NEW rec \in fetch_pending_commits(c, e)
        PROVE  Logged(rec)
    BY Zenon, <2>1, <2>3, GroupOfRun DEF fetch_pending_commits, EntriesBeyond, EntriesFor
  <2> QED
    BY Zenon, <2>2, <2>3

\* Applying a commit of the log.
<1>ApplyLog.
    ASSUME IInv, LogInv, NEW c \in Clients, group[c] # None, NEW d, Carries(d), Logged(d),
           ApplyOwn(c, d) \/ ApplyExternal(c, d),
           UNCHANGED <<group_commit_log, publishing, welcome_inboxes>>, Epoch' = Epoch
    PROVE  LogInv'
  <2> USE <1>ApplyLog
  <2> USE DEF IInv
  <2>1. PICK a \in accepted : a.epoch = d.epoch /\ a.commit_bytes = d.commit_bytes
    BY Zenon DEF Carries
  <2>2. d.epoch = d.commit_bytes.epoch + 1
    BY Zenon, <2>1 DEF AcceptedOK
  <2>3. group[c].epoch \in Nat
    BY Zenon DEF ClientTypes, MlsState
  <2>4. CASE ApplyOwn(c, d)
    <3>1. pending_bytes[c] # None /\ pending_bytes[c].commit = d.commit_bytes
      BY Zenon, <2>4 DEF ApplyOwn, IsOwnPending
    <3>2. pending[c] # None => Merged(group[c], pending[c]).epoch = d.epoch
      BY Zenon, <2>2, <3>1 DEF Staged, Merged
    <3>3. pending_bytes[c].welcome # None => Logged(pending_bytes[c].welcome.state)
      BY SMTT(30), <2>2, <3>1 DEF Remembered, WelcomeFor, Result, Logged
    <3>4. \A o \in Clients : group'[o] # None => Logged(group'[o])
      BY Zenon, <2>4, <3>2 DEF ApplyOwn, ClientTypes, LogInv, AllLogged, Logged
    <3>5. \A w : Sent(w)' => Logged(w.state)
      BY Zenon, <2>4, <3>3, ApplySends DEF LogInv, AllLogged
    <3> QED
      BY Zenon, <3>4, <3>5, <1>LogFrame DEF LogInv, AllLogged
  <2>5. CASE ApplyExternal(c, d)
    <3>1. Merged(group[c], d.commit_bytes).epoch = d.epoch
      BY ZenonT(30), <2>1, <2>5, ParentLink DEF ApplyExternal, CanProcess, Merged
    <3>2. \A o \in Clients : group'[o] # None => Logged(group'[o])
      BY Zenon, <2>5, <3>1 DEF ApplyExternal, ClientTypes, LogInv, AllLogged, Logged
    <3>3. \A w : Sent(w)' => Logged(w.state)
      BY Zenon, <2>5, ApplySends DEF ApplyOwn, ApplyExternal, LogInv, AllLogged
    <3> QED
      BY Zenon, <3>2, <3>3, <1>LogFrame DEF LogInv, AllLogged
  <2> QED
    BY Zenon, <2>4, <2>5

\* ReceiveCommit and ProcessPending read the log.
<1>ReceiveLog.
    ASSUME IInv, LogInv, NEW c \in Clients, ReceiveCommit(c) \/ ProcessPending(c)
    PROVE  LogInv'
  <2> USE <1>ReceiveLog
  <2>1. CASE ReceiveCommit(c)
    <3>1. PICK d \in fetch_next_pending_commit(c) :
            /\ HandOut(c, d)
            /\ \/ ApplyOwn(c, d) \/ ApplyExternal(c, d)
               \/ UNCHANGED <<group, welcoming>>
      BY Zenon, <2>1 DEF ReceiveCommit
    <3>2. /\ UNCHANGED <<group_commit_log, publishing, welcome_inboxes>> /\ Epoch' = Epoch
          /\ group[c] # None
      BY Zenon, <2>1, <3>1 DEF ReceiveCommit, HandOut, mailVars, Epoch
    <3>3. Carries(d) /\ Logged(d)
      BY Zenon, Fetched, <1>LoggedFetched DEF IInv
    <3>4. CASE UNCHANGED <<group, welcoming>>
      BY Zenon, <3>2, <3>4, <1>LogFrame DEF LogInv, AllLogged, Sent
    <3> QED
      BY Zenon, <3>1, <3>2, <3>3, <3>4, <1>ApplyLog
  <2>2. CASE ProcessPending(c)
    <3>1. PICK rec \in fetch_pending_commits(c, group[c].epoch) :
            LET d == [AsDelivery(rec, c) EXCEPT !.id = None] IN ApplyOwn(c, d) \/ ApplyExternal(c, d)
      BY Zenon, <2>2 DEF ProcessPending
    <3>2. PICK d : d = [AsDelivery(rec, c) EXCEPT !.id = None]
      BY Zenon
    <3>3. ApplyOwn(c, d) \/ ApplyExternal(c, d)
      BY Zenon, <3>1, <3>2
    <3>4. /\ UNCHANGED <<group_commit_log, publishing, welcome_inboxes>> /\ Epoch' = Epoch
          /\ group[c] # None
      BY Zenon, <2>2 DEF ProcessPending, serviceVars, mailVars, Epoch
    <3>5. Carries(d)
      BY Zenon, <3>2, FetchedPending DEF IInv
    <3>6. d.epoch = rec.epoch
      BY Zenon, <3>2 DEF AsDelivery
    <3>7. Logged(d)
      BY Zenon, <3>6, <1>LoggedFetched DEF Logged
    <3> QED
      BY Zenon, <3>3, <3>4, <3>5, <3>7, <1>ApplyLog
  <2> QED
    BY Zenon, <2>1, <2>2

\* JoinFromWelcome and PostWelcome pass states on.
<1>WelcomeLog.
    ASSUME IInv, LogInv, NEW c \in Clients,
           JoinFromWelcome(c) \/ (\E r \in Clients : PostWelcome(c, r))
    PROVE  LogInv'
  <2> USE <1>WelcomeLog
  <2>1. UNCHANGED <<group_commit_log, publishing>> /\ Epoch' = Epoch
    BY Zenon DEF JoinFromWelcome, PostWelcome, serviceVars, Epoch
  <2>2. \A w : Sent(w)' => Logged(w.state)
    BY Zenon, PassedOn DEF LogInv, AllLogged
  <2>3. \A o \in Clients : group'[o] # None => Logged(group'[o])
    <3>1. CASE JoinFromWelcome(c)
      <4>1. Logged(Head(welcome_inboxes[c]).state)
        BY Zenon, <3>1, PoppedSent DEF JoinFromWelcome, LogInv, AllLogged
      <4> QED
        BY Zenon, <3>1, <4>1 DEF JoinFromWelcome, IInv, ClientTypes, LogInv, AllLogged
    <3>2. CASE \E r \in Clients : PostWelcome(c, r)
      BY Zenon, <3>2 DEF PostWelcome, clientVars, LogInv, AllLogged
    <3> QED
      BY Zenon, <3>1, <3>2
  <2> QED
    BY Zenon, <2>1, <2>2, <2>3, <1>LogFrame

\* Accepting a commit: its author has the last entry of the log, so there is
\* nothing left to push.
<1>AcceptLog.
    ASSUME IInv, LogInv, NEW c \in Clients, SubmitAccepted(c)
    PROVE  LogInv'
  <2> USE <1>AcceptLog
  <2> USE DEF IInv
  <2>1. /\ groups[G] # None /\ groups[G] \in GroupState /\ groups[G].current_epoch = group[c].epoch
        /\ group[c] # None /\ group[c].epoch \in Nat
    BY Zenon, GroupOfRun DEF SubmitAccepted, AcceptCommit, CommitConflict, AtRequest, DsTypeOK, ClientTypes, MlsState
  <2>2. \E rec : publishing' = publishing \cup {rec} /\ rec.epoch = group[c].epoch + 1
    <3> DEFINE rec == [group_id |-> G, epoch |-> next_epoch(group[c].epoch), sender |-> c,
                       commit_bytes |-> pending[c], recipients |-> groups[G].members]
    <3>1. publishing' = publishing \cup {rec}
      BY Zenon DEF SubmitAccepted, AcceptCommit
    <3>2. rec.epoch = group[c].epoch + 1
      BY Zenon DEF next_epoch
    <3> QED
      BY Zenon, <3>1, <3>2
  <2>3. UNCHANGED <<group_commit_log, group, welcoming, welcome_inboxes>>
    BY Zenon DEF SubmitAccepted, AcceptCommit, mailVars, clientVars
  <2>4. Epoch = group[c].epoch /\ Epoch' = Epoch + 1
    <3>1. groups' = [groups EXCEPT ![G].current_epoch = group[c].epoch + 1]
      BY Zenon DEF SubmitAccepted, AcceptCommit, next_epoch
    <3>2. groups' = [groups EXCEPT ![G] = [groups[G] EXCEPT !.current_epoch = group[c].epoch + 1]]
      BY Zenon, <3>1, Zenon
    <3>3. groups' = [groups EXCEPT ![G] = [current_epoch |-> group[c].epoch + 1, members |-> groups[G].members]]
      BY Zenon, <2>1, <3>2, GroupStateUpdate
    <3>4. groups'[G] = [current_epoch |-> group[c].epoch + 1, members |-> groups[G].members]
      BY Zenon, <3>3, GroupOfRun DEF DsTypeOK
    <3>5. groups'[G] \in GroupState
      BY <2>1, <3>4 DEF GroupState
    <3>6. groups'[G] # None
      BY Zenon, <3>5, NoneIsNoValue
    <3> QED
      BY <2>1, <3>4, <3>6 DEF Epoch
  <2>5. LogOrdered'
    <3>1. CASE Mode = "group_log"
      <4>1. Len(Log) \in Nat
        BY SMTT(30), GroupOfRun DEF DsTypeOK, Log
      <4>2. Epoch = Len(Log)
        BY SMTT(30), <2>1, <2>4, <3>1, <4>1 DEF LogInv, LogOrdered, AllLogged, Logged
      <4>3. publishing = {}
        <5> SUFFICES ASSUME NEW p \in publishing PROVE FALSE
          BY Zenon
        <5>1. p.epoch <= Epoch
          BY DEF Carried, Carries, AcceptedOK
        <5> QED
          BY <3>1, <4>1, <4>2, <5>1 DEF LogInv, LogOrdered
      <4> QED
        BY <2>2, <2>3, <2>4, <3>1, <4>1, <4>2, <4>3 DEF LogInv, LogOrdered, Log
    <3>2. CASE Mode # "group_log"
      BY Zenon, <2>3, <3>2 DEF LogInv, LogOrdered, Log
    <3> QED
      BY Zenon, <3>1, <3>2
  <2>6. AllLogged'
    BY Zenon, <2>3 DEF LogInv, AllLogged, Logged, Log, Sent
  <2> QED
    BY Zenon, <2>5, <2>6 DEF LogInv

\* The handler appends the only commit it can hold, the next of the log.
<1>ServiceLog.
    ASSUME IInv, LogInv, ServiceStep
    PROVE  LogInv'
  <2> USE <1>ServiceLog
  <2> USE DEF IInv
  <2>1. PICK p \in publishing : PushToLog(p) \/ FinishPublish(p) \/ \E r \in Clients : PushToRecipient(p, r)
    BY Zenon DEF ServiceStep
  <2>2. UNCHANGED <<groups, group, welcoming, welcome_inboxes>> /\ Epoch' = Epoch
    BY Zenon, <2>1 DEF ServiceStep, PushToLog, FinishPublish, PushToRecipient, mailVars, clientVars, workerVars, Epoch
  <2>3. CASE PushToLog(p)
    <3>1. /\ p.group_id = G /\ p.epoch <= Epoch /\ p \in GroupLogCommit
          /\ Log \in Seq(GroupLogCommit) /\ Len(Log) \in Nat /\ Epoch \in Nat
      <4>1. p.group_id = G /\ p.epoch <= Epoch /\ Epoch \in Nat
        BY DEF Carried, Carries, AcceptedOK
      <4>2. p \in GroupLogCommit /\ Log \in Seq(GroupLogCommit)
        BY Zenon, GroupOfRun DEF DsTypeOK, Log
      <4> QED
        BY SMTT(30), <4>1, <4>2
    <3>2. /\ Mode = "group_log" /\ publishing' = publishing \ {p}
          /\ group_commit_log' = [group_commit_log EXCEPT ![G] = Append(@, p)]
      BY Zenon, <2>3, <3>1 DEF PushToLog
    <3>3. Log' = Append(Log, p) /\ \A g \in Groups \ {G} : group_commit_log'[g] = group_commit_log[g]
      BY Zenon, <3>2, GroupOfRun DEF DsTypeOK, Log
    <3>4. p.epoch = Len(Log) + 1 /\ Epoch = Len(Log) + 1 /\ publishing' = {}
      BY <3>1, <3>2 DEF LogInv, LogOrdered
    <3>5. Len(Log') = Len(Log) + 1 /\ \A i \in 1..Len(Log') : Log'[i].epoch = i
      <4>1. \A i \in 1..Len(Log') : Log'[i] = IF i = Len(Log) + 1 THEN p ELSE Log[i]
        BY <3>1, <3>3
      <4>2. Len(Log') = Len(Log) + 1
        BY <3>1, <3>3
      <4> QED
        BY <3>1, <3>4, <4>1, <4>2 DEF LogInv, LogOrdered
    <3>6. \A g \in Groups : g # G => group_commit_log'[g] = <<>>
      BY Zenon, <3>3 DEF LogInv, LogOrdered
    <3>7. LogOrdered'
      BY <2>2, <3>1, <3>2, <3>4, <3>5, <3>6 DEF LogOrdered
    <3>8. \A r : Logged(r) /\ r.epoch \in Nat => Logged(r)'
      BY <3>1, <3>2, <3>5 DEF Logged
    <3>9. \A o \in Clients : group[o] # None => group[o].epoch \in Nat
      BY Zenon DEF ClientTypes, MlsState
    <3>10. \A w : Sent(w) => w.state.epoch \in Nat
      <4>1. \A w : Sent(w) => IsReleased(w)
        BY Zenon DEF Sent, Released
      <4>2. \A a \in accepted : WelcomeFor(a.commit_bytes).state.epoch \in Nat
        BY DEF AcceptedOK, WelcomeFor, Result
      <4> QED
        BY Zenon, <4>1, <4>2 DEF IsReleased
    <3>11. AllLogged'
      <4>1. \A w : Sent(w)' <=> Sent(w)
        BY Zenon, <2>2 DEF Sent
      <4> QED
        BY Zenon, <2>2, <3>8, <3>9, <3>10, <4>1 DEF LogInv, AllLogged
    <3> QED
      BY Zenon, <3>7, <3>11 DEF LogInv
  <2>4. CASE ~PushToLog(p)
    <3>1. Mode = "per_recipient" /\ group_commit_log' = group_commit_log
      BY Zenon, <2>1, <2>4 DEF FinishPublish, PushToRecipient
    <3> QED
      BY Zenon, <2>2, <3>1 DEF LogInv, LogOrdered, AllLogged, Logged, Sent, Log
  <2> QED
    BY Zenon, <2>3, <2>4

<1>Step.
    ASSUME IInv, LogInv, [Next]_vars
    PROVE  LogInv'
  <2> USE <1>Step
  <2>1. CASE UNCHANGED vars
    BY Zenon, <2>1 DEF vars, serviceVars, mailVars, clientVars, workerVars, LogInv, LogOrdered, AllLogged, Logged, Log,
                Sent, Epoch
  <2>2. CASE ServiceStep
    BY Zenon, <2>2, <1>ServiceLog
  <2>3. ASSUME NEW c \in Clients, CreateGroup(c)
        PROVE  LogInv'
    <3>1. /\ UNCHANGED <<group_commit_log, publishing, welcoming, welcome_inboxes>> /\ Epoch' = Epoch
          /\ group' = [group EXCEPT ![c] = NewGroup(c)]
      BY Zenon, <2>3 DEF CreateGroup, serviceVars, mailVars, Epoch
    <3>2. Len(Log) \in Nat
      BY SMTT(30), GroupOfRun DEF IInv, DsTypeOK, Log
    <3>3. \A o \in Clients : group'[o] # None => Logged(group'[o])
      BY <3>1, <3>2 DEF IInv, ClientTypes, LogInv, AllLogged, Logged, NewGroup
    <3> QED
      BY Zenon, <3>1, <3>3, <1>LogFrame DEF LogInv, AllLogged, Sent
  <2>4. ASSUME NEW c \in Clients, SubmitAccepted(c)
        PROVE  LogInv'
    BY Zenon, <2>4, <1>AcceptLog
  <2>5. ASSUME NEW c \in Clients,
               JoinFromWelcome(c) \/ (\E r \in Clients : PostWelcome(c, r))
        PROVE  LogInv'
    BY Zenon, <2>5, <1>WelcomeLog
  <2>6. ASSUME NEW c \in Clients, ReceiveCommit(c) \/ ProcessPending(c)
        PROVE  LogInv'
    BY Zenon, <2>6, <1>ReceiveLog
  <2>7. ASSUME NEW c \in Clients,
               \/ GenerateKeyPackage(c) \/ SelfUpdate(c)
               \/ \E ts \in SUBSET Clients : AddMembers(c, ts) \/ RemoveMembers(c, ts)
               \/ SubmitOk(c) \/ SubmitConflict(c) \/ SubmitLost(c) \/ GiveUp(c)
               \/ PutCreated(c) \/ PutOwn(c) \/ PutExternal(c) \/ PutLost(c) \/ AckDelivery(c)
        PROVE  LogInv'
    BY Zenon, <2>7, QuietStep, <1>LogFrame DEF LogInv, AllLogged
  <2> QED
    BY Zenon, <2>1, <2>2, <2>3, <2>4, <2>5, <2>6, <2>7 DEF Next, ClientCommand, WorkerStep, Fault

<1> QED
  BY Zenon, <1>Step

\* The service pushes a commit to the log after it has released the lock
\* under which it gave out the epoch, and yet the log is in epoch order: no
\* client can commit on an epoch that the log does not have yet.
THEOREM LogInEpochOrderHolds == Spec => []LogInEpochOrder
<1>1. Init => LogInv
  <2> SUFFICES ASSUME Init PROVE LogInv
    OBVIOUS
  <2>1. \A g \in Groups : group_commit_log[g] = <<>>
    BY Zenon DEF Init, DsInit
  <2>2. Log = <<>> /\ Epoch = 0 /\ publishing = {}
    BY Zenon, <2>1, GroupOfRun DEF Init, DsInit, Log, Epoch
  <2>3. \A c \in Clients : group[c] = None /\ welcoming[c] = None /\ welcome_inboxes[c] = <<>>
    BY Zenon DEF Init
  <2> QED
    BY <2>1, <2>2, <2>3 DEF LogInv, LogOrdered, AllLogged, Sent
<1>2. IInv /\ LogInv /\ [Next]_vars => LogInv'
  BY Zenon, NextLog
<1>3. LogInv => LogInEpochOrder
  BY Zenon DEF LogInv, LogOrdered, LogInEpochOrder, Log
<1> QED
  BY <1>1, <1>2, <1>3, IInvHolds, PTL DEF Spec

----------------------------------------------------------------------------
(* The recipients of a commit *)

\* An own commit that the client remembers but no longer has staged was not
\* accepted.
Forgotten ==
    \A c \in Clients : pending_bytes[c] # None =>
      /\ pending_bytes[c].commit.id[1] = c
      /\ pending[c] = None => \A a \in accepted : a.commit_bytes # pending_bytes[c].commit

\* c is about to tell the service the members of its state.
Updating(c) == pc[c] \in {"put_created", "welcome", "put_own", "put_external"}

Known(members) == groups[G] # None /\ groups[G].members = members

\* A client in the last epoch has told the service the members, or is about to.
KnownSoon ==
    \A c \in Clients : group[c] # None /\ group[c].epoch = Epoch =>
      Updating(c) \/ Known(group[c].members)

\* So has the one that sent a welcome to the last epoch.
WelcomeKnown(w) ==
    w.state.epoch = Epoch =>
      \/ Known(w.state.members)
      \/ \E o \in Clients : pc[o] \in {"welcome", "put_own"} /\ group[o] = w.state

RecInv ==
    /\ Forgotten
    /\ KnownSoon
    /\ \A w : Sent(w) => WelcomeKnown(w)
    /\ RecipientsAreMembers
    /\ gave_up = 0

\* No command is given up.
LEMMA NeverGivesUp ==
  ASSUME MaxGiveUps = 0, gave_up = 0, [Next]_vars
  PROVE  gave_up' = 0 /\ \A c \in Clients : ~GiveUp(c)
<1>1. ~Abandon
  BY DEF Abandon
<1>2. CASE UNCHANGED vars \/ ServiceStep
  BY Zenon, <1>1, <1>2 DEF vars, faultVars, ServiceStep, GiveUp
<1>3. ASSUME NEW c \in Clients, ClientCommand(c)
      PROVE  gave_up' = 0
  BY ZenonT(30), <1>1, <1>3 DEF ClientCommand, CreateGroup, GenerateKeyPackage, AddMembers, RemoveMembers, SelfUpdate,
                    JoinFromWelcome, LoseAnswer, faultVars
<1>4. ASSUME NEW c \in Clients, WorkerStep(c)
      PROVE  gave_up' = 0
  BY Zenon, <1>4 DEF WorkerStep, SubmitAccepted, SubmitOk, SubmitConflict, PostWelcome, PutCreated, PutOwn, PutExternal,
              AckDelivery, LoseAnswer, faultVars
<1>5. ASSUME NEW c \in Clients, Fault(c) \/ ReceiveCommit(c) \/ ProcessPending(c)
      PROVE  gave_up' = 0
  BY Zenon, <1>1, <1>5 DEF Fault, SubmitLost, PutLost, GiveUp, ReceiveCommit, ProcessPending, LoseAnswer, faultVars
<1> QED
  BY Zenon, <1>1, <1>2, <1>3, <1>4, <1>5 DEF Next, GiveUp

\* There is one state of each epoch.
LEMMA OneState ==
  ASSUME IInv, NEW c \in Clients, group[c] # None
  PROVE  /\ \A o \in Clients : group[o] # None /\ group[o].epoch = group[c].epoch =>
              group[o].members = group[c].members
         /\ \A w : Sent(w) /\ w.state.epoch = group[c].epoch => w.state.members = group[c].members
         /\ group[c].epoch \in Nat /\ group[c].epoch <= Epoch
<1> USE DEF IInv
<1>0. \A a \in accepted : Result(a.commit_bytes).epoch = a.epoch /\ a.epoch \in 1..Epoch /\ Epoch \in Nat
  BY Zenon DEF AcceptedOK, Result
<1>1. group[c].epoch # 0 => \E a \in accepted : group[c] = Result(a.commit_bytes) /\ a.epoch = group[c].epoch
  BY Zenon, <1>0 DEF OnHistory
<1>2. \A o \in Clients : group[o] # None /\ group[o].epoch # 0 =>
        \E a \in accepted : group[o] = Result(a.commit_bytes) /\ a.epoch = group[o].epoch
  BY Zenon, <1>0 DEF OnHistory
<1>3. \A w : Sent(w) => \E a \in accepted : w.state = Result(a.commit_bytes) /\ a.epoch = w.state.epoch /\ a.epoch # 0
  <2>1. \A w : Sent(w) => IsReleased(w)
    BY Zenon DEF Sent, Released
  <2>2. \A a \in accepted : /\ WelcomeFor(a.commit_bytes).state = Result(a.commit_bytes)
                            /\ Result(a.commit_bytes).epoch = a.epoch /\ a.epoch # 0
    BY SMTT(30), <1>0 DEF WelcomeFor
  <2> QED
    BY Zenon, <2>1, <2>2 DEF IsReleased
<1>4. \A a, b \in accepted : a.epoch = b.epoch => a = b
  BY Zenon DEF OneChain
<1>5. group[c].epoch = 0 => \A o \in Clients : group[o] # None /\ group[o].epoch = 0 => o = c
  BY Zenon DEF OneFounder, AtStart
<1>6. group[c].epoch \in Nat /\ group[c].epoch <= Epoch
  <2>1. group[c].epoch \in Nat /\ Epoch \in Nat
    BY Zenon DEF ClientTypes, MlsState, AcceptedOK
  <2> QED
    BY SMTT(30), <1>0, <1>1, <2>1
<1> QED
  BY SMTT(30), <1>1, <1>2, <1>3, <1>4, <1>5, <1>6

\* A step that tells the service nothing, by a client that has nothing to tell.
LEMMA RecFrame ==
  ASSUME RecInv, Forgotten', gave_up' = 0, groups' = groups, group' = group, accepted' = accepted,
         \A w : Sent(w)' => Sent(w),
         \A o \in Clients : \/ pc'[o] = pc[o]
                            \/ ~Updating(o)
                            \/ Updating(o)' /\ pc[o] = "welcome" /\ pc'[o] = "put_own"
                            \/ group[o].epoch # Epoch
  PROVE  RecInv'
<1>1. Epoch' = Epoch /\ \A m : Known(m)' <=> Known(m)
  BY Zenon DEF Epoch, Known
<1>2. KnownSoon'
  BY Zenon, <1>1 DEF RecInv, KnownSoon, Updating
<1>3. \A w : Sent(w)' => WelcomeKnown(w)'
  <2> SUFFICES ASSUME NEW w, Sent(w)', w.state.epoch = Epoch
               PROVE  WelcomeKnown(w)'
    BY Zenon, <1>1 DEF WelcomeKnown
  <2>1. CASE Known(w.state.members)
    BY Zenon, <1>1, <2>1 DEF WelcomeKnown
  <2>2. CASE ~Known(w.state.members)
    <3>1. PICK o \in Clients : pc[o] \in {"welcome", "put_own"} /\ group[o] = w.state
      BY Zenon, <2>2 DEF RecInv, WelcomeKnown
    <3>2. pc'[o] \in {"welcome", "put_own"}
      BY Zenon, <3>1 DEF Updating
    <3> QED
      BY Zenon, <3>1, <3>2 DEF WelcomeKnown
  <2> QED
    BY Zenon, <2>1, <2>2
<1>4. RecipientsAreMembers'
  BY Zenon DEF RecInv, RecipientsAreMembers
<1> QED
  BY Zenon, <1>2, <1>3, <1>4 DEF RecInv

\* Every step.
LEMMA NextForgotten == IInv /\ Forgotten /\ [Next]_vars => Forgotten'
\* A step that stages nothing and drops what is staged together with what is
\* remembered.
<1>ForgottenFrame.
    ASSUME Forgotten, accepted' = accepted,
           \A o \in Clients : \/ pending_bytes'[o] = None
                              \/ pending_bytes'[o] = pending_bytes[o] /\ pending'[o] = pending[o]
    PROVE  Forgotten'
    BY ZenonT(30), <1>ForgottenFrame DEF Forgotten

\* Staging a commit.
<1>StartForgotten.
    ASSUME IInv, Forgotten, NEW c \in Clients, NEW it \in Intent, StartIntent(c, it), accepted' = accepted
    PROVE  Forgotten'
  <2> USE <1>StartForgotten
  <2> DEFINE m == NewCommit(c, it)
  <2>1. m.id = <<c, made[c].commits + 1>> /\ m # None
    <3>1. m.id = <<c, made[c].commits + 1>> /\ m \in MlsCommit
      BY Zenon, NewCommitMade DEF IInv, StartIntent, MadeBy
    <3> QED
      BY Zenon, <3>1, NoneIsNoValue
  <2>2. pending'[c] = m /\ pending_bytes'[c].commit = m
    BY Zenon DEF StartIntent, IInv, ClientTypes
  <2>3. \A o \in Clients \ {c} : pending'[o] = pending[o] /\ pending_bytes'[o] = pending_bytes[o]
    BY Zenon DEF StartIntent, IInv, ClientTypes
  <2>4. pending_bytes'[c].commit.id[1] = c
    BY SMTT(30), <2>1, <2>2
  <2> HIDE DEF m
  <2> QED
    BY SMTT(30), <2>1, <2>2, <2>3, <2>4 DEF Forgotten

\* Applying a commit: one of another member replaces what was staged, which
\* then was not accepted, as there is one commit for each epoch.
<1>ApplyForgotten.
    ASSUME IInv, Forgotten, NEW c \in Clients, group[c] # None, NEW d, Carries(d),
           ApplyOwn(c, d) \/ ApplyExternal(c, d), accepted' = accepted
    PROVE  Forgotten'
  <2> USE <1>ApplyForgotten
  <2> USE DEF IInv
  <2>1. PICK a \in accepted : a.commit_bytes = d.commit_bytes
    BY Zenon DEF Carries
  <2>2. CASE ApplyOwn(c, d)
    BY Zenon, <2>2, <1>ForgottenFrame DEF ApplyOwn, ClientTypes
  <2>3. CASE ApplyExternal(c, d)
    <3>1. /\ a.commit_bytes.parent = group[c].sid
          /\ ~(pending_bytes[c] # None /\ pending_bytes[c].commit = a.commit_bytes)
      BY Zenon, <2>1, <2>3 DEF ApplyExternal, CanProcess, IsOwnPending
    <3>2. ASSUME pending[c] # None, NEW b \in accepted
          PROVE  b.commit_bytes # pending[c]
      <4> SUFFICES ASSUME b.commit_bytes = pending[c] PROVE FALSE
        BY Zenon
      <4>1. b.commit_bytes.parent = group[c].sid /\ pending_bytes[c] # None /\ pending_bytes[c].commit = pending[c]
        BY Zenon, <3>2 DEF Staged
      <4>2. a.epoch = group[c].epoch + 1 /\ b.epoch = group[c].epoch + 1
        BY ZenonT(30), <3>1, <4>1, ParentLink
      <4>3. a = b
        BY <4>2 DEF OneChain
      <4> QED
        BY Zenon, <3>1, <4>1, <4>3
    <3>3. /\ \A o \in Clients \ {c} : pending_bytes'[o] = pending_bytes[o] /\ pending'[o] = pending[o]
          /\ pending_bytes'[c] \in {None, pending_bytes[c]}
      BY ZenonT(30), <2>3 DEF ApplyExternal, ClientTypes
    <3>4. pending[c] # None => pending_bytes[c].commit = pending[c]
      BY ZenonT(30) DEF Staged
    <3> QED
      BY SMTT(30), <3>2, <3>3, <3>4 DEF Forgotten
  <2> QED
    BY Zenon, <2>2, <2>3

\* The steps that stage, submit or drop a commit, except for applying one.
<1>CommandForgotten.
    ASSUME IInv, Forgotten, NEW c \in Clients,
           \/ SelfUpdate(c) \/ \E ts \in SUBSET Clients : AddMembers(c, ts) \/ RemoveMembers(c, ts)
           \/ SubmitAccepted(c) \/ SubmitConflict(c) \/ PutExternal(c) \/ JoinFromWelcome(c)
    PROVE  Forgotten'
  <2> USE <1>CommandForgotten
  <2> USE DEF IInv
  <2>1. CASE SelfUpdate(c)
    <3>1. [adds |-> {}, removes |-> {}] \in Intent
      BY Zenon DEF Intent
    <3> QED
      BY Zenon, <2>1, <3>1, <1>StartForgotten, QuietStep DEF SelfUpdate
  <2>2. ASSUME NEW ts \in SUBSET Clients, RemoveMembers(c, ts)
        PROVE  Forgotten'
    <3>1. [adds |-> {}, removes |-> ts] \in Intent
      BY Zenon DEF Intent
    <3> QED
      BY ZenonT(30), <2>2, <3>1, <1>StartForgotten, QuietStep DEF RemoveMembers
  <2>3. ASSUME NEW ts \in SUBSET Clients, AddMembers(c, ts)
        PROVE  Forgotten'
    <3>1. accepted' = accepted
      BY Zenon, <2>3, QuietStep
    <3>2. CASE UNCHANGED clientVars
      BY Zenon, <3>1, <3>2, <1>ForgottenFrame DEF clientVars
    <3> QED
      BY Zenon, <2>3, <3>1, <3>2, Adding, <1>StartForgotten
  <2>4. CASE SubmitAccepted(c)
    <3> DEFINE rec == [group_id |-> G, epoch |-> next_epoch(group[c].epoch), sender |-> c,
                       commit_bytes |-> pending[c], recipients |-> groups[G].members]
    <3>1. pending[c] # None /\ accepted' = accepted \cup {rec} /\ rec.commit_bytes = pending[c]
      BY Zenon, <2>4 DEF SubmitAccepted, AcceptCommit, AtRequest
    <3>2. UNCHANGED <<pending, pending_bytes>>
      BY Zenon, <2>4 DEF SubmitAccepted, clientVars
    <3> HIDE DEF rec
    <3>3. pending[c].id[1] = c
      BY Zenon, <3>1 DEF Staged, MadeBy
    <3> QED
      BY SMTT(30), <3>1, <3>2, <3>3 DEF Forgotten
  <2>5. CASE SubmitConflict(c)
    BY Zenon, <2>5, <1>ForgottenFrame, QuietStep DEF SubmitConflict, ClientTypes
  <2>6. CASE PutExternal(c)
    <3>1. accepted' = accepted
      BY Zenon, <2>6, QuietStep
    <3>2. CASE UNCHANGED clientVars
      BY Zenon, <3>1, <3>2, <1>ForgottenFrame DEF clientVars
    <3>3. CASE queued_intent[c] # None /\ StartIntent(c, queued_intent[c])
      <4>1. queued_intent[c] \in Intent
        BY Zenon, <3>3 DEF WorkerTypes
      <4> QED
        BY Zenon, <3>1, <3>3, <4>1, <1>StartForgotten
    <3> QED
      BY Zenon, <2>6, <3>2, <3>3 DEF PutExternal
  <2>7. CASE JoinFromWelcome(c)
    BY Zenon, <2>7, <1>ForgottenFrame DEF JoinFromWelcome, ClientTypes, serviceVars
  <2> QED
    BY Zenon, <2>1, <2>2, <2>3, <2>4, <2>5, <2>6, <2>7

<1>Step.
    ASSUME IInv, Forgotten, [Next]_vars
    PROVE  Forgotten'
  <2> USE <1>Step
  <2>1. CASE UNCHANGED <<accepted, pending, pending_bytes>>
    BY Zenon, <2>1, <1>ForgottenFrame
  <2>2. CASE UNCHANGED vars \/ ServiceStep
    BY Zenon, <2>1, <2>2 DEF vars, serviceVars, clientVars, ServiceStep, PushToLog, FinishPublish, PushToRecipient
  <2>3. ASSUME NEW c \in Clients, \/ CreateGroup(c) \/ GenerateKeyPackage(c)
                                 \/ \E r \in Clients : PostWelcome(c, r)
        PROVE  Forgotten'
    BY Zenon, <2>1, <2>3 DEF CreateGroup, GenerateKeyPackage, PostWelcome, serviceVars, clientVars
  <2>4. ASSUME NEW c \in Clients,
               \/ SubmitOk(c) \/ SubmitLost(c) \/ GiveUp(c) \/ PutCreated(c) \/ PutOwn(c)
               \/ PutLost(c) \/ AckDelivery(c)
        PROVE  Forgotten'
    <3>1. accepted' = accepted
      BY Zenon, <2>4, QuietStep
    <3>2. UNCHANGED <<pending, pending_bytes>>
      BY Zenon, <2>4 DEF SubmitOk, SubmitLost, GiveUp, PutCreated, PutOwn, PutLost, AckDelivery, clientVars
    <3> QED
      BY Zenon, <2>1, <3>1, <3>2
  <2>5. ASSUME NEW c \in Clients, ReceiveCommit(c)
        PROVE  Forgotten'
    <3>1. PICK d \in fetch_next_pending_commit(c) :
            /\ HandOut(c, d)
            /\ ApplyOwn(c, d) \/ ApplyExternal(c, d) \/ UNCHANGED <<pending, pending_bytes>>
      BY Zenon, <2>5 DEF ReceiveCommit
    <3>2. accepted' = accepted /\ group[c] # None
      BY Zenon, <2>5, <3>1 DEF ReceiveCommit, HandOut
    <3>3. Carries(d)
      BY Zenon, Fetched DEF IInv
    <3> QED
      BY Zenon, <2>1, <3>1, <3>2, <3>3, <1>ApplyForgotten
  <2>6. ASSUME NEW c \in Clients, ProcessPending(c)
        PROVE  Forgotten'
    <3>1. PICK rec \in fetch_pending_commits(c, group[c].epoch) :
            LET d == [AsDelivery(rec, c) EXCEPT !.id = None] IN ApplyOwn(c, d) \/ ApplyExternal(c, d)
      BY Zenon, <2>6 DEF ProcessPending
    <3>2. PICK d : d = [AsDelivery(rec, c) EXCEPT !.id = None]
      BY Zenon
    <3>3. ApplyOwn(c, d) \/ ApplyExternal(c, d)
      BY Zenon, <3>1, <3>2
    <3>4. accepted' = accepted /\ group[c] # None
      BY Zenon, <2>6 DEF ProcessPending, serviceVars
    <3>5. Carries(d)
      BY Zenon, <3>2, FetchedPending DEF IInv
    <3> QED
      BY Zenon, <3>3, <3>4, <3>5, <1>ApplyForgotten
  <2>7. ASSUME NEW c \in Clients, ClientCommand(c) \/ WorkerStep(c) \/ Fault(c)
        PROVE  Forgotten'
    BY Zenon, <2>3, <2>4, <2>7, <1>CommandForgotten DEF ClientCommand, WorkerStep, Fault
  <2> QED
    BY Zenon, <2>2, <2>5, <2>6, <2>7 DEF Next

<1> QED
  BY Zenon, <1>Step

\* The service is one epoch further.
LEMMA AcceptMovesOn ==
  ASSUME IInv, NEW c \in Clients, SubmitAccepted(c)
  PROVE  Epoch = group[c].epoch /\ Epoch \in Nat /\ Epoch' = Epoch + 1
<1> USE DEF IInv
<1>1. /\ groups[G] # None /\ groups[G] \in GroupState /\ groups[G].current_epoch = group[c].epoch
      /\ Epoch = group[c].epoch /\ Epoch \in Nat
  BY Zenon, GroupOfRun DEF SubmitAccepted, AcceptCommit, CommitConflict, Epoch, AcceptedOK, DsTypeOK
<1>2. groups' = [groups EXCEPT ![G] = [groups[G] EXCEPT !.current_epoch = group[c].epoch + 1]]
  BY Zenon DEF SubmitAccepted, AcceptCommit, next_epoch
<1>3. groups' = [groups EXCEPT ![G] = [current_epoch |-> Epoch + 1, members |-> groups[G].members]]
  BY ZenonT(30), <1>1, <1>2, GroupStateUpdate
<1>4. [current_epoch |-> Epoch + 1, members |-> groups[G].members] \in GroupState
  BY SMTT(30), <1>1 DEF GroupState
<1>5. groups'[G] = [current_epoch |-> Epoch + 1, members |-> groups[G].members]
  BY ZenonT(30), <1>3, GroupOfRun DEF DsTypeOK
<1>6. Epoch' = Epoch + 1
  BY <1>4, <1>5, NoneIsNoValue DEF Epoch
<1> QED
  BY Zenon, <1>1, <1>6

\* Applying a commit leaves the other clients alone.
LEMMA ApplyFrame ==
  ASSUME IInv, NEW c \in Clients, NEW d, ApplyOwn(c, d) \/ ApplyExternal(c, d)
  PROVE  /\ \A o \in Clients \ {c} : /\ pc'[o] = pc[o] /\ group'[o] = group[o]
                                     /\ pending'[o] = pending[o] /\ keys'[o] = keys[o]
         /\ pc'[c] # "submit"
<1>1. \E l \in {"welcome", "put_own", "put_external", "ack", "idle"} : Goto(c, l)
  BY Zenon DEF ApplyOwn, ApplyExternal
<1>2. PICK l \in {"welcome", "put_own", "put_external", "ack", "idle"} : pc' = [pc EXCEPT ![c] = l]
  BY Zenon, <1>1 DEF Goto
<1>3. l # "submit"
  BY <1>2
<1>4. /\ \E st : group' = [group EXCEPT ![c] = st]
      /\ pending' = [pending EXCEPT ![c] = None]
      /\ keys' = keys \/ keys' = [keys EXCEPT ![c] = {}]
  BY Zenon DEF ApplyOwn, ApplyExternal
<1> QED
  BY Zenon, <1>2, <1>3, <1>4 DEF IInv, ClientTypes, WorkerTypes

\* RecInv is inductive.
LEMMA NextRec == MaxGiveUps = 0 /\ JoinsAwaitAdder /\ IInv /\ RecInv /\ [Next]_vars => RecInv'
\* A command starts, or ends without an update to tell.
<1>CommandRec.
    ASSUME IInv, RecInv, Forgotten', gave_up' = 0, NEW c \in Clients,
           \/ GenerateKeyPackage(c) \/ SelfUpdate(c)
           \/ \E ts \in SUBSET Clients : AddMembers(c, ts) \/ RemoveMembers(c, ts)
           \/ SubmitOk(c) \/ SubmitConflict(c) \/ SubmitLost(c) \/ AckDelivery(c)
    PROVE  RecInv'
  <2> USE <1>CommandRec
  <2>1. /\ accepted' = accepted /\ group' = group
        /\ \A w : Sent(w)' => Sent(w)
    BY Zenon, QuietStep
  <2>2. groups' = groups
    BY Zenon DEF GenerateKeyPackage, SelfUpdate, AddMembers, RemoveMembers, SubmitOk, SubmitConflict, SubmitLost,
           AckDelivery, ack_commit, serviceVars
  <2>3. \A o \in Clients : pc'[o] = pc[o] \/ ~Updating(o)
    <3>1. CASE GenerateKeyPackage(c)
      BY Zenon, <3>1 DEF GenerateKeyPackage, workerVars
    <3>2. CASE SelfUpdate(c) \/ \E ts \in SUBSET Clients : AddMembers(c, ts) \/ RemoveMembers(c, ts)
      <4>1. pc[c] = "idle" /\ (UNCHANGED pc \/ pc' = [pc EXCEPT ![c] = "submit"])
        BY Zenon, <3>2 DEF SelfUpdate, AddMembers, RemoveMembers, StartIntent, Goto, workerVars
      <4> QED
        BY Zenon, <4>1 DEF Updating, IInv, WorkerTypes
    <3>3. CASE SubmitOk(c) \/ SubmitConflict(c) \/ SubmitLost(c) \/ AckDelivery(c)
      <4>1. /\ pc[c] \in {"await", "submit", "ack"}
            /\ UNCHANGED pc \/ \E l : pc' = [pc EXCEPT ![c] = l]
        BY Zenon, <3>3 DEF SubmitOk, SubmitConflict, SubmitLost, AckDelivery, Return, FinishApply, Goto
      <4> QED
        BY Zenon, <4>1 DEF Updating, IInv, WorkerTypes
    <3> QED
      BY Zenon, <3>1, <3>2, <3>3
  <2> QED
    BY Zenon, <2>1, <2>2, <2>3, RecFrame

\* A PUT tells the service the members of the last epoch, or comes too late.
<1>PutTells.
    ASSUME IInv, NEW c \in Clients, group[c] # None, UpdateDsGroupState(c)
    PROVE  \/ groups' = groups /\ group[c].epoch # Epoch
           \/ /\ group[c].epoch = Epoch
              /\ groups'[G] # None /\ groups'[G].members = group[c].members
  <2> USE <1>PutTells
  <2> USE DEF IInv
  <2>0. groups \in [Groups -> GroupState \cup {None}] /\ G \in Groups
    BY Zenon, GroupOfRun DEF DsTypeOK
  <2>1. /\ group[c].epoch \in Nat /\ group[c].epoch <= Epoch /\ Epoch \in Nat
        /\ group[c].members \in SUBSET Clients
    BY ZenonT(30), OneState DEF ClientTypes, MlsState, AcceptedOK
  <2>2. CASE UNCHANGED serviceVars /\ groups[G] # None /\ groups[G].current_epoch > group[c].epoch
    BY <2>1, <2>2 DEF serviceVars, Epoch
  <2>3. CASE put_group_state(G, group[c].epoch, group[c].members)
    <3> DEFINE st == [current_epoch |-> group[c].epoch, members |-> group[c].members]
    <3>1. st \in GroupState /\ st # None /\ st.members = group[c].members
      BY <2>1, NoneIsNoValue DEF GroupState
    <3>2. group[c].epoch = Epoch /\ groups' = [groups EXCEPT ![G] = st]
      <4>1. CASE groups[G] = None
        BY <2>1, <2>3, <4>1 DEF put_group_state, Epoch
      <4>2. CASE groups[G] # None
        <5>1. groups[G] \in GroupState
          BY Zenon, <2>0, <4>2
        <5>2. /\ groups[G].current_epoch = group[c].epoch
              /\ groups' = [groups EXCEPT ![G] = [groups[G] EXCEPT !.members = group[c].members]]
          BY Zenon, <2>3, <4>2, Zenon DEF put_group_state
        <5> QED
          BY ZenonT(30), <4>2, <5>1, <5>2, GroupStateUpdate DEF Epoch
      <4> QED
        BY Zenon, <4>1, <4>2
    <3> HIDE DEF st
    <3> QED
      BY ZenonT(30), <2>0, <3>1, <3>2
  <2> QED
    BY Zenon, <2>2, <2>3 DEF UpdateDsGroupState

\* The PUTs of the group state.
<1>PutRec.
    ASSUME IInv, RecInv, Forgotten', gave_up' = 0, NEW c \in Clients,
           PutCreated(c) \/ PutOwn(c) \/ PutExternal(c) \/ PutLost(c)
    PROVE  RecInv'
  <2> USE <1>PutRec
  <2>1. /\ accepted' = accepted /\ group' = group /\ Epoch' = Epoch
        /\ \A w : Sent(w)' => Sent(w)
    BY Zenon, QuietStep
  <2>2. group[c] # None /\ UpdateDsGroupState(c)
    BY ZenonT(30) DEF PutCreated, PutOwn, PutExternal, PutLost, IInv, AtRequest
  <2>3. CASE groups' = groups /\ group[c].epoch # Epoch
    <3>1. \A o \in Clients : pc'[o] = pc[o] \/ group[o].epoch # Epoch
      <4>1. UNCHANGED pc \/ \E l : pc' = [pc EXCEPT ![c] = l]
        BY Zenon DEF PutCreated, PutOwn, PutExternal, PutLost, Return, FinishApply, StartIntent, Goto, workerVars
      <4> QED
        BY Zenon, <2>3, <4>1 DEF IInv, WorkerTypes
    <3> QED
      BY Zenon, <2>1, <2>3, <3>1, RecFrame
  <2>4. CASE group[c].epoch = Epoch /\ groups'[G] # None /\ groups'[G].members = group[c].members
    <3>1. KnownSoon'
      BY ZenonT(30), <2>1, <2>2, <2>4, OneState DEF KnownSoon, Known
    <3>2. \A w : Sent(w)' => WelcomeKnown(w)'
      BY Zenon, <2>1, <2>2, <2>4, OneState DEF WelcomeKnown, Known
    <3>3. RecipientsAreMembers'
      BY Zenon, <2>1 DEF RecInv, RecipientsAreMembers
    <3> QED
      BY Zenon, <3>1, <3>2, <3>3 DEF RecInv
  <2> QED
    BY Zenon, <2>2, <2>3, <2>4, <1>PutTells

\* A commit is accepted: its author's members are known, and none is yet in
\* the new epoch.
<1>AcceptRec.
    ASSUME IInv, RecInv, Forgotten', gave_up' = 0, NEW c \in Clients, SubmitAccepted(c)
    PROVE  RecInv'
  <2> USE <1>AcceptRec
  <2> USE DEF IInv
  <2> DEFINE rec == [group_id |-> G, epoch |-> next_epoch(group[c].epoch), sender |-> c,
                     commit_bytes |-> pending[c], recipients |-> groups[G].members]
  <2>1. /\ pc[c] = "submit" /\ pending[c] # None /\ group[c] # None
        /\ groups[G] # None /\ groups[G] \in GroupState /\ groups[G].current_epoch = group[c].epoch
        /\ Epoch = group[c].epoch /\ Epoch \in Nat
    BY Zenon, GroupOfRun DEF SubmitAccepted, AcceptCommit, CommitConflict, AtRequest, Epoch, AcceptedOK, DsTypeOK
  <2>2. accepted' = accepted \cup {rec} /\ rec.commit_bytes = pending[c] /\ rec.recipients = groups[G].members
    BY Zenon DEF SubmitAccepted, AcceptCommit
  <2>3. UNCHANGED <<group, pending, pending_bytes, welcoming, welcome_inboxes>>
    BY Zenon DEF SubmitAccepted, clientVars, mailVars
  <2> HIDE DEF rec
  <2>4. Epoch' = Epoch + 1
    BY Zenon, AcceptMovesOn
  <2>5. rec.recipients = rec.commit_bytes.roster
    <3>1. Known(group[c].members)
      BY Zenon, <2>1 DEF RecInv, KnownSoon, Updating
    <3>2. pending[c].roster = group[c].members
      BY Zenon, <2>1 DEF Staged
    <3> QED
      BY Zenon, <2>2, <3>1, <3>2 DEF Known
  <2>6. RecipientsAreMembers'
    BY ZenonT(30), <2>2, <2>5 DEF RecInv, RecipientsAreMembers
  <2>7. KnownSoon'
    <3>1. ASSUME NEW o \in Clients, group[o] # None
          PROVE  group[o].epoch # Epoch + 1
      <4>1. group[o].epoch \in Nat /\ group[o].epoch <= Epoch
        BY ZenonT(30), <3>1, OneState
      <4> QED
        BY <2>1, <4>1
    <3> QED
      BY Zenon, <2>3, <2>4, <3>1 DEF KnownSoon
  <2>8. ASSUME NEW w, Sent(w)' PROVE WelcomeKnown(w)'
    <3>1. IsReleased(w)
      BY ZenonT(30), <2>3, <2>8 DEF Sent, Released
    <3>2. w.state.epoch \in 1..Epoch
      <4>1. PICK a \in accepted : w = WelcomeFor(a.commit_bytes)
        BY Zenon, <3>1 DEF IsReleased
      <4>2. w.state.epoch = a.commit_bytes.epoch + 1
        BY Zenon, <4>1 DEF WelcomeFor, Result
      <4> QED
        BY Zenon, <4>1, <4>2 DEF AcceptedOK
    <3> QED
      BY SMTT(30), <2>1, <2>4, <3>2 DEF WelcomeKnown
  <2> QED
    BY Zenon, <2>6, <2>7, <2>8 DEF RecInv

\* JoinFromWelcome, sent when no adder is still to tell the members.
<1>JoinRec.
    ASSUME JoinsAwaitAdder, IInv, RecInv, Forgotten', gave_up' = 0, NEW c \in Clients, JoinFromWelcome(c)
    PROVE  RecInv'
  <2> USE <1>JoinRec
  <2> USE DEF IInv
  <2> DEFINE w == Head(welcome_inboxes[c])
  <2>1. /\ UNCHANGED <<groups, accepted, pc>>
        /\ pc[c] = "idle"
        /\ \A o \in Clients : pc[o] \notin {"welcome", "put_own"}
        /\ Sent(w)
    BY Zenon, PoppedSent DEF JoinFromWelcome, serviceVars, workerVars
  <2>2. Epoch' = Epoch /\ \A m : Known(m)' <=> Known(m)
    BY Zenon, <2>1 DEF Epoch, Known
  <2>3. \A o \in Clients : group'[o] \in {None, group[o], w.state}
    BY Zenon DEF JoinFromWelcome, ClientTypes
  <2> HIDE DEF w
  <2>4. \A v : Sent(v) /\ v.state.epoch = Epoch => Known(v.state.members)
    BY Zenon, <2>1 DEF RecInv, WelcomeKnown
  <2>5. KnownSoon'
    <3> SUFFICES ASSUME NEW o \in Clients, group'[o] # None, group'[o].epoch = Epoch, ~Updating(o)
                 PROVE  Known(group'[o].members)
      BY Zenon, <2>1, <2>2 DEF KnownSoon, Updating
    <3> QED
      BY Zenon, <2>1, <2>3, <2>4 DEF RecInv, KnownSoon
  <2>6. \A v : Sent(v)' => WelcomeKnown(v)'
    BY Zenon, <2>2, <2>4, PassedOn DEF WelcomeKnown
  <2>7. RecipientsAreMembers'
    BY Zenon, <2>1 DEF RecInv, RecipientsAreMembers
  <2> QED
    BY Zenon, <2>5, <2>6, <2>7 DEF RecInv

\* Posting a welcome.
<1>PostRec.
    ASSUME IInv, RecInv, Forgotten', gave_up' = 0, NEW c \in Clients, NEW r \in Clients, PostWelcome(c, r)
    PROVE  RecInv'
  <2> USE <1>PostRec
  <2>1. UNCHANGED <<groups, accepted, group>>
    BY Zenon DEF PostWelcome, serviceVars, clientVars
  <2>2. \A w : Sent(w)' => Sent(w)
    BY Zenon, PassedOn
  <2>3. \A o \in Clients : pc'[o] = pc[o] \/ (pc[o] = "welcome" /\ pc'[o] = "put_own")
    <3>1. /\ pc[c] = "welcome"
          /\ \/ pc' = pc
             \/ pc' = [pc EXCEPT ![c] = "put_own"]
             \/ pc' = [pc EXCEPT ![c] = "welcome"]
      BY Zenon DEF PostWelcome, Goto
    <3>2. pc \in [Clients -> Labels]
      BY Zenon DEF IInv, WorkerTypes
    <3> QED
      BY Zenon, <3>1, <3>2
  <2> QED
    BY Zenon, <2>1, <2>2, <2>3, RecFrame DEF Updating

\* The founder has yet to tell the service that it is the member.
<1>CreateRec.
    ASSUME IInv, RecInv, Forgotten', gave_up' = 0, NEW c \in Clients, CreateGroup(c)
    PROVE  RecInv'
  <2> USE <1>CreateRec
  <2>1. UNCHANGED <<groups, accepted, welcoming, welcome_inboxes>>
    BY Zenon DEF CreateGroup, serviceVars, mailVars
  <2>2. \A o \in Clients : group'[o] = None \/ Updating(o)'
    BY Zenon DEF CreateGroup, Goto, Updating, IInv, ClientTypes, WorkerTypes
  <2>3. Epoch = 0 /\ Epoch' = 0
    BY Zenon, <2>1 DEF CreateGroup, Epoch
  <2>4. KnownSoon'
    BY Zenon, <2>2 DEF KnownSoon
  <2>5. ASSUME NEW w, Sent(w)' PROVE FALSE
    <3>1. IsReleased(w)
      BY Zenon, <2>1, <2>5 DEF Sent, IInv, Released
    <3> QED
      BY SMTT(30), <2>3, <3>1 DEF IsReleased, IInv, AcceptedOK
  <2>6. RecipientsAreMembers'
    BY Zenon, <2>1 DEF RecInv, RecipientsAreMembers
  <2> QED
    BY Zenon, <2>4, <2>5, <2>6 DEF RecInv

\* The service's own steps.
<1>ServiceRec.
    ASSUME IInv, RecInv, Forgotten', gave_up' = 0, ServiceStep
    PROVE  RecInv'
  <2> USE <1>ServiceRec
  <2>1. UNCHANGED <<groups, accepted, group, welcoming, welcome_inboxes, pc>>
    BY Zenon DEF ServiceStep, PushToLog, FinishPublish, PushToRecipient, mailVars, clientVars, workerVars
  <2>2. \A w : Sent(w)' => Sent(w)
    BY Zenon, <2>1 DEF Sent
  <2> QED
    BY Zenon, <2>1, <2>2, RecFrame

\* Applying a commit: its author, or the member that applies it, will now tell
\* the service the members.
<1>ApplyRec.
    ASSUME IInv, RecInv, Forgotten', gave_up' = 0, NEW c \in Clients, group[c] # None, pc[c] = "idle",
           NEW d, Carries(d), ApplyOwn(c, d) \/ ApplyExternal(c, d),
           UNCHANGED <<groups, accepted, welcome_inboxes>>
    PROVE  RecInv'
  <2> USE <1>ApplyRec
  <2> USE DEF IInv
  <2>1. PICK a \in accepted : a.commit_bytes = d.commit_bytes
    BY Zenon DEF Carries
  <2>2. Epoch' = Epoch /\ \A m : Known(m)' <=> Known(m)
    BY ZenonT(30) DEF Epoch, Known
  <2>3. \A o \in Clients \ {c} : pc'[o] = pc[o] /\ group'[o] = group[o]
    BY Zenon, ApplyFrame
  <2>4. group'[c] = None \/ Updating(c)'
    BY ZenonT(30) DEF ApplyOwn, ApplyExternal, Goto, Updating, ClientTypes, WorkerTypes
  <2>5. KnownSoon'
    <3> SUFFICES ASSUME NEW o \in Clients \ {c}, group[o] # None, group[o].epoch = Epoch, ~Updating(o)
                 PROVE  Known(group[o].members)
      BY Zenon, <2>2, <2>3, <2>4 DEF KnownSoon, Updating
    <3> QED
      BY Zenon DEF RecInv, KnownSoon
  <2>6. \A w : Sent(w) => WelcomeKnown(w)'
    <3> SUFFICES ASSUME NEW w, Sent(w), w.state.epoch = Epoch, ~Known(w.state.members)
                 PROVE  \E o \in Clients : pc'[o] \in {"welcome", "put_own"} /\ group'[o] = w.state
      BY ZenonT(30), <2>2 DEF WelcomeKnown
    <3>1. PICK o \in Clients : pc[o] \in {"welcome", "put_own"} /\ group[o] = w.state
      BY Zenon DEF RecInv, WelcomeKnown
    <3>2. o # c
      BY Zenon, <3>1
    <3> QED
      BY Zenon, <2>3, <3>1, <3>2
  <2>7. RecipientsAreMembers'
    BY Zenon DEF RecInv, RecipientsAreMembers
  <2>8. CASE ApplyOwn(c, d)
    <3>1. pending_bytes[c] # None /\ pending_bytes[c].commit = a.commit_bytes
      BY Zenon, <2>1, <2>8 DEF ApplyOwn, IsOwnPending
    <3>2. pending[c] # None /\ pending[c] = a.commit_bytes
      BY Zenon, <3>1 DEF RecInv, Forgotten, Staged
    <3>3. Merged(group[c], pending[c]) = Result(pending[c])
      BY ZenonT(30), <3>2, MergedResult DEF Staged
    <3>4. ASSUME NEW w, Sent(w)', ~Sent(w)
          PROVE  WelcomeKnown(w)'
      <4>1. pending_bytes[c].welcome # None /\ w = WelcomeFor(pending[c])
        BY Zenon, <2>8, <3>1, <3>2, <3>4, ApplySends DEF Remembered
      <4>2. w.state = Result(pending[c])
        BY Zenon, <4>1 DEF WelcomeFor
      <4>3. group'[c] = Result(pending[c]) /\ pc'[c] = "welcome"
        BY Zenon, <2>8, <3>2, <3>3, <4>1 DEF ApplyOwn, Goto, ClientTypes, WorkerTypes
      <4> QED
        BY ZenonT(30), <4>2, <4>3 DEF WelcomeKnown
    <3> QED
      BY Zenon, <2>5, <2>6, <2>7, <3>4 DEF RecInv
  <2>9. CASE ApplyExternal(c, d)
    <3>1. \A w : Sent(w)' => Sent(w)
      BY Zenon, <2>9, ApplySends DEF ApplyOwn, ApplyExternal
    <3> QED
      BY Zenon, <2>5, <2>6, <2>7, <3>1 DEF RecInv
  <2> QED
    BY Zenon, <2>8, <2>9

\* ReceiveCommit and ProcessPending.
<1>ReceiveRec.
    ASSUME IInv, RecInv, Forgotten', gave_up' = 0, NEW c \in Clients, ReceiveCommit(c) \/ ProcessPending(c)
    PROVE  RecInv'
  <2> USE <1>ReceiveRec
  <2>1. CASE ReceiveCommit(c)
    <3>1. PICK d \in fetch_next_pending_commit(c) :
            /\ HandOut(c, d)
            /\ \/ ApplyOwn(c, d) \/ ApplyExternal(c, d)
               \/ UNCHANGED <<group, welcoming>> /\ (UNCHANGED pc \/ Goto(c, "ack"))
      BY Zenon, <2>1 DEF ReceiveCommit
    <3>2. UNCHANGED <<groups, accepted, welcome_inboxes>> /\ group[c] # None /\ pc[c] = "idle"
      BY Zenon, <2>1, <3>1 DEF ReceiveCommit, HandOut, mailVars
    <3>3. Carries(d)
      BY Zenon, Fetched DEF IInv
    <3>4. CASE UNCHANGED <<group, welcoming>> /\ (UNCHANGED pc \/ Goto(c, "ack"))
      <4>1. \A o \in Clients : pc'[o] = pc[o] \/ ~Updating(o)
        BY Zenon, <3>2, <3>4 DEF Goto, Updating, IInv, WorkerTypes
      <4>2. \A w : Sent(w)' => Sent(w)
        BY ZenonT(30), <3>2, <3>4 DEF Sent
      <4> QED
        BY Zenon, <3>2, <3>4, <4>1, <4>2, RecFrame
    <3> QED
      BY Zenon, <3>1, <3>2, <3>3, <3>4, <1>ApplyRec
  <2>2. CASE ProcessPending(c)
    <3>1. PICK rec \in fetch_pending_commits(c, group[c].epoch) :
            LET d == [AsDelivery(rec, c) EXCEPT !.id = None] IN ApplyOwn(c, d) \/ ApplyExternal(c, d)
      BY Zenon, <2>2 DEF ProcessPending
    <3>2. PICK d : d = [AsDelivery(rec, c) EXCEPT !.id = None]
      BY Zenon
    <3>3. ApplyOwn(c, d) \/ ApplyExternal(c, d)
      BY Zenon, <3>1, <3>2
    <3>4. UNCHANGED <<groups, accepted, welcome_inboxes>> /\ group[c] # None /\ pc[c] = "idle"
      BY Zenon, <2>2 DEF ProcessPending, serviceVars, mailVars
    <3>5. Carries(d)
      BY Zenon, <3>2, FetchedPending DEF IInv
    <3> QED
      BY Zenon, <3>3, <3>4, <3>5, <1>ApplyRec
  <2> QED
    BY Zenon, <2>1, <2>2

<1>Step.
    ASSUME MaxGiveUps = 0, JoinsAwaitAdder, IInv, RecInv, [Next]_vars
    PROVE  RecInv'
  <2> USE <1>Step
  <2>1. Forgotten' /\ gave_up' = 0 /\ \A c \in Clients : ~GiveUp(c)
    BY Zenon, NeverGivesUp, NextForgotten DEF RecInv
  <2>2. CASE UNCHANGED vars
    <3>1. UNCHANGED <<groups, accepted, group, welcoming, welcome_inboxes, pc>>
      BY Zenon, <2>2 DEF vars, serviceVars, mailVars, clientVars, workerVars
    <3> QED
      BY Zenon, <2>1, <3>1, RecFrame DEF Sent
  <2>3. ASSUME NEW c \in Clients, ClientCommand(c)
        PROVE  RecInv'
    BY Zenon, <2>1, <2>3, <1>CreateRec, <1>CommandRec, <1>JoinRec DEF ClientCommand
  <2>4. ASSUME NEW c \in Clients, WorkerStep(c)
        PROVE  RecInv'
    BY Zenon, <2>1, <2>4, <1>AcceptRec, <1>CommandRec, <1>PostRec, <1>PutRec DEF WorkerStep
  <2>5. ASSUME NEW c \in Clients, Fault(c)
        PROVE  RecInv'
    BY Zenon, <2>1, <2>5, <1>CommandRec, <1>PutRec DEF Fault
  <2>6. ASSUME NEW c \in Clients, ReceiveCommit(c) \/ ProcessPending(c)
        PROVE  RecInv'
    BY Zenon, <2>1, <2>6, <1>ReceiveRec
  <2>7. CASE ServiceStep
    BY Zenon, <2>1, <2>7, <1>ServiceRec
  <2> QED
    BY Zenon, <2>2, <2>3, <2>4, <2>5, <2>6, <2>7 DEF Next

<1> QED
  BY Zenon, <1>Step

\* As long as no worker gives a command up, and joins wait for the adder, the
\* list of members at the service is never stale when it is used: a commit
\* goes to exactly the members of the state it was made on, whatever races
\* there are and answers are lost.
THEOREM RecipientsAreMembersHolds ==
  ASSUME MaxGiveUps = 0, JoinsAwaitAdder
  PROVE  Spec => []RecipientsAreMembers
<1>1. Init => RecInv
  <2> SUFFICES ASSUME Init PROVE RecInv
    BY Zenon
  <2>1. /\ accepted = {} /\ gave_up = 0
        /\ \A c \in Clients : /\ pending_bytes[c] = None /\ group[c] = None
                              /\ welcoming[c] = None /\ welcome_inboxes[c] = <<>>
    BY Zenon DEF Init, DsInit
  <2>2. \A w : ~Sent(w)
    <3>1. \A i \in 1..Len(<< >>) : FALSE
      OBVIOUS
    <3> QED
      BY Zenon, <2>1, <3>1 DEF Sent
  <2> QED
    BY Zenon, <2>1, <2>2 DEF RecInv, Forgotten, KnownSoon, RecipientsAreMembers
<1>2. IInv /\ RecInv /\ [Next]_vars => RecInv'
  BY Zenon, NextRec
<1>3. RecInv => RecipientsAreMembers
  BY Zenon DEF RecInv
<1> QED
  BY <1>1, <1>2, <1>3, IInvHolds, PTL DEF Spec

----------------------------------------------------------------------------
(* The committer *)

\* c is a member after each accepted commit from epoch lo to epoch hi.
Stays(c, lo, hi) ==
    \A x \in accepted : x.epoch \in lo..hi => c \in Result(x.commit_bytes).members

\* c has made no commit that is still ahead of it, or of a welcome it can still
\* use, unless it is removed in between.
NoneAhead ==
    \A c \in Clients : group[c] # None =>
      \A b \in accepted : b.sender = c /\ b.epoch > group[c].epoch + 1 =>
        ~Stays(c, group[c].epoch + 1, b.epoch - 1)

Unused(c, a) == a.commit_bytes.adds \cap keys[c] # {}

WelcomedOnce ==
    \A c \in Clients : \A a \in accepted : Unused(c, a) =>
      /\ \A b \in accepted : b.sender = c /\ b.epoch > a.epoch => ~Stays(c, a.epoch, b.epoch - 1)
      /\ group[c] # None /\ group[c].epoch >= a.epoch => ~Stays(c, a.epoch, group[c].epoch)

\* Key packages in use are among those generated.
Old(adds) == \A kp \in adds : kp[2] <= made[kp[1]].key_packages

AllOld ==
    /\ \A c \in Clients :
         /\ key_packages[c] # None => Old({key_packages[c]})
         /\ queued_intent[c] # None => Old(queued_intent[c].adds)
         /\ intent[c] # None => Old(intent[c].adds)
         /\ pending[c] # None => Old(pending[c].adds)
    /\ \A a \in accepted : Old(a.commit_bytes.adds)

\* A commit that was accepted is submitted again only if the answer was lost.
SubmittedOnce ==
    \A c \in Clients : pc[c] = "submit" =>
      \A a \in accepted : a.commit_bytes = pending[c] => a.commit_bytes \in unanswered

\* The own commit that comes next, if its author got the answer, is the one
\* that is staged.
NextIsStaged ==
    \A a \in accepted :
      (/\ group[a.sender] # None
       /\ a.epoch = group[a.sender].epoch + 1
       /\ a.commit_bytes \notin unanswered) => pending[a.sender] = a.commit_bytes

CommitterInv == NoneAhead /\ WelcomedOnce /\ AllOld /\ SubmittedOnce /\ NextIsStaged

\* How a client moves along the history: not at all, out of the group, on by
\* one commit, or in by a welcome that it can use.
Rests(c) == group'[c] = group[c] /\ keys'[c] = keys[c]
Leaves(c) == group'[c] = None /\ keys'[c] \subseteq keys[c]
Advances(c) ==
    /\ group[c] # None /\ keys'[c] = keys[c]
    /\ \E a \in accepted : /\ a.epoch = group[c].epoch + 1
                           /\ c \in Result(a.commit_bytes).members
                           /\ group'[c] = Result(a.commit_bytes)
Enters(c) ==
    \E a \in accepted : /\ Unused(c, a)
                        /\ group'[c] = Result(a.commit_bytes)
                        /\ keys'[c] = keys[c] \ a.commit_bytes.adds

\* What the chain of accepted commits says about epochs.
LEMMA ChainFacts ==
  ASSUME IInv
  PROVE  /\ Epoch \in Nat
         /\ \A a \in accepted : /\ a.epoch \in 1..Epoch /\ a.epoch \in Nat /\ a.epoch <= Epoch
                                /\ Result(a.commit_bytes).epoch = a.epoch
                                /\ Result(a.commit_bytes) # None /\ a.sender \in Clients
                                /\ \A b \in accepted : a.epoch = b.epoch => a = b
         /\ \A e \in 1..Epoch : \E a \in accepted : a.epoch = e
         /\ \A c \in Clients : group[c] # None =>
              group[c].epoch \in 0..Epoch /\ group[c].epoch \in Nat /\ group[c].epoch <= Epoch
<1> USE DEF IInv
<1>1. Epoch \in Nat /\ \A e \in 1..Epoch : \E a \in accepted : a.epoch = e
  BY Zenon DEF AcceptedOK
<1>2. \A a \in accepted : a.epoch \in 1..Epoch /\ Result(a.commit_bytes).epoch = a.epoch
  BY Zenon DEF AcceptedOK, Result
<1>3. ASSUME NEW a \in accepted
      PROVE  Result(a.commit_bytes) # None /\ a.sender \in Clients
  <2>1. a.commit_bytes \in MlsCommit /\ a.sender \in Clients
    BY Zenon DEF DsTypeOK, GroupLogCommit
  <2> QED
    BY Zenon, <2>1, ResultType, NoneIsNoValue
<1>4. \A a, b \in accepted : a.epoch = b.epoch => a = b
  BY Zenon DEF OneChain
<1>5. \A c \in Clients : group[c] # None => group[c].epoch \in Nat
  BY Zenon DEF ClientTypes, MlsState
<1>6. \A c \in Clients : group[c] # None => group[c].epoch \in 0..Epoch
  BY <1>1, <1>2, <1>5 DEF OnHistory
<1>7. \A e \in 1..Epoch : e \in Nat /\ e <= Epoch
  BY <1>1
<1>8. \A e \in 0..Epoch : e \in Nat /\ e <= Epoch
  BY <1>1
<1> QED
  BY Zenon, <1>1, <1>2, <1>3, <1>4, <1>6, <1>7, <1>8

\* A commit is made on the members of the state before it.
LEMMA RosterLink ==
  ASSUME IInv, NEW c \in Clients, group[c] # None, NEW a \in accepted, a.epoch = group[c].epoch + 1
  PROVE  a.commit_bytes.roster = group[c].members
<1> USE DEF IInv
<1>1. CASE group[c].epoch = 0
  <2>1. a.epoch = 1 /\ AtStart(c)
    BY <1>1 DEF AtStart
  <2>2. a.commit_bytes.roster = {c} /\ group[c] = NewGroup(c)
    BY Zenon, <2>1 DEF OneFounder
  <2> QED
    BY <2>2 DEF NewGroup
<1>2. CASE group[c].epoch # 0
  <2>1. PICK b \in accepted : group[c] = Result(b.commit_bytes)
    BY Zenon, <1>2 DEF OnHistory
  <2>2. a.epoch = b.epoch + 1
    BY Zenon, <2>1, ChainFacts
  <2> QED
    BY <2>1, <2>2 DEF OneChain
<1> QED
  BY Zenon, <1>1, <1>2

\* A client that can use a welcome is in the state it leads to and was not in
\* the one before.
LEMMA UnusedFacts ==
  ASSUME IInv, NEW c \in Clients, NEW a \in accepted, Unused(c, a)
  PROVE  /\ c \in Result(a.commit_bytes).members
         /\ c \notin a.commit_bytes.roster
<1> USE DEF IInv
<1>1. PICK kp \in a.commit_bytes.adds : kp \in keys[c]
  BY Zenon DEF Unused
<1>2. kp[1] = c
  BY Zenon, <1>1 DEF OwnKeys
<1>3. c \in Added(a.commit_bytes.adds)
  BY Zenon, <1>1, <1>2 DEF Added
<1>4. Added(a.commit_bytes.adds) \cap a.commit_bytes.roster = {}
  BY Zenon DEF AcceptedOK, MadeBy
<1> QED
  BY Zenon, <1>3, <1>4 DEF Result

\* Clients that move so keep clear of their own commits.
LEMMA MovesKeep ==
  ASSUME IInv, NoneAhead, WelcomedOnce, accepted' = accepted,
         \A c \in Clients : Rests(c) \/ Leaves(c) \/ Advances(c) \/ Enters(c)
  PROVE  NoneAhead' /\ WelcomedOnce'
<1>1. \A c, lo, hi : Stays(c, lo, hi)' <=> Stays(c, lo, hi)
  BY Zenon DEF Stays
<1>2. ASSUME NEW c \in Clients, group'[c] # None, NEW b \in accepted, b.sender = c,
             b.epoch > group'[c].epoch + 1
      PROVE  ~Stays(c, group'[c].epoch + 1, b.epoch - 1)
  <2>1. CASE Rests(c)
    BY Zenon, <1>2, <2>1 DEF Rests, NoneAhead
  <2>2. CASE Advances(c)
    <3>1. PICK a \in accepted : /\ a.epoch = group[c].epoch + 1 /\ group[c] # None
                                /\ c \in Result(a.commit_bytes).members
                                /\ group'[c] = Result(a.commit_bytes)
      BY Zenon, <2>2 DEF Advances
    <3>2. group'[c].epoch = a.epoch /\ a.epoch \in Nat /\ b.epoch \in Nat /\ group[c].epoch \in Nat
      BY Zenon, <3>1, ChainFacts
    <3>3. ~Stays(c, group[c].epoch + 1, b.epoch - 1)
      <4>1. b.epoch > group[c].epoch + 1
        BY <1>2, <3>1, <3>2
      <4> QED
        BY Zenon, <1>2, <3>1, <4>1 DEF NoneAhead
    <3>4. PICK x \in accepted : x.epoch \in a.epoch..(b.epoch - 1) /\ c \notin Result(x.commit_bytes).members
      BY Zenon, <3>1, <3>3 DEF Stays
    <3>5. x.epoch # a.epoch
      BY Zenon, <3>1, <3>4, ChainFacts
    <3>6. x.epoch \in (group'[c].epoch + 1)..(b.epoch - 1)
      BY <3>2, <3>4, <3>5
    <3> QED
      BY Zenon, <3>4, <3>6 DEF Stays
  <2>3. CASE Enters(c)
    <3>1. PICK a \in accepted : Unused(c, a) /\ group'[c] = Result(a.commit_bytes)
      BY Zenon, <2>3 DEF Enters
    <3>2. group'[c].epoch = a.epoch /\ a.epoch \in Nat /\ b.epoch \in Nat
      BY Zenon, <3>1, ChainFacts
    <3>3. ~Stays(c, a.epoch, b.epoch - 1)
      <4>1. b.epoch > a.epoch
        BY <1>2, <3>2
      <4> QED
        BY Zenon, <1>2, <3>1, <4>1 DEF WelcomedOnce
    <3>4. PICK x \in accepted : x.epoch \in a.epoch..(b.epoch - 1) /\ c \notin Result(x.commit_bytes).members
      BY Zenon, <3>3 DEF Stays
    <3>5. x.epoch # a.epoch
      BY ZenonT(30), <3>1, <3>4, ChainFacts, UnusedFacts
    <3>6. x.epoch \in (group'[c].epoch + 1)..(b.epoch - 1)
      BY <3>2, <3>4, <3>5
    <3> QED
      BY Zenon, <3>4, <3>6 DEF Stays
  <2> QED
    BY Zenon, <1>2, <2>1, <2>2, <2>3 DEF Leaves
<1>3. ASSUME NEW c \in Clients, NEW a \in accepted, Unused(c, a)'
      PROVE  Unused(c, a)
  BY Zenon, <1>3 DEF Unused, Rests, Leaves, Advances, Enters
<1>4. ASSUME NEW c \in Clients, NEW a \in accepted, Unused(c, a)', Unused(c, a),
             group'[c] # None, group'[c].epoch >= a.epoch
      PROVE  ~Stays(c, a.epoch, group'[c].epoch)
  <2>1. CASE Rests(c)
    BY Zenon, <1>4, <2>1 DEF Rests, WelcomedOnce
  <2>2. CASE Advances(c)
    <3>1. PICK b \in accepted : /\ b.epoch = group[c].epoch + 1 /\ group[c] # None
                                /\ c \in Result(b.commit_bytes).members
                                /\ group'[c] = Result(b.commit_bytes)
      BY Zenon, <2>2 DEF Advances
    <3>2. group'[c].epoch = b.epoch /\ a.epoch \in Nat /\ b.epoch \in Nat /\ group[c].epoch \in Nat
      BY Zenon, <3>1, ChainFacts
    <3>3. c \in b.commit_bytes.roster
      BY Zenon, <3>1, RosterLink DEF IInv, OnHistory
    <3>4. a.epoch # b.epoch
      BY Zenon, <1>4, <3>3, ChainFacts, UnusedFacts
    <3>5. group[c].epoch >= a.epoch
      BY <1>4, <3>1, <3>2, <3>4
    <3>6. PICK x \in accepted : x.epoch \in a.epoch..group[c].epoch /\ c \notin Result(x.commit_bytes).members
      BY Zenon, <1>4, <3>1, <3>5 DEF WelcomedOnce, Stays
    <3>7. x.epoch \in a.epoch..group'[c].epoch
      BY <3>1, <3>2, <3>6
    <3> QED
      BY Zenon, <3>6, <3>7 DEF Stays
  <2>3. CASE Enters(c)
    <3>1. PICK b \in accepted : /\ Unused(c, b) /\ group'[c] = Result(b.commit_bytes)
                                /\ keys'[c] = keys[c] \ b.commit_bytes.adds
      BY Zenon, <2>3 DEF Enters
    <3>2. group'[c].epoch = b.epoch /\ a.epoch \in 1..Epoch /\ b.epoch \in 1..Epoch /\ Epoch \in Nat
      BY Zenon, <3>1, ChainFacts
    <3>3. a # b
      BY Zenon, <1>4, <3>1 DEF Unused
    <3>4. a.epoch <= b.epoch - 1
      <4>1. a.epoch # b.epoch
        BY Zenon, <3>3, ChainFacts
      <4> QED
        BY <1>4, <3>2, <4>1
    <3>5. PICK x \in accepted : x.epoch = b.epoch - 1
      <4>1. b.epoch - 1 \in 1..Epoch
        BY <3>2, <3>4
      <4> QED
        BY Zenon, <4>1, ChainFacts
    <3>6. b.epoch = x.epoch + 1
      BY <3>2, <3>5
    <3>7. c \notin Result(x.commit_bytes).members
      BY Zenon, <3>1, <3>6, UnusedFacts DEF IInv, OneChain
    <3>8. x.epoch \in a.epoch..group'[c].epoch
      BY <3>2, <3>4, <3>5
    <3> QED
      BY Zenon, <3>7, <3>8 DEF Stays
  <2> QED
    BY Zenon, <1>4, <2>1, <2>2, <2>3 DEF Leaves
<1>5. NoneAhead'
  BY Zenon, <1>1, <1>2 DEF NoneAhead
<1>6. WelcomedOnce'
  BY Zenon, <1>1, <1>3, <1>4 DEF WelcomedOnce
<1> QED
  BY Zenon, <1>5, <1>6

\* Nor do they meet one that they no longer have staged.
LEMMA MovesKeepStaged ==
  ASSUME IInv, NoneAhead, WelcomedOnce, NextIsStaged, accepted' = accepted, unanswered \subseteq unanswered',
         \A c \in Clients : \/ Rests(c) /\ pending'[c] = pending[c]
                            \/ Rests(c) /\ pending[c] = None
                            \/ Leaves(c) \/ Advances(c) \/ Enters(c)
  PROVE  NextIsStaged'
<1> SUFFICES ASSUME NEW b \in accepted, group'[b.sender] # None, b.epoch = group'[b.sender].epoch + 1,
                    b.commit_bytes \notin unanswered
             PROVE  pending'[b.sender] = b.commit_bytes
  BY Zenon DEF NextIsStaged
<1>1. b.sender \in Clients /\ b.epoch \in Nat
  BY Zenon, ChainFacts
<1> DEFINE c == b.sender
<1>2. CASE Rests(c) /\ pending'[c] = pending[c]
  BY Zenon, <1>2 DEF NextIsStaged, Rests
<1>3. CASE Rests(c) /\ pending[c] = None
  <2>1. b.commit_bytes # None
    BY Zenon, NoneIsNoValue DEF IInv, DsTypeOK, GroupLogCommit
  <2> QED
    BY Zenon, <1>3, <2>1 DEF NextIsStaged, Rests
<1>4. CASE Advances(c)
  <2>1. PICK a \in accepted : /\ a.epoch = group[c].epoch + 1 /\ group[c] # None
                              /\ c \in Result(a.commit_bytes).members
                              /\ group'[c] = Result(a.commit_bytes)
    BY Zenon, <1>4 DEF Advances
  <2>2. group'[c].epoch = a.epoch /\ a.epoch \in Nat /\ group[c].epoch \in Nat
    BY Zenon, <1>1, <2>1, ChainFacts
  <2>3. b.epoch > group[c].epoch + 1 /\ \A e \in (group[c].epoch + 1)..(b.epoch - 1) : e = a.epoch
    BY <1>1, <2>1, <2>2
  <2>4. PICK x \in accepted : x.epoch = a.epoch /\ c \notin Result(x.commit_bytes).members
    BY Zenon, <1>1, <2>1, <2>3 DEF NoneAhead, Stays
  <2> QED
    BY Zenon, <2>1, <2>4, ChainFacts
<1>5. CASE Enters(c)
  <2>1. PICK a \in accepted : Unused(c, a) /\ group'[c] = Result(a.commit_bytes)
    BY Zenon, <1>5 DEF Enters
  <2>2. group'[c].epoch = a.epoch /\ a.epoch \in Nat
    BY Zenon, <1>1, <2>1, ChainFacts
  <2>3. b.epoch > a.epoch /\ \A e \in a.epoch..(b.epoch - 1) : e = a.epoch
    BY <1>1, <2>2
  <2>4. PICK x \in accepted : x.epoch = a.epoch /\ c \notin Result(x.commit_bytes).members
    BY Zenon, <1>1, <2>1, <2>3 DEF WelcomedOnce, Stays
  <2> QED
    BY Zenon, <1>1, <2>1, <2>4, ChainFacts, UnusedFacts
<1> QED
  BY Zenon, <1>1, <1>2, <1>3, <1>4, <1>5 DEF Leaves

\* A key package that is generated is in no commit yet.
LEMMA NewKeyPackage ==
  ASSUME IInv, AllOld, NEW c \in Clients, GenerateKeyPackage(c)
  PROVE  AllOld' /\ \A o \in Clients : \A a \in accepted : Unused(o, a)' <=> Unused(o, a)
<1> USE DEF IInv
<1> DEFINE n == made[c].key_packages
           kp == <<c, n + 1>>
<1>1. /\ keys' = [keys EXCEPT ![c] = @ \cup {kp}]
      /\ UNCHANGED <<accepted, group, pending, queued_intent, intent, pc>>
      /\ key_packages' = key_packages \/ key_packages' = [key_packages EXCEPT ![c] = kp]
  BY Zenon DEF GenerateKeyPackage, serviceVars, workerVars
<1>2. /\ n \in Nat /\ made'[c].key_packages = n + 1
      /\ \A o \in Clients : /\ made[o].key_packages \in Nat
                            /\ made'[o].key_packages \in Nat /\ made'[o].key_packages >= made[o].key_packages
  <2>1. made' = [made EXCEPT ![c] = [made[c] EXCEPT !.key_packages = made[c].key_packages + 1]]
    BY Zenon DEF GenerateKeyPackage
  <2>2. made[c] \in [commits : Nat, key_packages : Nat]
    BY Zenon DEF ClientTypes
  <2>3. made' = [made EXCEPT ![c] = [commits |-> made[c].commits, key_packages |-> made[c].key_packages + 1]]
    BY Zenon, <2>1, <2>2, MadeUpdate
  <2> QED
    BY <2>2, <2>3 DEF ClientTypes
<1>3. ASSUME NEW a \in accepted PROVE kp \notin a.commit_bytes.adds
  <2>1. Old(a.commit_bytes.adds)
    BY Zenon DEF AllOld
  <2> QED
    BY <1>2, <2>1 DEF Old
<1>4. /\ \A o \in Clients : key_packages[o] \in KeyPackage \cup {None}
      /\ \A o \in Clients : queued_intent[o] \in Intent \cup {None} /\ intent[o] \in Intent \cup {None}
      /\ \A o \in Clients : pending[o] \in MlsCommit \cup {None}
      /\ \A a \in accepted : a.commit_bytes \in MlsCommit
  BY Zenon DEF ClientTypes, WorkerTypes, DsTypeOK, GroupLogCommit
<1>5. \A adds \in SUBSET KeyPackage : Old(adds) => Old(adds)'
  <2> SUFFICES ASSUME NEW adds \in SUBSET KeyPackage, Old(adds), NEW k \in adds
               PROVE  k[2] <= made'[k[1]].key_packages
    BY Zenon DEF Old
  <2>1. k[1] \in Clients /\ k[2] \in Nat /\ k[2] <= made[k[1]].key_packages
    BY Zenon DEF Old, KeyPackage
  <2> QED
    BY <1>2, <2>1
<1> HIDE DEF n
<1>6. kp[2] <= made'[kp[1]].key_packages
  BY SMTT(30), <1>2 DEF n
<1> HIDE DEF kp
<1>7. AllOld'
  <2>1. ASSUME NEW o \in Clients
        PROVE  (key_packages[o] # None => Old({key_packages[o]}))'
    <3>1. key_packages'[o] \in {kp, key_packages[o]}
      BY Zenon, <1>1 DEF ClientTypes
    <3>2. CASE key_packages'[o] = kp
      BY Zenon, <1>6, <3>2 DEF Old
    <3>3. CASE key_packages'[o] = key_packages[o]
      BY Zenon, <1>4, <1>5, <3>3 DEF AllOld
    <3> QED
      BY Zenon, <3>1, <3>2, <3>3
  <2>2. ASSUME NEW o \in Clients
        PROVE  /\ (queued_intent[o] # None => Old(queued_intent[o].adds))'
               /\ (intent[o] # None => Old(intent[o].adds))'
               /\ (pending[o] # None => Old(pending[o].adds))'
    BY Zenon, <1>1, <1>4, <1>5 DEF AllOld, Intent, MlsCommit
  <2>3. \A a \in accepted : Old(a.commit_bytes.adds)'
    BY Zenon, <1>4, <1>5 DEF AllOld, MlsCommit
  <2> QED
    BY ZenonT(30), <1>1, <2>1, <2>2, <2>3 DEF AllOld
<1>8. \A o \in Clients : \A a \in accepted : Unused(o, a)' <=> Unused(o, a)
  BY Zenon, <1>1, <1>3 DEF Unused, ClientTypes
<1> QED
  BY Zenon, <1>7, <1>8

\* Every step.
LEMMA NextOld == IInv /\ AllOld /\ [Next]_vars => AllOld'
\* A step that makes no key package and stages only commits of known intents.
<1>OldFrame.
    ASSUME IInv, AllOld, accepted' = accepted,
           \A c \in Clients : made'[c].key_packages = made[c].key_packages,
           \A c \in Clients :
             /\ key_packages'[c] \in {None, key_packages[c]}
             /\ queued_intent'[c] \in {None, queued_intent[c], intent[c]}
             /\ \/ intent'[c] \in {None, intent[c], queued_intent[c]}
                \/ \A kp \in intent'[c].adds : \E t \in Clients : key_packages[t] # None /\ kp = key_packages[t]
             /\ \/ pending'[c] \in {None, pending[c]}
                \/ intent'[c] # None /\ pending'[c].adds = intent'[c].adds
    PROVE  AllOld'
  <2> USE <1>OldFrame
  <2>1. /\ \A c \in Clients : key_packages[c] # None => key_packages[c][1] \in Clients
        /\ \A it \in Intent : \A kp \in it.adds : kp[1] \in Clients
        /\ \A m \in MlsCommit : \A kp \in m.adds : kp[1] \in Clients
    BY Zenon DEF IInv, ClientTypes, KeyPackage, Intent, MlsCommit
  <2>2. /\ \A c \in Clients : queued_intent[c] \in Intent \cup {None}
        /\ \A c \in Clients : intent[c] \in Intent \cup {None}
        /\ \A c \in Clients : pending[c] \in MlsCommit \cup {None}
        /\ \A a \in accepted : a.commit_bytes \in MlsCommit
    BY Zenon DEF IInv, ClientTypes, WorkerTypes, DsTypeOK, GroupLogCommit
  <2>3. \A adds : Old(adds) /\ (\A kp \in adds : kp[1] \in Clients) => Old(adds)'
    BY Zenon DEF Old
  <2>4. ASSUME NEW c \in Clients
        PROVE  (key_packages[c] # None => Old({key_packages[c]}))'
    BY Zenon, <2>1, <2>3 DEF AllOld
  <2>5. ASSUME NEW c \in Clients
        PROVE  (queued_intent[c] # None => Old(queued_intent[c].adds))'
    BY Zenon, <2>1, <2>2, <2>3 DEF AllOld
  <2>6. ASSUME NEW c \in Clients
        PROVE  (intent[c] # None => Old(intent[c].adds))'
    <3>1. CASE intent'[c] \in {None, intent[c], queued_intent[c]}
      BY Zenon, <2>1, <2>2, <2>3, <3>1 DEF AllOld
    <3>2. ASSUME NEW kp \in intent'[c].adds, NEW t \in Clients, key_packages[t] # None, kp = key_packages[t]
          PROVE  kp[2] <= made'[kp[1]].key_packages
      BY Zenon, <2>1, <3>2 DEF AllOld, Old
    <3> QED
      BY Zenon, <3>1, <3>2 DEF Old
  <2>7. ASSUME NEW c \in Clients
        PROVE  (pending[c] # None => Old(pending[c].adds))'
    BY Zenon, <2>1, <2>2, <2>3, <2>6 DEF AllOld
  <2>8. \A a \in accepted : Old(a.commit_bytes.adds)'
    BY Zenon, <2>1, <2>2, <2>3 DEF AllOld
  <2> QED
    BY Zenon, <2>4, <2>5, <2>6, <2>7, <2>8 DEF AllOld

\* Staging a commit of a known intent.
<1>StageOld.
    ASSUME IInv, AllOld, accepted' = accepted,
           NEW c \in Clients, NEW it \in Intent, StartIntent(c, it), queued_intent' = queued_intent,
           \A o \in Clients : key_packages'[o] \in {None, key_packages[o]},
           \/ it = queued_intent[c]
           \/ \A kp \in it.adds : \E t \in Clients : key_packages[t] # None /\ kp = key_packages[t]
    PROVE  AllOld'
  <2> USE <1>StageOld
  <2> USE DEF IInv
  <2> DEFINE m == NewCommit(c, it)
  <2>1. pending' = [pending EXCEPT ![c] = m] /\ intent' = [intent EXCEPT ![c] = it]
    BY Zenon DEF StartIntent
  <2>2. m.adds = it.adds
    BY Zenon, NewCommitMade DEF StartIntent
  <2>3. \A o \in Clients : made'[o].key_packages = made[o].key_packages
    <3>1. made' = [made EXCEPT ![c] = [made[c] EXCEPT !.commits = made[c].commits + 1]]
      BY Zenon DEF StartIntent
    <3>2. made[c] \in [commits : Nat, key_packages : Nat]
      BY Zenon DEF ClientTypes
    <3>3. made' = [made EXCEPT ![c] = [commits |-> made[c].commits + 1, key_packages |-> made[c].key_packages]]
      BY Zenon, <3>1, <3>2, MadeUpdate
    <3> QED
      BY Zenon, <3>3 DEF ClientTypes
  <2> HIDE DEF m
  <2>4. \A o \in Clients \ {c} : pending'[o] = pending[o] /\ intent'[o] = intent[o]
    BY Zenon, <2>1 DEF ClientTypes, WorkerTypes
  <2>5. pending'[c] = m /\ intent'[c] = it
    BY Zenon, <2>1 DEF ClientTypes, WorkerTypes
  <2>6. it # None
    BY Zenon, NoneIsNoValue
  <2> QED
    BY Zenon, <2>2, <2>3, <2>4, <2>5, <2>6, <1>OldFrame

\* Every command and request that works with key packages and intents.
<1>CommandOld.
    ASSUME IInv, AllOld, NEW c \in Clients,
           \/ SelfUpdate(c) \/ \E ts \in SUBSET Clients : AddMembers(c, ts) \/ RemoveMembers(c, ts)
           \/ SubmitConflict(c) \/ PutExternal(c)
    PROVE  AllOld'
  <2> USE <1>CommandOld
  <2> USE DEF IInv
  <2>1. accepted' = accepted
    BY Zenon, QuietStep
  <2>2. CASE SelfUpdate(c)
    <3>1. [adds |-> {}, removes |-> {}] \in Intent /\ [adds |-> {}, removes |-> {}].adds = {}
      BY Zenon DEF Intent
    <3> QED
      BY Zenon, <2>1, <2>2, <3>1, <1>StageOld DEF SelfUpdate, mailVars
  <2>3. ASSUME NEW ts \in SUBSET Clients, RemoveMembers(c, ts)
        PROVE  AllOld'
    <3>1. [adds |-> {}, removes |-> ts] \in Intent /\ [adds |-> {}, removes |-> ts].adds = {}
      BY Zenon DEF Intent
    <3> QED
      BY Zenon, <2>1, <2>3, <3>1, <1>StageOld DEF RemoveMembers, mailVars
  <2>4. ASSUME NEW ts \in SUBSET Clients, AddMembers(c, ts)
        PROVE  AllOld'
    <3>1. \A o \in Clients : key_packages'[o] \in {None, key_packages[o]}
      BY Zenon, <2>4, Adding
    <3>2. CASE UNCHANGED <<clientVars, workerVars>>
      BY Zenon, <2>1, <3>1, <3>2, <1>OldFrame DEF clientVars, workerVars
    <3>3. ASSUME \A t \in ts : key_packages[t] \in KeyPackage, AddIntent(ts) \in Intent,
                 StartIntent(c, AddIntent(ts)), UNCHANGED queued_intent
          PROVE  AllOld'
      <4>1. \A kp \in AddIntent(ts).adds : \E t \in Clients : key_packages[t] # None /\ kp = key_packages[t]
        BY Zenon, <3>3, NoneIsNoValue DEF AddIntent
      <4> QED
        BY Zenon, <2>1, <3>1, <3>3, <4>1, <1>StageOld
    <3> QED
      BY Zenon, <2>4, <3>2, <3>3, Adding
  <2>5. CASE SubmitConflict(c)
    <3>1. /\ UNCHANGED <<made, key_packages>> /\ pending' = [pending EXCEPT ![c] = None]
          /\ queued_intent' = [queued_intent EXCEPT ![c] = intent[c]]
          /\ intent' = [intent EXCEPT ![c] = None]
      BY Zenon, <2>5 DEF SubmitConflict, Return, FinishApply, mailVars
    <3>2. \A o \in Clients : /\ pending'[o] = (IF o = c THEN None ELSE pending[o])
                             /\ queued_intent'[o] = (IF o = c THEN intent[o] ELSE queued_intent[o])
                             /\ intent'[o] = (IF o = c THEN None ELSE intent[o])
      BY Zenon, <3>1 DEF ClientTypes, WorkerTypes
    <3> QED
      BY ZenonT(30), <2>1, <3>1, <3>2, <1>OldFrame
  <2>6. CASE PutExternal(c)
    <3>1. UNCHANGED <<key_packages, queued_intent>>
      BY Zenon, <2>6 DEF PutExternal, mailVars
    <3>2. CASE queued_intent[c] # None /\ StartIntent(c, queued_intent[c])
      <4>1. queued_intent[c] \in Intent
        BY Zenon, <3>2 DEF WorkerTypes
      <4> QED
        BY Zenon, <2>1, <3>1, <3>2, <4>1, <1>StageOld
    <3>3. CASE UNCHANGED clientVars /\ intent' = [intent EXCEPT ![c] = None]
      BY Zenon, <2>1, <3>1, <3>3, <1>OldFrame DEF clientVars, WorkerTypes
    <3> QED
      BY Zenon, <2>6, <3>2, <3>3 DEF PutExternal, Return, FinishApply
  <2> QED
    BY Zenon, <2>2, <2>3, <2>4, <2>5, <2>6

<1>Step.
    ASSUME IInv, AllOld, [Next]_vars
    PROVE  AllOld'
  <2> USE <1>Step
  <2> USE DEF IInv
  <2>1. ASSUME UNCHANGED <<accepted, key_packages, made>>,
               \A o \in Clients : /\ queued_intent'[o] \in {None, queued_intent[o]}
                                 /\ intent'[o] \in {None, intent[o]}
                                 /\ pending'[o] \in {None, pending[o]}
        PROVE  AllOld'
    BY Zenon, <2>1, <1>OldFrame
  <2>2. CASE UNCHANGED vars \/ ServiceStep
    BY Zenon, <2>1, <2>2 DEF vars, serviceVars, mailVars, clientVars, workerVars,
                             ServiceStep, PushToLog, FinishPublish, PushToRecipient
  <2>3. ASSUME NEW c \in Clients, CreateGroup(c) \/ JoinFromWelcome(c)
        PROVE  AllOld'
    BY Zenon, <2>1, <2>3 DEF CreateGroup, JoinFromWelcome, serviceVars, mailVars, workerVars, ClientTypes
  <2>4. ASSUME NEW c \in Clients,
               \/ SubmitOk(c) \/ SubmitLost(c) \/ GiveUp(c) \/ PutCreated(c) \/ PutOwn(c)
               \/ PutLost(c) \/ AckDelivery(c) \/ \E r \in Clients : PostWelcome(c, r)
        PROVE  AllOld'
    <3>1. accepted' = accepted
      BY Zenon, <2>4, QuietStep DEF PostWelcome, serviceVars
    <3>2. /\ UNCHANGED <<key_packages, made, pending>>
          /\ queued_intent' = queued_intent \/ queued_intent' = [queued_intent EXCEPT ![c] = None]
          /\ intent' = intent \/ intent' = [intent EXCEPT ![c] = None]
      BY Zenon, <2>4 DEF SubmitOk, SubmitLost, GiveUp, PutCreated, PutOwn, PutLost, AckDelivery, PostWelcome,
                         Return, FinishApply, mailVars, clientVars, workerVars
    <3> QED
      BY Zenon, <2>1, <3>1, <3>2 DEF WorkerTypes
  <2>5. ASSUME NEW c \in Clients, ReceiveCommit(c) \/ ProcessPending(c)
        PROVE  AllOld'
    <3>1. UNCHANGED <<accepted, key_packages, made, intent>>
      BY Zenon, <2>5 DEF ReceiveCommit, ProcessPending, HandOut, serviceVars, mailVars
    <3>2. /\ queued_intent' = queued_intent \/ queued_intent' = [queued_intent EXCEPT ![c] = None]
          /\ pending' = pending \/ pending' = [pending EXCEPT ![c] = None]
      BY Zenon, <2>5 DEF ReceiveCommit, ProcessPending, ApplyOwn, ApplyExternal
    <3> QED
      BY Zenon, <2>1, <3>1, <3>2 DEF ClientTypes, WorkerTypes
  <2>6. ASSUME NEW c \in Clients, SubmitAccepted(c)
        PROVE  AllOld'
    <3> DEFINE rec == [group_id |-> G, epoch |-> next_epoch(group[c].epoch), sender |-> c,
                       commit_bytes |-> pending[c], recipients |-> groups[G].members]
    <3>1. pending[c] # None /\ UNCHANGED <<key_packages, made, queued_intent, intent, pending>>
      BY Zenon, <2>6 DEF SubmitAccepted, AtRequest, mailVars, clientVars
    <3>2. accepted' = accepted \cup {rec} /\ rec.commit_bytes = pending[c]
      BY Zenon, <2>6 DEF SubmitAccepted, AcceptCommit
    <3> HIDE DEF rec
    <3> QED
      BY Zenon, <3>1, <3>2 DEF AllOld, Old
  <2>7. ASSUME NEW c \in Clients, ClientCommand(c) \/ WorkerStep(c) \/ Fault(c)
        PROVE  AllOld'
    BY Zenon, <2>3, <2>4, <2>6, <2>7, NewKeyPackage, <1>CommandOld DEF ClientCommand, WorkerStep, Fault
  <2> QED
    BY Zenon, <2>2, <2>5, <2>7 DEF Next

<1> QED
  BY Zenon, <1>Step

\* JoinFromWelcome brings the client in, or leaves it with no group.
LEMMA JoinMoves ==
  ASSUME IInv, NEW c \in Clients, JoinFromWelcome(c)
  PROVE  /\ \A o \in Clients \ {c} : Rests(o) /\ pending'[o] = pending[o]
         /\ (Rests(c) /\ pending'[c] = pending[c]) \/ Leaves(c) \/ Enters(c)
<1> USE DEF IInv
<1> DEFINE w == Head(welcome_inboxes[c])
<1>1. PICK a \in accepted : w = WelcomeFor(a.commit_bytes)
  <2>1. Sent(w)
    BY Zenon, PoppedSent DEF JoinFromWelcome
  <2>2. IsReleased(w)
    BY Zenon, <2>1 DEF Sent, Released
  <2> QED
    BY Zenon, <2>2 DEF IsReleased
<1>2. w.state = Result(a.commit_bytes) /\ w.adds = a.commit_bytes.adds
  BY SMTT(30), <1>1 DEF WelcomeFor
<1>3. \/ /\ group' = [group EXCEPT ![c] = IF w.adds \cap keys[c] = {} THEN None ELSE w.state]
         /\ keys' = [keys EXCEPT ![c] = @ \ w.adds]
         /\ pending' = [pending EXCEPT ![c] = None]
      \/ UNCHANGED <<group, keys, pending>>
  BY Zenon DEF JoinFromWelcome
<1> HIDE DEF w
<1>4. \A o \in Clients \ {c} : Rests(o) /\ pending'[o] = pending[o]
  BY Zenon, <1>3 DEF ClientTypes, Rests
<1>5. \/ Rests(c) /\ pending'[c] = pending[c]
      \/ /\ group'[c] = (IF w.adds \cap keys[c] = {} THEN None ELSE w.state)
         /\ keys'[c] = keys[c] \ w.adds
  BY Zenon, <1>3 DEF ClientTypes, Rests
<1> QED
  BY Zenon, <1>2, <1>4, <1>5 DEF Leaves, Enters, Unused

\* Applying a commit brings the client on by it, or out of the group; only an own
\* commit that is no longer staged leaves it where it is.
LEMMA ApplyMoves ==
  ASSUME IInv, NEW c \in Clients, group[c] # None,
         NEW d, Carries(d), ApplyOwn(c, d) \/ ApplyExternal(c, d)
  PROVE  /\ \A o \in Clients \ {c} : Rests(o)
         /\ \/ Rests(c) /\ pending[c] = None /\ IsOwnPending(c, d.commit_bytes)
            \/ group'[c] = None /\ keys'[c] = {}
            \/ Advances(c) /\ group'[c].epoch = d.epoch
<1> USE DEF IInv
<1>1. PICK a \in accepted : a.commit_bytes = d.commit_bytes /\ a.epoch = d.epoch
  BY Zenon DEF Carries
<1>2. Result(a.commit_bytes).epoch = d.epoch
  BY Zenon, <1>1, ChainFacts
<1>3. \A o \in Clients \ {c} : Rests(o)
  BY Zenon, ApplyFrame DEF Rests
<1>4. CASE ApplyOwn(c, d)
  <2>1. /\ pending_bytes[c] # None /\ pending_bytes[c].commit = a.commit_bytes
        /\ group' = [group EXCEPT ![c] = IF pending[c] = None THEN @ ELSE Merged(@, pending[c])]
        /\ keys' = keys
    BY Zenon, <1>1, <1>4 DEF ApplyOwn, IsOwnPending
  <2>2. CASE pending[c] = None
    BY Zenon, <1>3, <1>4, <2>1, <2>2 DEF Rests, ClientTypes, ApplyOwn
  <2>3. CASE pending[c] # None
    <3>1. /\ pending[c] = a.commit_bytes /\ pending[c].epoch = group[c].epoch
          /\ MadeBy(c, pending[c], made[c].commits) /\ pending[c].roster = group[c].members
      BY Zenon, <2>1, <2>3 DEF Staged
    <3>2. a.epoch = group[c].epoch + 1
      BY Zenon, <3>1 DEF AcceptedOK
    <3>3. c \in Result(a.commit_bytes).members
      BY Zenon, <3>1 DEF MadeBy, Result
    <3>4. group'[c] = Result(a.commit_bytes)
      BY ZenonT(30), <2>1, <2>3, <3>1, MergedResult DEF ClientTypes
    <3> QED
      BY Zenon, <1>2, <1>3, <2>1, <3>2, <3>3, <3>4 DEF Advances
  <2> QED
    BY Zenon, <2>2, <2>3
<1>5. CASE ApplyExternal(c, d)
  <2>1. a.epoch = group[c].epoch + 1 /\ Merged(group[c], d.commit_bytes) = Result(a.commit_bytes)
    BY ZenonT(30), <1>1, <1>5, ParentLink DEF ApplyExternal, CanProcess
  <2>2. \/ /\ c \in Result(a.commit_bytes).members /\ keys' = keys
           /\ group' = [group EXCEPT ![c] = Result(a.commit_bytes)]
        \/ group' = [group EXCEPT ![c] = None] /\ keys' = [keys EXCEPT ![c] = {}]
    BY Zenon, <1>5, <2>1 DEF ApplyExternal
  <2> QED
    BY ZenonT(30), <1>2, <1>3, <2>1, <2>2 DEF Advances, ClientTypes
<1> QED
  BY Zenon, <1>4, <1>5

\* CommitterInv is inductive.
LEMMA NextCommitter == IInv /\ CommitterInv /\ [Next]_vars => CommitterInv'
\* An answer that was lost stays lost.
<1>StaysUnanswered.
    ASSUME [Next]_vars
    PROVE  unanswered \subseteq unanswered'
  <2> USE <1>StaysUnanswered
  <2>1. CASE UNCHANGED vars \/ ServiceStep
    BY Zenon, <2>1 DEF vars, faultVars, ServiceStep
  <2>2. ASSUME NEW c \in Clients, ClientCommand(c)
        PROVE  unanswered' = unanswered
    BY ZenonT(30), <2>2 DEF ClientCommand, CreateGroup, GenerateKeyPackage, AddMembers, RemoveMembers, SelfUpdate,
                      JoinFromWelcome, LoseAnswer, Abandon, faultVars
  <2>3. ASSUME NEW c \in Clients, WorkerStep(c)
        PROVE  unanswered' = unanswered
    BY Zenon, <2>3 DEF WorkerStep, SubmitAccepted, SubmitOk, SubmitConflict, PostWelcome, PutCreated, PutOwn,
                      PutExternal, AckDelivery, LoseAnswer, faultVars
  <2>4. ASSUME NEW c \in Clients, Fault(c) \/ ReceiveCommit(c) \/ ProcessPending(c)
        PROVE  unanswered \subseteq unanswered'
    BY Zenon, <2>4 DEF Fault, SubmitLost, PutLost, GiveUp, ReceiveCommit, ProcessPending, LoseAnswer, Abandon, faultVars
  <2> QED
    BY Zenon, <2>1, <2>2, <2>3, <2>4 DEF Next

\* A step that begins no submission.
<1>SubmittedFrame.
    ASSUME SubmittedOnce, unanswered \subseteq unanswered', accepted' = accepted,
           \A o \in Clients : pc'[o] = "submit" => pc[o] = "submit" /\ pending'[o] = pending[o]
    PROVE  SubmittedOnce'
    BY Zenon, <1>SubmittedFrame DEF SubmittedOnce

\* A step that leaves every client alone.
<1>RestingCommitter.
    ASSUME IInv, CommitterInv, AllOld', unanswered \subseteq unanswered', accepted' = accepted, UNCHANGED clientVars,
           \A o \in Clients : pc'[o] = "submit" => pc[o] = "submit"
    PROVE  CommitterInv'
  <2> USE <1>RestingCommitter
  <2>1. \A o \in Clients : Rests(o) /\ pending'[o] = pending[o]
    BY Zenon DEF clientVars, Rests
  <2>2. NoneAhead' /\ WelcomedOnce'
    BY Zenon, <2>1, MovesKeep DEF CommitterInv
  <2>3. NextIsStaged'
    BY Zenon, <2>1, MovesKeepStaged DEF CommitterInv
  <2>4. SubmittedOnce'
    BY Zenon, <2>1, <1>SubmittedFrame DEF CommitterInv
  <2> QED
    BY Zenon, <2>2, <2>3, <2>4 DEF CommitterInv

\* Staging a commit: none is staged yet, so the next one is not an own one.
<1>StageCommitter.
    ASSUME IInv, CommitterInv, AllOld', unanswered \subseteq unanswered', accepted' = accepted,
           NEW c \in Clients, NEW it, StartIntent(c, it)
    PROVE  CommitterInv'
  <2> USE <1>StageCommitter
  <2> USE DEF IInv
  <2> DEFINE m == NewCommit(c, it)
  <2>1. /\ pending[c] = None /\ UNCHANGED <<group, keys>>
        /\ pending' = [pending EXCEPT ![c] = m]
        /\ pc' = [pc EXCEPT ![c] = "submit"]
    BY Zenon DEF StartIntent, CanCommit, Goto
  <2>2. m.id = <<c, made[c].commits + 1>>
    BY Zenon DEF NewCommit
  <2> HIDE DEF m
  <2>3. \A o \in Clients : Rests(o)
    BY Zenon, <2>1 DEF Rests
  <2>4. \A o \in Clients \ {c} : pending'[o] = pending[o] /\ pc'[o] = pc[o]
    BY Zenon, <2>1 DEF ClientTypes, WorkerTypes
  <2>5. pending'[c] = m /\ pc'[c] = "submit"
    BY Zenon, <2>1 DEF ClientTypes, WorkerTypes
  <2>6. NoneAhead' /\ WelcomedOnce'
    BY Zenon, <2>3, MovesKeep DEF CommitterInv
  <2>7. NextIsStaged'
    BY Zenon, <2>1, <2>3, <2>4, MovesKeepStaged DEF CommitterInv
  <2>8. SubmittedOnce'
    <3>1. ASSUME NEW a \in accepted
          PROVE  a.commit_bytes # m
      <4>1. MadeBy(a.sender, a.commit_bytes, made[a.sender].commits) /\ made[c].commits \in Nat
        BY Zenon DEF AcceptedOK, ClientTypes
      <4> SUFFICES ASSUME a.commit_bytes = m PROVE FALSE
        BY Zenon
      <4>2. a.sender = c
        BY SMTT(30), <2>2, <4>1 DEF MadeBy
      <4>3. made[c].commits + 1 \in 1..made[c].commits
        BY <2>2, <4>1, <4>2 DEF MadeBy
      <4> QED
        BY SMTT(30), <4>1, <4>3
    <3> QED
      BY ZenonT(30), <2>4, <2>5, <3>1 DEF CommitterInv, SubmittedOnce
  <2> QED
    BY Zenon, <2>6, <2>7, <2>8 DEF CommitterInv

\* The commands that stage a commit.
<1>CommandCommitter.
    ASSUME IInv, CommitterInv, AllOld', unanswered \subseteq unanswered', NEW c \in Clients,
           SelfUpdate(c) \/ \E ts \in SUBSET Clients : AddMembers(c, ts) \/ RemoveMembers(c, ts)
    PROVE  CommitterInv'
  <2> USE <1>CommandCommitter
  <2>1. accepted' = accepted
    BY Zenon, QuietStep
  <2>2. (\E it : StartIntent(c, it)) \/ UNCHANGED <<clientVars, workerVars>>
    BY Zenon DEF SelfUpdate, AddMembers, RemoveMembers
  <2>3. CASE UNCHANGED <<clientVars, workerVars>>
    BY Zenon, <2>1, <2>3, <1>RestingCommitter DEF workerVars
  <2> QED
    BY Zenon, <2>1, <2>2, <2>3, <1>StageCommitter

\* No welcome gets usable by a new key package.
<1>KeyPackageCommitter.
    ASSUME IInv, CommitterInv, AllOld', unanswered \subseteq unanswered', NEW c \in Clients, GenerateKeyPackage(c)
    PROVE  CommitterInv'
  <2> USE <1>KeyPackageCommitter
  <2>1. UNCHANGED <<accepted, group, pending, pc>>
    BY Zenon DEF GenerateKeyPackage, serviceVars, workerVars
  <2>2. \A o \in Clients : \A a \in accepted : Unused(o, a)' <=> Unused(o, a)
    BY Zenon, NewKeyPackage DEF CommitterInv
  <2>3. NoneAhead' /\ WelcomedOnce' /\ NextIsStaged'
    BY ZenonT(30), <2>1, <2>2 DEF CommitterInv, NoneAhead, WelcomedOnce, NextIsStaged, Stays
  <2>4. SubmittedOnce'
    BY Zenon, <2>1, <1>SubmittedFrame DEF CommitterInv
  <2> QED
    BY Zenon, <2>3, <2>4 DEF CommitterInv

\* The founder: no commit is accepted yet.
<1>CreateCommitter.
    ASSUME IInv, CommitterInv, AllOld', unanswered \subseteq unanswered', NEW c \in Clients, CreateGroup(c)
    PROVE  CommitterInv'
  <2> USE <1>CreateCommitter
  <2>1. /\ UNCHANGED <<accepted, pending>>
        /\ groups[G] = None /\ pc' = [pc EXCEPT ![c] = "put_created"]
    BY Zenon DEF CreateGroup, Goto, serviceVars, mailVars
  <2>2. accepted = {}
    BY SMTT(30), <2>1, ChainFacts DEF Epoch
  <2>3. SubmittedOnce'
    BY Zenon, <2>1, <1>SubmittedFrame DEF CommitterInv, IInv, WorkerTypes
  <2>4. NoneAhead' /\ WelcomedOnce' /\ NextIsStaged'
    BY Zenon, <2>1, <2>2 DEF NoneAhead, WelcomedOnce, NextIsStaged
  <2> QED
    BY Zenon, <2>3, <2>4 DEF CommitterInv

\* The 409: the commit refused was not accepted, or the answer was lost.
<1>ConflictCommitter.
    ASSUME IInv, CommitterInv, AllOld', unanswered \subseteq unanswered', NEW c \in Clients, SubmitConflict(c)
    PROVE  CommitterInv'
  <2> USE <1>ConflictCommitter
  <2> USE DEF IInv
  <2>1. /\ UNCHANGED <<accepted, group, keys>>
        /\ pc[c] = "submit" /\ pending' = [pending EXCEPT ![c] = None]
        /\ pc' = [pc EXCEPT ![c] = "idle"] \/ pc' = [pc EXCEPT ![c] = "ack"]
    BY Zenon DEF SubmitConflict, Return, FinishApply, Goto, serviceVars, mailVars
  <2>2. \A o \in Clients : /\ Rests(o)
                           /\ pending'[o] = (IF o = c THEN None ELSE pending[o])
                           /\ o # c => pc'[o] = pc[o]
                           /\ pc'[c] # "submit"
    BY Zenon, <2>1 DEF ClientTypes, WorkerTypes, Rests
  <2>3. NoneAhead' /\ WelcomedOnce'
    BY Zenon, <2>1, <2>2, MovesKeep DEF CommitterInv
  <2>4. SubmittedOnce'
    BY Zenon, <2>1, <2>2, <1>SubmittedFrame DEF CommitterInv
  <2>5. ASSUME NEW b \in accepted, group[b.sender] # None, b.epoch = group[b.sender].epoch + 1,
               b.commit_bytes \notin unanswered
        PROVE  pending'[b.sender] = b.commit_bytes
    <3>1. pending[b.sender] = b.commit_bytes /\ b.sender \in Clients
      BY Zenon, <2>5, ChainFacts DEF CommitterInv, NextIsStaged
    <3>2. b.sender # c
      BY Zenon, <2>1, <2>5, <3>1 DEF CommitterInv, SubmittedOnce
    <3> QED
      BY Zenon, <2>2, <3>1, <3>2
  <2>6. NextIsStaged'
    BY Zenon, <2>1, <2>5 DEF NextIsStaged
  <2> QED
    BY ZenonT(30), <2>3, <2>4, <2>6 DEF CommitterInv

\* The other requests of a worker.
<1>WorkerCommitter.
    ASSUME IInv, CommitterInv, AllOld', unanswered \subseteq unanswered', NEW c \in Clients,
           \/ SubmitOk(c) \/ SubmitLost(c) \/ GiveUp(c) \/ PutCreated(c) \/ PutOwn(c) \/ PutExternal(c)
           \/ PutLost(c) \/ AckDelivery(c)
    PROVE  CommitterInv'
  <2> USE <1>WorkerCommitter
  <2>1. accepted' = accepted
    BY Zenon, QuietStep
  <2>2. CASE PutExternal(c) /\ StartIntent(c, queued_intent[c])
    BY Zenon, <2>1, <2>2, <1>StageCommitter
  <2>3. CASE UNCHANGED clientVars /\ ~SubmitLost(c)
    <3>1. \/ UNCHANGED pc
          \/ pc' = [pc EXCEPT ![c] = "idle"] \/ pc' = [pc EXCEPT ![c] = "ack"]
          \/ PutExternal(c) /\ StartIntent(c, queued_intent[c])
      BY Zenon, <2>3 DEF SubmitOk, GiveUp, PutCreated, PutOwn, PutExternal, PutLost, AckDelivery,
             Return, FinishApply, Goto, workerVars
    <3> QED
      BY ZenonT(30), <2>1, <2>2, <2>3, <3>1, <1>RestingCommitter DEF IInv, WorkerTypes
  <2>4. CASE SubmitLost(c)
    <3>1. UNCHANGED clientVars /\ pending[c] \in unanswered' /\ pc' = [pc EXCEPT ![c] = "submit"]
      BY Zenon, <2>4 DEF SubmitLost, Goto
    <3>2. \A o \in Clients : Rests(o) /\ pending'[o] = pending[o]
      BY Zenon, <3>1 DEF clientVars, Rests
    <3>3. NoneAhead' /\ WelcomedOnce'
      BY Zenon, <2>1, <3>2, MovesKeep DEF CommitterInv
    <3>4. NextIsStaged'
      BY Zenon, <2>1, <3>2, MovesKeepStaged DEF CommitterInv
    <3>5. \A o \in Clients \ {c} : pc'[o] = pc[o]
      BY Zenon, <3>1 DEF IInv, WorkerTypes
    <3>6. SubmittedOnce'
      BY ZenonT(30), <2>1, <3>1, <3>2, <3>5 DEF CommitterInv, SubmittedOnce
    <3> QED
      BY Zenon, <3>3, <3>4, <3>6 DEF CommitterInv
  <2> QED
    BY Zenon, <2>2, <2>3, <2>4 DEF SubmitOk, SubmitLost, GiveUp, PutCreated, PutOwn, PutExternal, PutLost, AckDelivery

\* A client that joins.
<1>JoinCommitter.
    ASSUME IInv, CommitterInv, AllOld', unanswered \subseteq unanswered', NEW c \in Clients, JoinFromWelcome(c)
    PROVE  CommitterInv'
  <2> USE <1>JoinCommitter
  <2>1. UNCHANGED <<accepted, pc>> /\ pc[c] = "idle"
    BY Zenon DEF JoinFromWelcome, serviceVars, workerVars
  <2>2. /\ \A o \in Clients \ {c} : Rests(o) /\ pending'[o] = pending[o]
        /\ (Rests(c) /\ pending'[c] = pending[c]) \/ Leaves(c) \/ Enters(c)
    BY Zenon, JoinMoves
  <2>3. NoneAhead' /\ WelcomedOnce'
    BY Zenon, <2>1, <2>2, MovesKeep DEF CommitterInv
  <2>4. NextIsStaged'
    BY Zenon, <2>1, <2>2, MovesKeepStaged DEF CommitterInv
  <2>5. SubmittedOnce'
    BY Zenon, <2>1, <2>2, <1>SubmittedFrame DEF CommitterInv
  <2> QED
    BY Zenon, <2>3, <2>4, <2>5 DEF CommitterInv

\* A client that applies a commit.
<1>ApplyCommitter.
    ASSUME IInv, CommitterInv, AllOld', unanswered \subseteq unanswered', NEW c \in Clients, group[c] # None,
           NEW d, Carries(d), ApplyOwn(c, d) \/ ApplyExternal(c, d), accepted' = accepted
    PROVE  CommitterInv'
  <2> USE <1>ApplyCommitter
  <2> USE DEF IInv
  <2>1. /\ \A o \in Clients \ {c} : pending'[o] = pending[o] /\ pc'[o] = pc[o]
        /\ pc'[c] # "submit"
    BY Zenon, ApplyFrame
  <2>2. /\ \A o \in Clients \ {c} : Rests(o)
        /\ (Rests(c) /\ pending[c] = None) \/ Leaves(c) \/ Advances(c)
    BY Zenon, ApplyMoves DEF Leaves
  <2>3. NoneAhead' /\ WelcomedOnce'
    BY Zenon, <2>2, MovesKeep DEF CommitterInv
  <2>4. NextIsStaged'
    BY Zenon, <2>1, <2>2, MovesKeepStaged DEF CommitterInv
  <2>5. SubmittedOnce'
    BY Zenon, <2>1, <1>SubmittedFrame DEF CommitterInv
  <2> QED
    BY Zenon, <2>3, <2>4, <2>5 DEF CommitterInv

\* ReceiveCommit and ProcessPending.
<1>ReceiveCommitter.
    ASSUME IInv, CommitterInv, AllOld', unanswered \subseteq unanswered', NEW c \in Clients, ReceiveCommit(c) \/ ProcessPending(c)
    PROVE  CommitterInv'
  <2> USE <1>ReceiveCommitter
  <2>1. CASE ReceiveCommit(c)
    <3>1. PICK d \in fetch_next_pending_commit(c) :
            /\ HandOut(c, d)
            /\ \/ ApplyOwn(c, d) \/ ApplyExternal(c, d)
               \/ UNCHANGED <<group, pending, pending_bytes, keys>> /\ (UNCHANGED pc \/ Goto(c, "ack"))
      BY Zenon, <2>1 DEF ReceiveCommit
    <3>2. UNCHANGED <<accepted, made>> /\ group[c] # None
      BY Zenon, <2>1, <3>1 DEF ReceiveCommit, HandOut
    <3>3. Carries(d)
      BY Zenon, Fetched DEF IInv
    <3>4. CASE UNCHANGED <<group, pending, pending_bytes, keys>> /\ (UNCHANGED pc \/ Goto(c, "ack"))
      BY Zenon, <3>2, <3>4, <1>RestingCommitter DEF clientVars, Goto, IInv, WorkerTypes
    <3> QED
      BY Zenon, <3>1, <3>2, <3>3, <3>4, <1>ApplyCommitter
  <2>2. CASE ProcessPending(c)
    <3>1. PICK rec \in fetch_pending_commits(c, group[c].epoch) :
            LET d == [AsDelivery(rec, c) EXCEPT !.id = None] IN ApplyOwn(c, d) \/ ApplyExternal(c, d)
      BY Zenon, <2>2 DEF ProcessPending
    <3>2. PICK d : d = [AsDelivery(rec, c) EXCEPT !.id = None]
      BY Zenon
    <3>3. ApplyOwn(c, d) \/ ApplyExternal(c, d)
      BY Zenon, <3>1, <3>2
    <3>4. accepted' = accepted /\ group[c] # None
      BY Zenon, <2>2 DEF ProcessPending, serviceVars
    <3>5. Carries(d)
      BY Zenon, <3>2, FetchedPending DEF IInv
    <3> QED
      BY Zenon, <3>3, <3>4, <3>5, <1>ApplyCommitter
  <2> QED
    BY Zenon, <2>1, <2>2

\* A commit is accepted: its author is in the last state, so the commit is the
\* next one for it, and it has used every welcome to an earlier state.
<1>AcceptCommitter.
    ASSUME IInv, CommitterInv, AllOld', unanswered \subseteq unanswered', NEW c \in Clients, SubmitAccepted(c)
    PROVE  CommitterInv'
  <2> USE <1>AcceptCommitter
  <2> USE DEF IInv
  <2> DEFINE rec == [group_id |-> G, epoch |-> next_epoch(group[c].epoch), sender |-> c,
                     commit_bytes |-> pending[c], recipients |-> groups[G].members]
  <2>1. /\ pc[c] = "submit" /\ pending[c] # None /\ group[c] # None /\ Epoch = group[c].epoch
    BY Zenon DEF SubmitAccepted, AcceptCommit, CommitConflict, AtRequest, Epoch
  <2>2. /\ accepted' = accepted \cup {rec}
        /\ rec.epoch = Epoch + 1 /\ rec.sender = c /\ rec.commit_bytes = pending[c]
    BY Zenon, <2>1 DEF SubmitAccepted, AcceptCommit, next_epoch
  <2>3. /\ UNCHANGED <<key_packages, group, pending, keys, made, queued_intent, intent>>
        /\ pc' = [pc EXCEPT ![c] = "await"]
    BY Zenon DEF SubmitAccepted, clientVars, mailVars, Goto
  <2> HIDE DEF rec
  <2>4. Epoch \in Nat /\ \A a \in accepted : a.epoch \in Nat /\ a.epoch <= Epoch
    BY Zenon, ChainFacts
  <2>5. \A o \in Clients : group[o] # None => group[o].epoch \in Nat /\ group[o].epoch <= Epoch
    BY Zenon, ChainFacts
  <2>6. \A o, lo, hi : ~Stays(o, lo, hi) => ~Stays(o, lo, hi)'
    BY ZenonT(30), <2>2 DEF Stays
  <2>7. NoneAhead'
    <3>1. ~(rec.epoch > group[c].epoch + 1)
      BY <2>1, <2>2, <2>4
    <3> QED
      BY ZenonT(30), <2>2, <2>3, <2>6, <3>1 DEF CommitterInv, NoneAhead
  <2>8. WelcomedOnce'
    <3>1. ASSUME NEW o \in Clients, NEW a \in accepted', Unused(o, a)', NEW b \in accepted',
                 b.sender = o, b.epoch > a.epoch
          PROVE  ~Stays(o, a.epoch, b.epoch - 1)'
      <4>1. a \in accepted /\ Unused(o, a)
        <5>1. b.epoch <= Epoch + 1
          <6>1. b.epoch = Epoch + 1 \/ (b.epoch \in Nat /\ b.epoch <= Epoch)
            BY Zenon, <2>2, <2>4, <3>1
          <6> QED
            BY <2>4, <6>1
        <5>2. a # rec
          BY <2>2, <2>4, <3>1, <5>1
        <5>3. Unused(o, a)
          BY Zenon, <2>3, <3>1 DEF Unused
        <5> QED
          BY Zenon, <2>2, <3>1, <5>2, <5>3
      <4>2. CASE b \in accepted
        BY ZenonT(30), <2>6, <3>1, <4>1, <4>2 DEF CommitterInv, WelcomedOnce
      <4>3. CASE b = rec
        <5>1. o = c /\ b.epoch - 1 = group[c].epoch /\ group[c].epoch >= a.epoch
          <6>1. o = c /\ b.epoch = group[c].epoch + 1
            BY Zenon, <2>1, <2>2, <3>1, <4>3
          <6>2. group[c].epoch \in Nat /\ a.epoch \in Nat /\ a.epoch <= group[c].epoch
            BY SMTT(30), <2>1, <2>4, <4>1
          <6> QED
            BY SMTT(30), <6>1, <6>2
        <5>2. ~Stays(c, a.epoch, group[c].epoch)
          BY Zenon, <2>1, <4>1, <5>1 DEF CommitterInv, WelcomedOnce
        <5> QED
          BY ZenonT(30), <2>6, <5>1, <5>2
      <4> QED
        BY Zenon, <2>2, <4>2, <4>3
    <3>2. ASSUME NEW o \in Clients, NEW a \in accepted', Unused(o, a)', group[o] # None, group[o].epoch >= a.epoch
          PROVE  ~Stays(o, a.epoch, group[o].epoch)'
      <4>1. a \in accepted /\ Unused(o, a)
        <5>1. a # rec
          BY <2>2, <2>4, <2>5, <3>2
        <5>2. Unused(o, a)
          BY Zenon, <2>3, <3>2 DEF Unused
        <5> QED
          BY Zenon, <2>2, <3>2, <5>1, <5>2
      <4>2. ~Stays(o, a.epoch, group[o].epoch)
        BY Zenon, <3>2, <4>1 DEF CommitterInv, WelcomedOnce
      <4> QED
        BY Zenon, <2>3, <2>6, <4>2
    <3> QED
      BY ZenonT(30), <2>3, <3>1, <3>2 DEF WelcomedOnce
  <2>9. SubmittedOnce'
    <3>1. \A o \in Clients : pc'[o] = "submit" => pc[o] = "submit" /\ o # c
      BY Zenon, <2>3 DEF WorkerTypes
    <3>2. \A o \in Clients : pc[o] = "submit" => pending[o].id[1] = o
      BY Zenon DEF AtRequest, Staged, MadeBy
    <3> QED
      BY SMTT(30), <2>1, <2>2, <2>3, <3>1, <3>2 DEF CommitterInv, SubmittedOnce
  <2>10. NextIsStaged'
    BY Zenon, <2>2, <2>3 DEF CommitterInv, NextIsStaged
  <2> QED
    BY ZenonT(30), <2>7, <2>8, <2>9, <2>10 DEF CommitterInv

<1>Step.
    ASSUME IInv, CommitterInv, [Next]_vars
    PROVE  CommitterInv'
  <2> USE <1>Step
  <2>1. AllOld' /\ unanswered \subseteq unanswered'
    BY Zenon, <1>StaysUnanswered, NextOld DEF CommitterInv
  <2>2. CASE UNCHANGED vars
    BY ZenonT(30), <2>1, <2>2, <1>RestingCommitter DEF vars, serviceVars, mailVars, workerVars
  <2>3. CASE ServiceStep
    <3>1. accepted' = accepted /\ UNCHANGED <<mailVars, clientVars, workerVars>>
      BY Zenon, <2>3 DEF ServiceStep, PushToLog, FinishPublish, PushToRecipient
    <3> QED
      BY Zenon, <2>1, <3>1, <1>RestingCommitter DEF mailVars, workerVars
  <2>4. ASSUME NEW c \in Clients, NEW r \in Clients, PostWelcome(c, r)
        PROVE  CommitterInv'
    <3>1. /\ UNCHANGED <<accepted, clientVars, key_packages, queued_intent, intent>>
          /\ \/ pc' = pc
             \/ pc' = [pc EXCEPT ![c] = "put_own"]
             \/ pc' = [pc EXCEPT ![c] = "welcome"]
      BY Zenon, <2>4 DEF PostWelcome, Goto, serviceVars
    <3>2. \A o \in Clients : pc'[o] = "submit" => pc[o] = "submit"
      BY Zenon, <3>1 DEF IInv, WorkerTypes
    <3> QED
      BY ZenonT(30), <2>1, <3>1, <3>2, <1>RestingCommitter
  <2>5. ASSUME NEW c \in Clients, ClientCommand(c)
        PROVE  CommitterInv'
    BY ZenonT(30), <2>1, <2>5, <1>CreateCommitter, <1>KeyPackageCommitter, <1>CommandCommitter, <1>JoinCommitter DEF ClientCommand
  <2>6. ASSUME NEW c \in Clients, WorkerStep(c)
        PROVE  CommitterInv'
    BY ZenonT(30), <2>1, <2>4, <2>6, <1>AcceptCommitter, <1>ConflictCommitter, <1>WorkerCommitter DEF WorkerStep
  <2>7. ASSUME NEW c \in Clients, Fault(c)
        PROVE  CommitterInv'
    BY Zenon, <2>1, <2>7, <1>WorkerCommitter DEF Fault
  <2>8. ASSUME NEW c \in Clients, ReceiveCommit(c) \/ ProcessPending(c)
        PROVE  CommitterInv'
    BY Zenon, <2>1, <2>8, <1>ReceiveCommitter
  <2> QED
    BY ZenonT(30), <2>2, <2>3, <2>5, <2>6, <2>7, <2>8 DEF Next

<1> QED
  BY Zenon, <1>Step

\* A committer whose commit was accepted, and who was not left without the
\* answer to it, can still merge it when it comes back, whatever other answers
\* are lost, commands are given up and old welcomes the client joins from.
THEOREM CommitterKeepsPendingHolds == Spec => []CommitterKeepsPending
<1>1. Init => CommitterInv
  <2> SUFFICES ASSUME Init PROVE CommitterInv
    BY Zenon
  <2>1. /\ accepted = {}
        /\ \A c \in Clients : /\ key_packages[c] = None /\ queued_intent[c] = None
                              /\ intent[c] = None /\ pending[c] = None
    BY Zenon DEF Init, DsInit
  <2> QED
    BY Zenon, <2>1 DEF CommitterInv, NoneAhead, WelcomedOnce, AllOld, SubmittedOnce, NextIsStaged
<1>2. IInv /\ CommitterInv /\ [Next]_vars => CommitterInv'
  BY Zenon, NextCommitter
<1>3. IInv /\ CommitterInv => CommitterKeepsPending
  <2> SUFFICES ASSUME IInv, CommitterInv, NEW a \in accepted, group[a.sender] # None,
                      group[a.sender].sid = a.commit_bytes.parent, a.commit_bytes \notin unanswered
               PROVE  pending[a.sender] = a.commit_bytes /\ IsOwnPending(a.sender, a.commit_bytes)
    BY Zenon DEF CommitterKeepsPending
  <2>1. a.sender \in Clients
    BY Zenon, ChainFacts
  <2>2. a.epoch = group[a.sender].epoch + 1
    BY Zenon, <2>1, ParentLink DEF IInv
  <2>3. pending[a.sender] = a.commit_bytes
    BY Zenon, <2>2 DEF CommitterInv, NextIsStaged
  <2>4. a.commit_bytes # None
    BY Zenon, NoneIsNoValue DEF IInv, DsTypeOK, GroupLogCommit
  <2> QED
    BY ZenonT(30), <2>1, <2>3, <2>4 DEF IsOwnPending, IInv, Staged
<1> QED
  BY <1>1, <1>2, <1>3, IInvHolds, PTL DEF Spec
----------------------------------------------------------------------------
(* The cursor *)

Cursor(c) == commit_cursors[c][G]

\* A commit under way or accepted adds the key package.
Used(kp) ==
    \/ \E a \in accepted : kp \in a.commit_bytes.adds
    \/ \E o \in Clients : \/ pending_bytes[o] # None /\ kp \in pending_bytes[o].commit.adds
                          \/ queued_intent[o] # None /\ kp \in queued_intent[o].adds

\* Of the key packages that a client holds one at most is used.
OneInvitation == \A c \in Clients : \A k, l \in keys[c] : Used(k) /\ Used(l) => k = l

\* Supporting facts: a client publishes its own key packages, an intent under way
\* is the one of the remembered commit, and what is remembered is not newer than
\* the key packages generated.
OwnPackages == \A c \in Clients : key_packages[c] # None => key_packages[c][1] = c
IntentStaged == \A c \in Clients : intent[c] # None => intent[c].adds = pending_bytes[c].commit.adds
BytesOld == \A c \in Clients : pending_bytes[c] # None => Old(pending_bytes[c].commit.adds)

KeyInv == OneInvitation /\ OwnPackages /\ IntentStaged /\ BytesOld

\* A welcome that a client can still use leads to no earlier epoch than its
\* cursor, and beyond the state it is in.
Due ==
    \A c \in Clients : \A a \in accepted : Unused(c, a) =>
      /\ Cursor(c) <= a.epoch
      /\ group[c] # None => group[c].epoch < a.epoch

\* A worker that is about to ack holds a delivery, and an idle one does not.
Held ==
    \A c \in Clients :
      /\ pc[c] = "idle" => delivery[c] = None
      /\ pc[c] = "ack" => delivery[c] # None /\ delivery[c].id # None

\* The client has reached the commit that its worker is going to ack, or the
\* commit has removed it.
Reaches(c) ==
    delivery[c] # None /\ delivery[c].id # None =>
      /\ delivery[c].id[2] <= Epoch
      /\ group[c] # None => delivery[c].id[2] <= group[c].epoch
      /\ group[c] = None => keys[c] = {}
Reached == \A c \in Clients : Reaches(c)

\* The cursor is behind the service and behind the client.
Behind ==
    \A c \in Clients : /\ Cursor(c) <= Epoch
                       /\ group[c] # None => Cursor(c) <= group[c].epoch

CursorInv == Forgotten /\ AllOld /\ KeyInv /\ Due /\ Held /\ Reached /\ Behind

\* The cursors, the deliveries to ack and the epochs are numbers.
LEMMA CursorTypes ==
  ASSUME IInv
  PROVE  /\ Epoch \in Nat
         /\ \A c \in Clients : /\ Cursor(c) \in Nat
                               /\ group[c] # None => group[c].epoch \in 0..Epoch
                               /\ delivery[c] # None /\ delivery[c].id # None => delivery[c].id[2] \in Nat
<1>1. \A c \in Clients : Cursor(c) \in Nat
  BY Zenon, GroupOfRun DEF IInv, DsTypeOK, Cursor
<1>2. ASSUME NEW c \in Clients, delivery[c] # None, delivery[c].id # None
      PROVE  delivery[c].id[2] \in Nat
  <2>1. delivery[c] \in Delivery
    BY Zenon, <1>2 DEF IInv, WorkerTypes
  <2>2. delivery[c].id \in Groups \X Nat \X Clients \X Clients
    BY Zenon, <1>2, <2>1 DEF Delivery
  <2> QED
    BY <2>2
<1> QED
  BY Zenon, <1>1, <1>2, ChainFacts

\* Clients that move so stay ahead of their cursors.
LEMMA MovesDue ==
  ASSUME IInv, KeyInv, Due, Behind, UNCHANGED <<accepted, commit_cursors>>, Epoch' = Epoch,
         \A c \in Clients : Rests(c) \/ Leaves(c) \/ Advances(c) \/ Enters(c)
  PROVE  Due' /\ Behind'
<1> USE DEF IInv
<1>1. \A c \in Clients : Cursor(c)' = Cursor(c)
  BY Zenon DEF Cursor
<1>2. ASSUME NEW c \in Clients
      PROVE  /\ \A a \in accepted : Unused(c, a)' =>
                  Cursor(c) <= a.epoch /\ (group'[c] # None => group'[c].epoch < a.epoch)
             /\ group'[c] # None => Cursor(c) <= group'[c].epoch
  <2>1. CASE Rests(c)
    BY Zenon, <2>1 DEF Rests, Due, Behind, Unused
  <2>2. CASE Leaves(c)
    <3>1. \A a \in accepted : Unused(c, a)' => Unused(c, a)
      BY Zenon, <2>2 DEF Leaves, Unused
    <3> QED
      BY Zenon, <2>2, <3>1 DEF Leaves, Due
  <2>3. CASE Advances(c)
    <3>1. PICK b \in accepted : /\ b.epoch = group[c].epoch + 1 /\ group[c] # None
                                /\ group'[c] = Result(b.commit_bytes) /\ keys'[c] = keys[c]
      BY Zenon, <2>3 DEF Advances
    <3>2. group'[c].epoch = b.epoch /\ group[c].epoch \in Nat /\ Cursor(c) \in Nat
      BY Zenon, <3>1, ChainFacts, CursorTypes
    <3>3. c \in b.commit_bytes.roster
      BY ZenonT(30), <3>1, RosterLink DEF OnHistory
    <3>4. ASSUME NEW a \in accepted, Unused(c, a)
          PROVE  Cursor(c) <= a.epoch /\ group'[c].epoch < a.epoch
      <4>1. a.epoch # b.epoch
        BY Zenon, <3>3, <3>4, ChainFacts, UnusedFacts
      <4>2. a.epoch \in Nat
        BY Zenon, ChainFacts
      <4>3. Cursor(c) <= a.epoch /\ group[c].epoch < a.epoch
        BY Zenon, <3>1, <3>4 DEF Due
      <4> QED
        BY <3>1, <3>2, <4>1, <4>2, <4>3
    <3>5. Cursor(c) <= group[c].epoch
      BY Zenon, <3>1 DEF Behind
    <3>6. Cursor(c) <= group'[c].epoch
      BY <3>1, <3>2, <3>5
    <3> QED
      BY Zenon, <3>1, <3>4, <3>6 DEF Unused
  <2>4. CASE Enters(c)
    <3>1. PICK b \in accepted : /\ Unused(c, b) /\ group'[c] = Result(b.commit_bytes)
                                /\ keys'[c] = keys[c] \ b.commit_bytes.adds
      BY Zenon, <2>4 DEF Enters
    <3>2. ASSUME NEW a \in accepted, Unused(c, a)'
          PROVE  FALSE
      <4>1. PICK k \in keys[c] : k \in a.commit_bytes.adds /\ k \notin b.commit_bytes.adds
        BY Zenon, <3>1, <3>2 DEF Unused
      <4>2. PICK l \in keys[c] : l \in b.commit_bytes.adds
        BY Zenon, <3>1 DEF Unused
      <4> QED
        BY Zenon, <4>1, <4>2 DEF KeyInv, OneInvitation, Used
    <3>3. Cursor(c) <= b.epoch /\ group'[c].epoch = b.epoch
      BY Zenon, <3>1, ChainFacts DEF Due
    <3> QED
      BY Zenon, <3>2, <3>3
  <2> QED
    BY Zenon, <2>1, <2>2, <2>3, <2>4
<1> QED
  BY Zenon, <1>1, <1>2 DEF Due, Behind

\* Where a worker goes on to from a request.
LEMMA HeldFrame ==
  ASSUME IInv, Held, NEW c \in Clients,
         \/ Return(c)
         \/ FinishApply(c) /\ delivery[c] # None
         \/ delivery' = delivery /\ pc' = pc
         \/ delivery' = delivery /\ \E l : l \notin {"idle", "ack"} /\ Goto(c, l)
  PROVE  Held' /\ \A o \in Clients : delivery'[o] \in {None, delivery[o]}
<1> USE DEF IInv
<1>1. CASE Return(c)
  BY ZenonT(30), <1>1 DEF Return, Goto, Held, WorkerTypes
<1>2. CASE delivery[c] # None /\ delivery[c].id # None /\ delivery' = delivery /\ Goto(c, "ack")
  BY ZenonT(30), <1>2 DEF Goto, Held, WorkerTypes
<1>3. CASE delivery' = delivery /\ pc' = pc
  BY Zenon, <1>3 DEF Held
<1>4. CASE delivery' = delivery /\ \E l : l \notin {"idle", "ack"} /\ Goto(c, l)
  BY ZenonT(30), <1>4 DEF Goto, Held, WorkerTypes
<1> QED
  BY Zenon, <1>1, <1>2, <1>3, <1>4 DEF FinishApply

\* What a worker holds, if its client stays where it is.
LEMMA ReachedFrame ==
  ASSUME IInv, Reached, Epoch' \in Nat, Epoch <= Epoch',
         \A o \in Clients : \/ Rests(o) /\ delivery'[o] \in {None, delivery[o]}
                            \/ delivery'[o] = None
                            \/ Reaches(o)'
  PROVE  Reached'
<1> SUFFICES ASSUME NEW o \in Clients, Rests(o), delivery'[o] = delivery[o]
             PROVE  Reaches(o)'
  BY Zenon DEF Reached, Reaches
<1> SUFFICES ASSUME delivery[o] # None, delivery[o].id # None
             PROVE  delivery[o].id[2] <= Epoch'
  BY Zenon DEF Reached, Reaches, Rests
<1>1. delivery[o].id[2] <= Epoch
  BY Zenon DEF Reached, Reaches
<1> QED
  BY <1>1, CursorTypes

\* Every step but the two that apply commits.
LEMMA StepHeld ==
  ASSUME IInv, Held, NEW c \in Clients, ClientCommand(c) \/ WorkerStep(c) \/ Fault(c)
  PROVE  Held' /\ \A o \in Clients : delivery'[o] \in {None, delivery[o]}
<1> USE DEF IInv
<1> DEFINE Goes == \/ Return(c)
                   \/ FinishApply(c) /\ delivery[c] # None
                   \/ delivery' = delivery /\ pc' = pc
                   \/ delivery' = delivery /\ \E l : l \notin {"idle", "ack"} /\ Goto(c, l)
<1> SUFFICES Goes
  BY Zenon, HeldFrame
<1>1. ASSUME NEW l \in {"submit", "await", "put_created", "put_own", "welcome"}, Goto(c, l), delivery' = delivery
      PROVE  Goes
  BY Zenon, <1>1
<1>2. CASE CreateGroup(c) \/ GenerateKeyPackage(c) \/ SelfUpdate(c) \/ JoinFromWelcome(c)
  BY Zenon, <1>1, <1>2 DEF CreateGroup, GenerateKeyPackage, SelfUpdate, JoinFromWelcome, StartIntent, workerVars
<1>3. ASSUME NEW ts \in SUBSET Clients, AddMembers(c, ts) \/ RemoveMembers(c, ts)
      PROVE  Goes
  BY Zenon, <1>1, <1>3 DEF AddMembers, RemoveMembers, StartIntent, workerVars
<1>4. CASE SubmitAccepted(c) \/ SubmitLost(c) \/ PutLost(c) \/ GiveUp(c) \/ PutCreated(c) \/ AckDelivery(c)
  BY Zenon, <1>1, <1>4 DEF SubmitAccepted, SubmitLost, PutLost, GiveUp, PutCreated, AckDelivery, workerVars
<1>5. CASE SubmitOk(c) \/ SubmitConflict(c)
  BY Zenon, <1>5 DEF SubmitOk, SubmitConflict
<1>6. CASE PutOwn(c) \/ PutExternal(c)
  BY Zenon, <1>1, <1>6 DEF PutOwn, PutExternal, StartIntent, AtRequest
<1>7. ASSUME NEW r \in Clients, PostWelcome(c, r)
      PROVE  Goes
  BY Zenon, <1>1, <1>7 DEF PostWelcome
<1> HIDE DEF Goes
<1> QED
  BY Zenon, <1>2, <1>3, <1>4, <1>5, <1>6, <1>7 DEF ClientCommand, WorkerStep, Fault

\* Every step.
LEMMA NextKeys == AddsAwaitJoin /\ IInv /\ AllOld /\ AllOld' /\ KeyInv /\ [Next]_vars => KeyInv'
\* The key packages of remembered commits are those of clients.
<1>BytesOfClients.
    ASSUME IInv, NEW c \in Clients, pending_bytes[c] # None, NEW kp \in pending_bytes[c].commit.adds
    PROVE  kp[1] \in Clients
  <2> USE <1>BytesOfClients
  <2>1. pending_bytes[c].commit \in MlsCommit
    BY Zenon DEF IInv, ClientTypes, PendingBytes
  <2>2. kp \in KeyPackage
    BY Zenon, <2>1 DEF MlsCommit
  <2> QED
    BY Zenon, <2>2 DEF KeyPackage

\* A step that stages nothing and brings no new key package.
<1>KeysFrame.
    ASSUME IInv, KeyInv, accepted' = accepted,
           \A o \in Clients :
             /\ keys'[o] \subseteq keys[o]
             /\ made'[o].key_packages = made[o].key_packages
             /\ key_packages'[o] \in {None, key_packages[o]}
             /\ pending_bytes'[o] \in {None, pending_bytes[o]}
             /\ queued_intent'[o] \in {None, queued_intent[o]}
             /\ intent'[o] = None \/ (intent'[o] = intent[o] /\ pending_bytes'[o] = pending_bytes[o])
    PROVE  KeyInv'
  <2> USE <1>KeysFrame
  <2>1. \A kp : Used(kp)' => Used(kp)
    BY Zenon DEF Used
  <2>2. OneInvitation'
    BY Zenon, <2>1 DEF KeyInv, OneInvitation
  <2>3. OwnPackages'
    BY Zenon DEF KeyInv, OwnPackages
  <2>4. IntentStaged'
    BY Zenon DEF KeyInv, IntentStaged
  <2>5. BytesOld'
    BY Zenon, <1>BytesOfClients DEF KeyInv, BytesOld, Old
  <2> QED
    BY Zenon, <2>2, <2>3, <2>4, <2>5 DEF KeyInv

\* Staging a commit, whose key packages are used for the first time or already.
<1>StageKeys.
    ASSUME IInv, AllOld', KeyInv, accepted' = accepted,
           NEW c \in Clients, NEW it \in Intent, StartIntent(c, it), queued_intent' = queued_intent,
           \A o \in Clients : key_packages'[o] \in {None, key_packages[o]},
           \A o \in Clients : \A k \in keys[o] \cap it.adds :
             \A l \in keys[o] : Used(l) \/ l \in it.adds => l = k
    PROVE  KeyInv'
  <2> USE <1>StageKeys
  <2> USE DEF IInv
  <2> DEFINE m == NewCommit(c, it)
  <2>1. /\ pending'[c] = m /\ pending_bytes'[c].commit = m /\ intent'[c] = it
        /\ keys' = keys
    BY Zenon DEF StartIntent, ClientTypes, WorkerTypes
  <2>2. m.adds = it.adds /\ m \in MlsCommit
    <3>1. m.adds = it.adds
      BY Zenon, NewCommitMade DEF StartIntent
    <3>2. m \in MlsCommit
      BY Zenon, NewCommitMade DEF StartIntent, MadeBy
    <3> QED
      BY Zenon, <3>1, <3>2
  <2> HIDE DEF m
  <2>3. \A o \in Clients \ {c} : pending_bytes'[o] = pending_bytes[o] /\ intent'[o] = intent[o]
    BY Zenon DEF StartIntent, ClientTypes, WorkerTypes
  <2>4. \A kp : Used(kp)' => Used(kp) \/ kp \in it.adds
    BY ZenonT(30), <2>1, <2>2, <2>3 DEF Used
  <2>5. OneInvitation'
    BY ZenonT(30), <2>1, <2>4 DEF KeyInv, OneInvitation
  <2>6. OwnPackages'
    BY Zenon DEF KeyInv, OwnPackages
  <2>7. IntentStaged'
    BY Zenon, <2>1, <2>2, <2>3 DEF KeyInv, IntentStaged
  <2>8. BytesOld'
    <3>1. \A o \in Clients : made'[o].key_packages = made[o].key_packages
      <4>1. made' = [made EXCEPT ![c] = [made[c] EXCEPT !.commits = made[c].commits + 1]]
        BY Zenon DEF StartIntent
      <4>2. made[c] \in [commits : Nat, key_packages : Nat]
        BY Zenon DEF ClientTypes
      <4>3. made' = [made EXCEPT ![c] = [commits |-> made[c].commits + 1, key_packages |-> made[c].key_packages]]
        BY Zenon, <4>1, <4>2, MadeUpdate
      <4> QED
        BY Zenon, <4>3 DEF ClientTypes
    <3>2. m # None
      BY Zenon, <2>2, NoneIsNoValue
    <3>3. Old(pending_bytes[c].commit.adds)'
      BY Zenon, <2>1, <3>2 DEF AllOld
    <3>4. ASSUME NEW o \in Clients \ {c}, pending_bytes[o] # None
          PROVE  Old(pending_bytes[o].commit.adds)'
      BY Zenon, <2>3, <3>1, <3>4, <1>BytesOfClients DEF KeyInv, BytesOld, Old
    <3> QED
      BY Zenon, <2>3, <3>3, <3>4 DEF BytesOld
  <2> QED
    BY Zenon, <2>5, <2>6, <2>7, <2>8 DEF KeyInv

\* The commands that stage a commit: the clients added hold no key package that
\* is used, as the runner has let them join since.
<1>CommandKeys.
    ASSUME AddsAwaitJoin, IInv, AllOld', KeyInv, NEW c \in Clients,
           SelfUpdate(c) \/ \E ts \in SUBSET Clients : AddMembers(c, ts) \/ RemoveMembers(c, ts)
    PROVE  KeyInv'
  <2> USE <1>CommandKeys
  <2> USE DEF IInv
  <2>1. accepted' = accepted
    BY Zenon, QuietStep
  <2>2. CASE SelfUpdate(c)
    <3>1. [adds |-> {}, removes |-> {}] \in Intent /\ [adds |-> {}, removes |-> {}].adds = {}
      BY Zenon DEF Intent
    <3> QED
      BY Zenon, <2>1, <2>2, <3>1, <1>StageKeys DEF SelfUpdate, mailVars
  <2>3. ASSUME NEW ts \in SUBSET Clients, RemoveMembers(c, ts)
        PROVE  KeyInv'
    <3>1. [adds |-> {}, removes |-> ts] \in Intent /\ [adds |-> {}, removes |-> ts].adds = {}
      BY Zenon DEF Intent
    <3> QED
      BY Zenon, <2>1, <2>3, <3>1, <1>StageKeys DEF RemoveMembers, mailVars
  <2>4. ASSUME NEW ts \in SUBSET Clients, AddMembers(c, ts)
        PROVE  KeyInv'
    <3>1. \A o \in Clients : key_packages'[o] \in {None, key_packages[o]}
      BY Zenon, <2>4, Adding
    <3>2. CASE UNCHANGED <<clientVars, workerVars>>
      BY Zenon, <2>1, <3>1, <3>2, <1>KeysFrame DEF clientVars, workerVars
    <3>3. ASSUME \A t \in ts : key_packages[t] \in KeyPackage, AddIntent(ts) \in Intent,
                 StartIntent(c, AddIntent(ts)), UNCHANGED queued_intent
          PROVE  KeyInv'
      <4>1. AddIntent(ts).adds = {key_packages[t] : t \in ts}
        BY Zenon DEF AddIntent
      <4>2. \A t \in ts : \A l \in keys[t] : ~Used(l)
        BY Zenon, <2>4 DEF AddMembers, Invited, Used
      <4>3. ASSUME NEW o \in Clients, NEW k \in keys[o], k \in AddIntent(ts).adds
            PROVE  o \in ts /\ k = key_packages[o]
        <5>1. PICK t \in ts : k = key_packages[t]
          BY Zenon, <4>1, <4>3
        <5>2. k[1] = t /\ k[1] = o
          BY Zenon, <3>3, <4>3, <5>1, NoneIsNoValue DEF KeyInv, OwnPackages, OwnKeys
        <5> QED
          BY Zenon, <5>1, <5>2
      <4>4. \A o \in Clients : \A k \in keys[o] \cap AddIntent(ts).adds :
              \A l \in keys[o] : Used(l) \/ l \in AddIntent(ts).adds => l = k
        BY Zenon, <4>2, <4>3
      <4> QED
        BY Zenon, <2>1, <3>1, <3>3, <4>4, <1>StageKeys
    <3> QED
      BY Zenon, <2>4, <3>2, <3>3, Adding
  <2> QED
    BY Zenon, <2>2, <2>3, <2>4

\* A key package that is generated is not used yet.
<1>GenerateKeys.
    ASSUME IInv, AllOld, KeyInv, NEW c \in Clients, GenerateKeyPackage(c)
    PROVE  KeyInv'
  <2> USE <1>GenerateKeys
  <2> USE DEF IInv
  <2> DEFINE n == made[c].key_packages
             kp == <<c, n + 1>>
  <2>1. /\ keys' = [keys EXCEPT ![c] = @ \cup {kp}]
        /\ UNCHANGED <<accepted, pending_bytes, queued_intent, intent>>
        /\ key_packages' = key_packages \/ key_packages' = [key_packages EXCEPT ![c] = kp]
    BY Zenon DEF GenerateKeyPackage, serviceVars, workerVars
  <2>2. /\ n \in Nat
        /\ \A o \in Clients : /\ made[o].key_packages \in Nat
                              /\ made'[o].key_packages \in Nat /\ made'[o].key_packages >= made[o].key_packages
    <3>1. made' = [made EXCEPT ![c] = [made[c] EXCEPT !.key_packages = made[c].key_packages + 1]]
      BY Zenon DEF GenerateKeyPackage
    <3>2. made[c] \in [commits : Nat, key_packages : Nat]
      BY Zenon DEF ClientTypes
    <3>3. made' = [made EXCEPT ![c] = [commits |-> made[c].commits, key_packages |-> made[c].key_packages + 1]]
      BY ZenonT(30), <3>1, <3>2, MadeUpdate
    <3> QED
      BY <3>2, <3>3 DEF ClientTypes
  <2>3. ~(kp[2] <= made[kp[1]].key_packages) /\ kp[1] = c
    BY <2>2
  <2>4. \A k : Used(k) => k[2] <= made[k[1]].key_packages
    BY ZenonT(30) DEF Used, AllOld, KeyInv, BytesOld, Old
  <2>5. \A k : Used(k)' <=> Used(k)
    BY Zenon, <2>1 DEF Used
  <2> HIDE DEF kp
  <2>6. \A o \in Clients : \A k \in keys'[o] : Used(k) => k \in keys[o]
    BY Zenon, <2>1, <2>3, <2>4 DEF ClientTypes
  <2>7. OneInvitation'
    BY Zenon, <2>5, <2>6 DEF KeyInv, OneInvitation
  <2>8. OwnPackages'
    BY ZenonT(30), <2>1, <2>3 DEF KeyInv, OwnPackages, ClientTypes
  <2>9. IntentStaged'
    BY Zenon, <2>1 DEF KeyInv, IntentStaged
  <2>10. BytesOld'
    <3> SUFFICES ASSUME NEW o \in Clients, pending_bytes[o] # None, NEW k \in pending_bytes[o].commit.adds
                 PROVE  k[2] <= made'[k[1]].key_packages
      BY Zenon, <2>1 DEF BytesOld, Old
    <3>1. k[2] <= made[k[1]].key_packages
      BY Zenon DEF KeyInv, BytesOld, Old
    <3>2. k \in KeyPackage
      BY Zenon DEF ClientTypes, PendingBytes, MlsCommit
    <3>3. k[1] \in Clients /\ k[2] \in Nat
      BY Zenon, <3>2 DEF KeyPackage
    <3> QED
      BY <2>2, <3>1, <3>3
  <2> QED
    BY Zenon, <2>7, <2>8, <2>9, <2>10 DEF KeyInv

\* The outcomes of a submission: what it adds is in use before and after.
<1>SubmitKeys.
    ASSUME IInv, KeyInv, NEW c \in Clients, SubmitAccepted(c) \/ SubmitConflict(c)
    PROVE  KeyInv'
  <2> USE <1>SubmitKeys
  <2> USE DEF IInv
  <2>1. /\ UNCHANGED <<keys, key_packages, made>> /\ intent[c] # None
        /\ pending_bytes[c] # None /\ pending_bytes[c].commit = pending[c]
    BY Zenon DEF SubmitAccepted, SubmitConflict, AtRequest, Staged, clientVars, mailVars
  <2>2. \A kp \in intent[c].adds : Used(kp)
    BY Zenon, <2>1 DEF KeyInv, IntentStaged, Used
  <2>3. CASE SubmitAccepted(c)
    <3> DEFINE rec == [group_id |-> G, epoch |-> next_epoch(group[c].epoch), sender |-> c,
                       commit_bytes |-> pending[c], recipients |-> groups[G].members]
    <3>1. accepted' = accepted \cup {rec} /\ rec.commit_bytes = pending[c]
      BY Zenon, <2>3 DEF SubmitAccepted, AcceptCommit
    <3>2. UNCHANGED <<pending_bytes, queued_intent, intent>>
      BY Zenon, <2>3 DEF SubmitAccepted, clientVars
    <3> HIDE DEF rec
    <3>3. \A kp : Used(kp)' => Used(kp)
      BY ZenonT(30), <2>1, <3>1, <3>2 DEF Used
    <3> QED
      BY Zenon, <2>1, <3>2, <3>3 DEF KeyInv, OneInvitation, OwnPackages, IntentStaged, BytesOld, Old
  <2>4. CASE SubmitConflict(c)
    <3>1. /\ accepted' = accepted
          /\ pending_bytes' = [pending_bytes EXCEPT ![c] = None]
          /\ queued_intent' = [queued_intent EXCEPT ![c] = intent[c]]
          /\ intent' = [intent EXCEPT ![c] = None]
      BY Zenon, <2>4 DEF SubmitConflict, Return, FinishApply, serviceVars
    <3>2. \A o \in Clients : /\ pending_bytes'[o] = (IF o = c THEN None ELSE pending_bytes[o])
                             /\ queued_intent'[o] = (IF o = c THEN intent[o] ELSE queued_intent[o])
                             /\ intent'[o] = (IF o = c THEN None ELSE intent[o])
      BY Zenon, <3>1 DEF ClientTypes, WorkerTypes
    <3>3. \A kp : Used(kp)' => Used(kp)
      BY ZenonT(30), <2>2, <3>1, <3>2 DEF Used
    <3>4. OneInvitation' /\ OwnPackages'
      BY Zenon, <2>1, <3>3 DEF KeyInv, OneInvitation, OwnPackages
    <3>5. IntentStaged'
      BY Zenon, <3>2 DEF KeyInv, IntentStaged
    <3>6. BytesOld'
      BY Zenon, <2>1, <3>2 DEF KeyInv, BytesOld, Old
    <3> QED
      BY Zenon, <3>4, <3>5, <3>6 DEF KeyInv
  <2> QED
    BY Zenon, <2>3, <2>4

<1>Step.
    ASSUME AddsAwaitJoin, IInv, AllOld, AllOld', KeyInv, [Next]_vars
    PROVE  KeyInv'
  <2> USE <1>Step
  <2> USE DEF IInv
  <2>1. CASE UNCHANGED vars \/ ServiceStep
    <3>1. accepted' = accepted /\ UNCHANGED <<mailVars, clientVars, workerVars>>
      BY Zenon, <2>1 DEF vars, serviceVars, ServiceStep, PushToLog, FinishPublish, PushToRecipient
    <3> QED
      BY Zenon, <3>1, <1>KeysFrame DEF mailVars, clientVars, workerVars
  <2>2. ASSUME NEW c \in Clients, CreateGroup(c) \/ JoinFromWelcome(c) \/ ReceiveCommit(c) \/ ProcessPending(c)
        PROVE  KeyInv'
    <3>1. /\ UNCHANGED <<accepted, key_packages, made, intent>> /\ pc[c] = "idle"
          /\ keys' = keys \/ \E S : keys' = [keys EXCEPT ![c] = @ \ S] \/ keys' = [keys EXCEPT ![c] = {}]
          /\ pending_bytes' = pending_bytes \/ pending_bytes' = [pending_bytes EXCEPT ![c] = None]
          /\ queued_intent' = queued_intent \/ queued_intent' = [queued_intent EXCEPT ![c] = None]
      BY Zenon, <2>2 DEF CreateGroup, JoinFromWelcome, ReceiveCommit, ProcessPending, ApplyOwn, ApplyExternal,
                         HandOut, serviceVars, mailVars, workerVars
    <3>2. intent[c] = None
      BY Zenon, <3>1 DEF AtRequest
    <3>3. \A o \in Clients : keys'[o] \subseteq keys[o]
      BY ZenonT(30), <3>1 DEF ClientTypes
    <3>4. \A o \in Clients : /\ pending_bytes'[o] \in {None, pending_bytes[o]}
                             /\ o # c => pending_bytes'[o] = pending_bytes[o]
                             /\ queued_intent'[o] \in {None, queued_intent[o]}
      BY Zenon, <3>1 DEF ClientTypes, WorkerTypes
    <3> QED
      BY Zenon, <3>1, <3>2, <3>3, <3>4, <1>KeysFrame
  <2>3. ASSUME NEW c \in Clients,
               \/ SubmitOk(c) \/ SubmitLost(c) \/ GiveUp(c) \/ PutCreated(c) \/ PutOwn(c) \/ PutExternal(c)
               \/ PutLost(c) \/ AckDelivery(c) \/ \E r \in Clients : PostWelcome(c, r)
        PROVE  KeyInv'
    <3>1. accepted' = accepted /\ key_packages' = key_packages
      BY Zenon, <2>3, QuietStep DEF SubmitOk, SubmitLost, GiveUp, PutCreated, PutOwn, PutExternal, PutLost,
             AckDelivery, PostWelcome, serviceVars, mailVars
    <3>2. CASE PutExternal(c) /\ queued_intent[c] # None /\ StartIntent(c, queued_intent[c])
      <4>1. queued_intent[c] \in Intent /\ queued_intent' = queued_intent
        BY Zenon, <3>2 DEF PutExternal, WorkerTypes
      <4>2. \A kp \in queued_intent[c].adds : Used(kp)
        BY Zenon, <3>2 DEF Used
      <4>3. \A o \in Clients : \A k \in keys[o] \cap queued_intent[c].adds :
              \A l \in keys[o] : Used(l) \/ l \in queued_intent[c].adds => l = k
        BY Zenon, <4>2 DEF KeyInv, OneInvitation
      <4> QED
        BY Zenon, <3>1, <3>2, <4>1, <4>3, <1>StageKeys
    <3>3. CASE ~(PutExternal(c) /\ queued_intent[c] # None /\ StartIntent(c, queued_intent[c]))
      <4>1. /\ UNCHANGED clientVars
            /\ queued_intent' = queued_intent \/ queued_intent' = [queued_intent EXCEPT ![c] = None]
            /\ intent' = intent \/ intent' = [intent EXCEPT ![c] = None]
        BY Zenon, <2>3, <3>3 DEF SubmitOk, SubmitLost, GiveUp, PutCreated, PutOwn, PutExternal, PutLost, AckDelivery,
                           PostWelcome, Return, FinishApply, workerVars
      <4> QED
        BY ZenonT(30), <3>1, <4>1, <1>KeysFrame DEF clientVars, WorkerTypes
    <3> QED
      BY Zenon, <3>2, <3>3
  <2>4. ASSUME NEW c \in Clients, ClientCommand(c) \/ WorkerStep(c) \/ Fault(c)
        PROVE  KeyInv'
    BY ZenonT(30), <2>2, <2>3, <2>4, <1>CommandKeys, <1>GenerateKeys, <1>SubmitKeys DEF ClientCommand, WorkerStep, Fault
  <2> QED
    BY Zenon, <2>1, <2>2, <2>4 DEF Next

<1> QED
  BY Zenon, <1>Step

\* Every step.
LEMMA NextCursor == AddsAwaitJoin /\ IInv /\ CursorInv /\ [Next]_vars => CursorInv'
\* A step that moves no client and no cursor.
<1>RestingCursor.
    ASSUME IInv, CursorInv, Forgotten', AllOld', KeyInv', Held',
           UNCHANGED <<accepted, commit_cursors>>, Epoch' = Epoch,
           \A o \in Clients : Rests(o) /\ delivery'[o] \in {None, delivery[o]}
    PROVE  CursorInv'
  <2> USE <1>RestingCursor
  <2>1. Due' /\ Behind'
    BY Zenon, MovesDue DEF CursorInv
  <2>2. Epoch' \in Nat /\ Epoch <= Epoch'
    BY CursorTypes
  <2>3. Reached'
    BY Zenon, <2>2, ReachedFrame DEF CursorInv
  <2> QED
    BY Zenon, <2>1, <2>3 DEF CursorInv

\* The founder: no commit is accepted yet.
<1>CreateCursor.
    ASSUME IInv, CursorInv, Forgotten', AllOld', KeyInv', Held', NEW c \in Clients, CreateGroup(c),
           \A o \in Clients : delivery'[o] \in {None, delivery[o]}
    PROVE  CursorInv'
  <2> USE <1>CreateCursor
  <2> USE DEF IInv
  <2>1. /\ UNCHANGED <<accepted, commit_cursors, keys>> /\ Epoch' = Epoch /\ Epoch = 0 /\ pc[c] = "idle"
        /\ group' = [group EXCEPT ![c] = NewGroup(c)]
    BY Zenon DEF CreateGroup, serviceVars, Epoch
  <2>2. accepted = {}
    BY SMTT(30), <2>1 DEF AcceptedOK
  <2>3. \A o \in Clients : Cursor(o) \in Nat /\ Cursor(o) <= 0
    BY Zenon, <2>1, CursorTypes DEF CursorInv, Behind
  <2>4. /\ \A o \in Clients \ {c} : Rests(o)
        /\ group'[c].epoch = 0
    BY Zenon, <2>1 DEF ClientTypes, Rests, NewGroup
  <2>5. \A o \in Clients : Cursor(o)' = Cursor(o)
    BY Zenon, <2>1 DEF Cursor
  <2>6. Due'
    BY Zenon, <2>1, <2>2 DEF Due
  <2>7. Behind'
    BY Zenon, <2>1, <2>3, <2>4, <2>5 DEF CursorInv, Behind, Rests
  <2>8. delivery'[c] = None
    BY Zenon, <2>1 DEF CursorInv, Held
  <2>9. Epoch' \in Nat /\ Epoch <= Epoch'
    BY <2>1
  <2>10. Reached'
    BY Zenon, <2>4, <2>8, <2>9, ReachedFrame DEF CursorInv
  <2> QED
    BY Zenon, <2>6, <2>7, <2>10 DEF CursorInv

\* A new key package is in no accepted commit.
<1>KeyPackageCursor.
    ASSUME IInv, CursorInv, Forgotten', AllOld', KeyInv', Held', NEW c \in Clients, GenerateKeyPackage(c),
           \A o \in Clients : delivery'[o] \in {None, delivery[o]}
    PROVE  CursorInv'
  <2> USE <1>KeyPackageCursor
  <2> USE DEF IInv
  <2>1. /\ UNCHANGED <<accepted, commit_cursors, group>> /\ Epoch' = Epoch /\ pc[c] = "idle"
        /\ \A o \in Clients \ {c} : Rests(o)
    BY Zenon DEF GenerateKeyPackage, serviceVars, Epoch, ClientTypes, Rests
  <2>2. \A o \in Clients : \A a \in accepted : Unused(o, a)' <=> Unused(o, a)
    BY Zenon, NewKeyPackage DEF CursorInv
  <2>3. Due' /\ Behind'
    BY Zenon, <2>1, <2>2 DEF CursorInv, Due, Behind, Cursor
  <2>4. delivery'[c] = None
    BY Zenon, <2>1 DEF CursorInv, Held
  <2>5. Epoch' \in Nat /\ Epoch <= Epoch'
    BY <2>1, CursorTypes
  <2>6. Reached'
    BY Zenon, <2>1, <2>4, <2>5, ReachedFrame DEF CursorInv
  <2> QED
    BY Zenon, <2>3, <2>6 DEF CursorInv

\* A client that joins has used its key package.
<1>JoinCursor.
    ASSUME IInv, CursorInv, Forgotten', AllOld', KeyInv', Held', NEW c \in Clients, JoinFromWelcome(c),
           \A o \in Clients : delivery'[o] \in {None, delivery[o]}
    PROVE  CursorInv'
  <2> USE <1>JoinCursor
  <2>1. UNCHANGED <<accepted, commit_cursors>> /\ Epoch' = Epoch /\ pc[c] = "idle"
    BY Zenon DEF JoinFromWelcome, serviceVars, Epoch
  <2>2. /\ \A o \in Clients \ {c} : Rests(o)
        /\ Rests(c) \/ Leaves(c) \/ Enters(c)
    BY Zenon, JoinMoves
  <2>3. Due' /\ Behind'
    BY Zenon, <2>1, <2>2, MovesDue DEF CursorInv
  <2>4. delivery'[c] = None
    BY Zenon, <2>1 DEF CursorInv, Held
  <2>5. Epoch' \in Nat /\ Epoch <= Epoch'
    BY <2>1, CursorTypes
  <2>6. Reached'
    BY Zenon, <2>2, <2>4, <2>5, ReachedFrame DEF CursorInv
  <2> QED
    BY Zenon, <2>3, <2>6 DEF CursorInv

\* An ack moves the cursor to a commit that the client has reached.
<1>AckCursor.
    ASSUME IInv, CursorInv, Forgotten', AllOld', KeyInv', Held', NEW c \in Clients, AckDelivery(c),
           \A o \in Clients : delivery'[o] \in {None, delivery[o]}
    PROVE  CursorInv'
  <2> USE <1>AckCursor
  <2> USE DEF IInv
  <2> DEFINE id == delivery[c].id
  <2>1. /\ UNCHANGED <<accepted, group>> /\ Epoch' = Epoch
    BY Zenon, QuietStep
  <2>2. keys' = keys /\ pc[c] = "ack" /\ ack_commit(c, id)
    BY Zenon DEF AckDelivery, clientVars
  <2>3. delivery[c] # None /\ id # None
    BY Zenon, <2>2 DEF CursorInv, Held
  <2>4. /\ id[2] \in Nat /\ id[2] <= Epoch
        /\ group[c] # None => id[2] <= group[c].epoch
        /\ group[c] = None => keys[c] = {}
    BY Zenon, <2>3, CursorTypes DEF CursorInv, Reached, Reaches
  <2> HIDE DEF id
  <2>5. \/ commit_cursors' = commit_cursors
        \/ commit_cursors' = [commit_cursors EXCEPT ![c][id[1]] = CursorMax(commit_cursors[c][id[1]], id[2])]
    BY Zenon, <2>2 DEF ack_commit, AckInbox, ack_group_log_commit_compat
  <2>6. /\ \A o \in Clients \ {c} : Cursor(o)' = Cursor(o)
        /\ Cursor(c)' \in {Cursor(c), id[2]}
    <3>1. CASE commit_cursors' = commit_cursors
      BY Zenon, <3>1 DEF Cursor
    <3>2. CASE commit_cursors' = [commit_cursors EXCEPT ![c][id[1]] = CursorMax(commit_cursors[c][id[1]], id[2])]
      <4>1. /\ \A o \in Clients \ {c} : commit_cursors'[o] = commit_cursors[o]
            /\ commit_cursors'[c] = [commit_cursors[c] EXCEPT ![id[1]] = CursorMax(commit_cursors[c][id[1]], id[2])]
        BY Zenon, <3>2 DEF DsTypeOK
      <4>2. commit_cursors[c] \in [Groups -> Nat]
        BY Zenon DEF DsTypeOK
      <4>3. commit_cursors'[c][G] \in {commit_cursors[c][G], CursorMax(commit_cursors[c][G], id[2])}
        BY Zenon, <4>1, <4>2, GroupOfRun
      <4> QED
        BY Zenon, <4>1, <4>3 DEF Cursor, CursorMax
    <3> QED
      BY Zenon, <2>5, <3>1, <3>2
  <2>7. ASSUME NEW a \in accepted, Unused(c, a)
        PROVE  id[2] <= a.epoch
    <3>1. keys[c] # {}
      BY Zenon, <2>7 DEF Unused
    <3>2. group[c] # None /\ id[2] <= group[c].epoch /\ group[c].epoch < a.epoch
      BY Zenon, <2>4, <2>7, <3>1 DEF CursorInv, Due
    <3>3. a.epoch \in Nat /\ group[c].epoch \in Nat
      BY Zenon, <3>2, ChainFacts
    <3> QED
      BY <2>4, <3>2, <3>3
  <2>8. Due'
    BY Zenon, <2>1, <2>2, <2>6, <2>7 DEF CursorInv, Due, Unused
  <2>9. Behind'
    BY Zenon, <2>1, <2>4, <2>6 DEF CursorInv, Behind
  <2>10. Epoch' \in Nat /\ Epoch <= Epoch'
    BY <2>1, CursorTypes
  <2>11. Reached'
    BY Zenon, <2>1, <2>2, <2>10, ReachedFrame DEF CursorInv, Rests
  <2> QED
    BY Zenon, <2>8, <2>9, <2>11 DEF CursorInv

\* The epoch of an accepted commit is beyond every cursor and every client.
<1>AcceptCursor.
    ASSUME IInv, CursorInv, Forgotten', AllOld', KeyInv', Held', NEW c \in Clients, SubmitAccepted(c),
           \A o \in Clients : delivery'[o] \in {None, delivery[o]}
    PROVE  CursorInv'
  <2> USE <1>AcceptCursor
  <2> DEFINE rec == [group_id |-> G, epoch |-> next_epoch(group[c].epoch), sender |-> c,
                     commit_bytes |-> pending[c], recipients |-> groups[G].members]
  <2>1. Epoch = group[c].epoch /\ Epoch \in Nat /\ Epoch' = Epoch + 1
    BY Zenon, AcceptMovesOn
  <2>2. accepted' = accepted \cup {rec} /\ rec.epoch = Epoch + 1
    BY Zenon, <2>1 DEF SubmitAccepted, AcceptCommit, next_epoch
  <2>3. UNCHANGED <<group, keys, commit_cursors>>
    BY Zenon DEF SubmitAccepted, AcceptCommit, clientVars
  <2> HIDE DEF rec
  <2>4. Epoch' \in Nat /\ Epoch <= Epoch'
    BY <2>1
  <2>5. ASSUME NEW o \in Clients
        PROVE  /\ Cursor(o)' = Cursor(o) /\ Cursor(o) <= Epoch'
               /\ Cursor(o) <= rec.epoch
               /\ group[o] # None => group[o].epoch < rec.epoch
    <3>1. Cursor(o)' = Cursor(o)
      BY Zenon, <2>3 DEF Cursor
    <3>2. Cursor(o) <= Epoch
      BY Zenon DEF CursorInv, Behind
    <3>3. Cursor(o) \in Nat /\ (group[o] # None => group[o].epoch \in 0..Epoch)
      BY Zenon, CursorTypes
    <3> QED
      BY <2>1, <2>2, <3>1, <3>2, <3>3
  <2>6. Due'
    BY Zenon, <2>2, <2>3, <2>5 DEF CursorInv, Due, Unused
  <2>7. Behind'
    BY Zenon, <2>3, <2>5 DEF CursorInv, Behind
  <2>8. Reached'
    BY Zenon, <2>3, <2>4, ReachedFrame DEF CursorInv, Rests
  <2> QED
    BY Zenon, <2>6, <2>7, <2>8 DEF CursorInv

\* A client that applies a commit has reached it.
<1>ApplyCursor.
    ASSUME IInv, CursorInv, Forgotten', AllOld', KeyInv', NEW c \in Clients, group[c] # None,
           NEW d \in Delivery, Carries(d), d.id # None => d.id[2] = d.epoch,
           ApplyOwn(c, d) \/ ApplyExternal(c, d), UNCHANGED <<accepted, commit_cursors, groups>>
    PROVE  CursorInv'
  <2> USE <1>ApplyCursor
  <2> USE DEF IInv
  <2>1. PICK a \in accepted : a.commit_bytes = d.commit_bytes /\ a.epoch = d.epoch
    BY Zenon DEF Carries
  <2>2. /\ \A o \in Clients \ {c} : Rests(o)
        /\ \/ pending[c] = None /\ IsOwnPending(c, d.commit_bytes)
           \/ group'[c] = None /\ keys'[c] = {}
           \/ Advances(c) /\ group'[c].epoch = d.epoch
    BY Zenon, ApplyMoves
  <2>3. ~(pending[c] = None /\ IsOwnPending(c, d.commit_bytes))
    <3> SUFFICES ASSUME pending[c] = None, IsOwnPending(c, d.commit_bytes) PROVE FALSE
      OBVIOUS
    <3>1. pending_bytes[c] # None /\ a.commit_bytes = pending_bytes[c].commit
      BY Zenon, <2>1 DEF IsOwnPending
    <3> QED
      BY ZenonT(30), <3>1 DEF CursorInv, Forgotten
  <2>4. Epoch' = Epoch
    BY Zenon DEF Epoch
  <2>5. Due' /\ Behind'
    <3>1. \A o \in Clients : Rests(o) \/ Leaves(o) \/ Advances(o) \/ Enters(o)
      BY Zenon, <2>2, <2>3 DEF Leaves
    <3> QED
      BY Zenon, <2>4, <3>1, MovesDue DEF CursorInv
  <2>6. d # None /\ d.epoch <= Epoch /\ d.epoch \in Nat
    BY Zenon, <2>1, ChainFacts, NoneIsNoValue
  <2>7. \/ delivery' = [delivery EXCEPT ![c] = d] /\ \E l \in {"put_own", "welcome", "put_external"} : Goto(c, l)
        \/ /\ delivery' = [delivery EXCEPT ![c] = IF d.id = None THEN None ELSE d]
           /\ Goto(c, IF d.id = None THEN "idle" ELSE "ack")
    BY Zenon DEF ApplyOwn, ApplyExternal
  <2>8. Held'
    <3>1. CASE delivery' = [delivery EXCEPT ![c] = d] /\ \E l \in {"put_own", "welcome", "put_external"} : Goto(c, l)
      BY ZenonT(30), <3>1 DEF CursorInv, Held, Goto, WorkerTypes
    <3>2. CASE /\ delivery' = [delivery EXCEPT ![c] = IF d.id = None THEN None ELSE d]
               /\ Goto(c, IF d.id = None THEN "idle" ELSE "ack")
      <4>1. /\ \A o \in Clients \ {c} : pc'[o] = pc[o] /\ delivery'[o] = delivery[o]
            /\ pc'[c] = (IF d.id = None THEN "idle" ELSE "ack")
            /\ delivery'[c] = (IF d.id = None THEN None ELSE d)
        BY Zenon, <3>2 DEF Goto, WorkerTypes
      <4> QED
        BY <2>6, <4>1 DEF CursorInv, Held
    <3> QED
      BY Zenon, <2>7, <3>1, <3>2
  <2>9. (\A o \in Clients \ {c} : delivery'[o] = delivery[o]) /\ delivery'[c] \in {None, d}
    BY Zenon, <2>7 DEF WorkerTypes
  <2>10. Reaches(c)'
    <3>1. CASE group'[c] = None /\ keys'[c] = {}
      BY Zenon, <2>4, <2>6, <2>9, <3>1 DEF Reaches
    <3>2. CASE Advances(c) /\ group'[c].epoch = d.epoch
      <4>1. group'[c] # None
        BY Zenon, <3>2, ChainFacts DEF Advances
      <4>2. d.epoch <= group'[c].epoch
        <5>1. d.epoch <= d.epoch
          BY ONLY <2>6
        <5> QED
          BY Zenon, <3>2, <5>1
      <4> QED
        BY Zenon, <2>4, <2>6, <2>9, <4>1, <4>2 DEF Reaches
    <3> QED
      BY Zenon, <2>2, <2>3, <3>1, <3>2
  <2>11. Epoch' \in Nat /\ Epoch <= Epoch'
    BY <2>4, CursorTypes
  <2>12. Reached'
    BY Zenon, <2>2, <2>9, <2>10, <2>11, ReachedFrame DEF CursorInv
  <2> QED
    BY Zenon, <2>5, <2>8, <2>12 DEF CursorInv

\* The id of a delivery names its epoch.
<1>FetchedId.
    ASSUME NEW c, NEW d \in fetch_next_pending_commit(c)
    PROVE  d.id[2] = d.epoch
  <2> USE <1>FetchedId
  <2>1. \E rec : d = AsDelivery(rec, c)
    BY Zenon DEF fetch_next_pending_commit, peek_commit_inbox, fetch_group_log_commit_compat
  <2> QED
    BY <2>1 DEF AsDelivery, commit_delivery_id

\* ReceiveCommit and ProcessPending.
<1>ReceiveCursor.
    ASSUME IInv, CursorInv, Forgotten', AllOld', KeyInv', NEW c \in Clients, ReceiveCommit(c) \/ ProcessPending(c)
    PROVE  CursorInv'
  <2> USE <1>ReceiveCursor
  <2> USE DEF IInv
  <2>1. CASE ReceiveCommit(c)
    <3>1. PICK d \in fetch_next_pending_commit(c) :
            /\ HandOut(c, d)
            /\ \/ ApplyOwn(c, d) \/ ApplyExternal(c, d)
               \/ UNCHANGED <<group, keys, delivery, pc>>
               \/ /\ group[c].epoch >= d.epoch /\ UNCHANGED <<group, keys>>
                  /\ Goto(c, "ack") /\ delivery' = [delivery EXCEPT ![c] = d]
      BY Zenon, <2>1 DEF ReceiveCommit
    <3>2. UNCHANGED <<accepted, commit_cursors, groups>> /\ Epoch' = Epoch /\ group[c] # None
      BY Zenon, <2>1, <3>1 DEF ReceiveCommit, HandOut, Epoch
    <3>3. d \in CommitDelivery /\ Carries(d) /\ d.id[2] = d.epoch
      BY Zenon, Fetched, <1>FetchedId
    <3>4. d \in Delivery
      BY Zenon, <3>3, FetchedType
    <3>5. CASE UNCHANGED <<group, keys, delivery, pc>>
      BY Zenon, <3>2, <3>5, <1>RestingCursor DEF Rests, CursorInv, Held
    <3>6. CASE /\ group[c].epoch >= d.epoch /\ UNCHANGED <<group, keys>>
               /\ Goto(c, "ack") /\ delivery' = [delivery EXCEPT ![c] = d]
      <4>1. \A o \in Clients : Rests(o)
        BY Zenon, <3>6 DEF Rests
      <4>2. Due' /\ Behind'
        BY Zenon, <3>2, <4>1, MovesDue DEF CursorInv
      <4>3. /\ \A o \in Clients \ {c} : pc'[o] = pc[o] /\ delivery'[o] = delivery[o]
            /\ pc'[c] = "ack" /\ delivery'[c] = d
        BY Zenon, <3>6 DEF Goto, WorkerTypes
      <4>4. d # None /\ d.id # None
        <5>1. d.id \in Groups \X Nat \X Clients \X Clients
          BY Zenon, <3>3 DEF CommitDelivery
        <5> QED
          BY Zenon, <3>4, <5>1, NoneIsNoValue
      <4>5. Held'
        BY Zenon, <4>3, <4>4 DEF CursorInv, Held
      <4>6. d.epoch <= Epoch /\ d.epoch \in Nat
        BY Zenon, <3>3, ChainFacts DEF Carries
      <4>7. d.epoch <= group[c].epoch
        <5>1. group[c].epoch \in Nat
          BY Zenon, <3>2, ChainFacts
        <5> QED
          BY <3>6, <4>6, <5>1
      <4>8. Reaches(c)'
        BY ZenonT(30), <3>2, <3>3, <3>6, <4>3, <4>6, <4>7 DEF Reaches
      <4>9. Epoch' \in Nat /\ Epoch <= Epoch'
        BY <3>2, CursorTypes
      <4>10. Reached'
        BY Zenon, <4>1, <4>3, <4>8, <4>9, ReachedFrame DEF CursorInv
      <4> QED
        BY Zenon, <4>2, <4>5, <4>10 DEF CursorInv
    <3> QED
      BY Zenon, <3>1, <3>2, <3>3, <3>4, <3>5, <3>6, <1>ApplyCursor
  <2>2. CASE ProcessPending(c)
    <3>1. PICK rec \in fetch_pending_commits(c, group[c].epoch) :
            LET d == [AsDelivery(rec, c) EXCEPT !.id = None] IN ApplyOwn(c, d) \/ ApplyExternal(c, d)
      BY Zenon, <2>2 DEF ProcessPending
    <3>2. PICK d : d = [AsDelivery(rec, c) EXCEPT !.id = None]
      BY Zenon
    <3>3. ApplyOwn(c, d) \/ ApplyExternal(c, d)
      BY Zenon, <3>1, <3>2
    <3>4. UNCHANGED <<accepted, commit_cursors, groups>> /\ group[c] # None
      BY Zenon, <2>2 DEF ProcessPending, serviceVars
    <3>5. d \in Delivery /\ Carries(d)
      BY Zenon, <3>2, FetchedPending
    <3>6. d.id = None
      BY Zenon, <3>2 DEF AsDelivery
    <3> QED
      BY Zenon, <3>3, <3>4, <3>5, <3>6, <1>ApplyCursor
  <2> QED
    BY Zenon, <2>1, <2>2

\* The steps of a client and its worker that move no client and no cursor.
<1>StepRests.
    ASSUME IInv, NEW c \in Clients,
           \/ SelfUpdate(c) \/ \E ts \in SUBSET Clients : AddMembers(c, ts) \/ RemoveMembers(c, ts)
           \/ SubmitOk(c) \/ SubmitConflict(c) \/ SubmitLost(c) \/ GiveUp(c)
           \/ PutCreated(c) \/ PutOwn(c) \/ PutExternal(c) \/ PutLost(c) \/ \E r \in Clients : PostWelcome(c, r)
    PROVE  UNCHANGED <<accepted, commit_cursors, group, keys>> /\ Epoch' = Epoch
  <2> USE <1>StepRests
  <2> USE DEF IInv
  <2>1. CASE \E r \in Clients : PostWelcome(c, r)
    BY Zenon, <2>1 DEF PostWelcome, serviceVars, clientVars, Epoch
  <2>2. CASE ~\E r \in Clients : PostWelcome(c, r)
    <3>1. UNCHANGED <<accepted, group>> /\ Epoch' = Epoch
      BY Zenon, <2>2, QuietStep
    <3>2. keys' = keys
      BY Zenon, <2>2 DEF SelfUpdate, AddMembers, RemoveMembers, StartIntent, SubmitOk, SubmitConflict, SubmitLost,
             GiveUp, PutCreated, PutOwn, PutExternal, PutLost, clientVars
    <3>3. CASE PutCreated(c) \/ PutOwn(c) \/ PutExternal(c) \/ PutLost(c)
      <4>1. group[c] # None /\ UpdateDsGroupState(c)
        BY Zenon, <3>3 DEF PutCreated, PutOwn, PutExternal, PutLost, AtRequest
      <4> QED
        BY Zenon, <3>1, <3>2, <4>1, PutKeepsService
    <3>4. CASE ~(PutCreated(c) \/ PutOwn(c) \/ PutExternal(c) \/ PutLost(c))
      <4>1. commit_cursors' = commit_cursors
        BY Zenon, <2>2, <3>4 DEF SelfUpdate, AddMembers, RemoveMembers, SubmitOk, SubmitConflict, SubmitLost,
               GiveUp, serviceVars
      <4> QED
        BY Zenon, <3>1, <3>2, <4>1
    <3> QED
      BY Zenon, <3>3, <3>4
  <2> QED
    BY Zenon, <2>1, <2>2

<1>Step.
    ASSUME AddsAwaitJoin, IInv, CursorInv, [Next]_vars
    PROVE  CursorInv'
  <2> USE <1>Step
  <2>1. Forgotten' /\ AllOld' /\ KeyInv'
    BY Zenon, NextForgotten, NextOld, NextKeys DEF CursorInv
  <2>2. CASE UNCHANGED vars \/ ServiceStep
    <3>1. UNCHANGED <<accepted, commit_cursors, groups, clientVars, workerVars>>
      BY Zenon, <2>2 DEF vars, serviceVars, ServiceStep, PushToLog, FinishPublish, PushToRecipient
    <3>2. Epoch' = Epoch /\ Held' /\ \A o \in Clients : Rests(o) /\ delivery'[o] \in {None, delivery[o]}
      BY Zenon, <3>1 DEF Epoch, clientVars, workerVars, CursorInv, Held, Rests
    <3> QED
      BY Zenon, <2>1, <3>1, <3>2, <1>RestingCursor
  <2>3. ASSUME NEW c \in Clients, ReceiveCommit(c) \/ ProcessPending(c)
        PROVE  CursorInv'
    BY Zenon, <2>1, <2>3, <1>ReceiveCursor
  <2>4. ASSUME NEW c \in Clients, ClientCommand(c) \/ WorkerStep(c) \/ Fault(c)
        PROVE  CursorInv'
    <3>1. Held' /\ \A o \in Clients : delivery'[o] \in {None, delivery[o]}
      BY Zenon, <2>4, StepHeld DEF CursorInv
    <3>2. CASE CreateGroup(c)
      BY Zenon, <2>1, <3>1, <3>2, <1>CreateCursor
    <3>3. CASE GenerateKeyPackage(c)
      BY ZenonT(30), <2>1, <3>1, <3>3, <1>KeyPackageCursor
    <3>4. CASE JoinFromWelcome(c)
      BY Zenon, <2>1, <3>1, <3>4, <1>JoinCursor
    <3>5. CASE SubmitAccepted(c)
      BY Zenon, <2>1, <3>1, <3>5, <1>AcceptCursor
    <3>6. CASE AckDelivery(c)
      BY Zenon, <2>1, <3>1, <3>6, <1>AckCursor
    <3>7. ASSUME UNCHANGED <<accepted, commit_cursors, group, keys>>, Epoch' = Epoch
          PROVE  CursorInv'
      BY Zenon, <2>1, <3>1, <3>7, <1>RestingCursor DEF Rests
    <3> QED
      BY ZenonT(30), <2>4, <3>2, <3>3, <3>4, <3>5, <3>6, <3>7, <1>StepRests DEF ClientCommand, WorkerStep, Fault
  <2> QED
    BY Zenon, <2>2, <2>3, <2>4 DEF Next

<1> QED
  BY Zenon, <1>Step

\* When the runner lets every client that it adds join before it adds it again,
\* neither an ack nor a rejoin leaves the cursor past a commit that the client
\* has yet to apply, whatever answers are lost, commands given up and commits
\* received twice.
THEOREM CursorNotAheadHolds == Spec => []CursorNotAhead
<1> DEFINE Inv == AddsAwaitJoin => CursorInv
<1>1. Init => CursorInv
  <2> SUFFICES ASSUME Init PROVE CursorInv
    BY Zenon
  <2>1. /\ accepted = {} /\ groups = [g \in Groups |-> None]
        /\ commit_cursors = [c \in Clients |-> [g \in Groups |-> 0]]
    BY Zenon DEF Init, DsInit
  <2>2. \A c \in Clients : /\ key_packages[c] = None /\ queued_intent[c] = None /\ intent[c] = None
                           /\ pending[c] = None /\ pending_bytes[c] = None /\ delivery[c] = None
                           /\ group[c] = None /\ keys[c] = {} /\ pc[c] = "idle"
                           /\ made[c].key_packages = 0
    BY Zenon DEF Init
  <2>3. Epoch = 0 /\ \A c \in Clients : Cursor(c) = 0
    BY ZenonT(30), <2>1, GroupOfRun DEF Epoch, Cursor
  <2>4. KeyInv /\ Held /\ Behind
    <3>1. 0 <= 0 /\ "idle" # "ack"
      OBVIOUS
    <3> QED
      BY Zenon, <2>2, <2>3, <3>1 DEF KeyInv, OneInvitation, OwnPackages, IntentStaged, BytesOld, Held, Behind
  <2> QED
    BY Zenon, <2>1, <2>2, <2>4 DEF CursorInv, Forgotten, AllOld, Due, Reached, Reaches
<1>2. IInv /\ Inv /\ [Next]_vars => Inv'
  BY Zenon, NextCursor
<1>3. IInv /\ Inv => CursorNotAhead
  <2> SUFFICES ASSUME IInv, CursorInv, NEW c \in Clients, group[c] # None, NEW i \in EntriesFor(c, G),
                      group_commit_log[G][i].epoch > group[c].epoch
               PROVE  commit_cursors[c][G] < group_commit_log[G][i].epoch
    BY Zenon DEF CursorNotAhead
  <2>1. Cursor(c) <= group[c].epoch
    BY Zenon DEF CursorInv, Behind
  <2>2. Cursor(c) \in Nat /\ group[c].epoch \in Nat
    BY CursorTypes
  <2>3. group_commit_log[G][i].epoch \in Nat
    <3>1. group_commit_log[G] \in Seq(GroupLogCommit) /\ i \in 1..Len(group_commit_log[G])
      BY Zenon, GroupOfRun DEF EntriesFor, IInv, DsTypeOK
    <3>2. group_commit_log[G][i] \in GroupLogCommit
      BY <3>1
    <3> QED
      BY Zenon, <3>2 DEF GroupLogCommit
  <2> QED
    BY <2>1, <2>2, <2>3 DEF Cursor
<1>4. Init => Inv
  BY Zenon, <1>1
<1> HIDE DEF Inv
<1> QED
  BY <1>2, <1>3, <1>4, IInvHolds, PTL DEF Spec
=============================================================================
