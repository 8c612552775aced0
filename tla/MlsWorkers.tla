----------------------------- MODULE MlsWorkers -----------------------------
(***************************************************************************)
(* MLS clients and the workers that drive them, composed with the delivery *)
(* service.  One worker process serves each client as an actor: commands   *)
(* for one client run one after the other, commands for different clients  *)
(* interleave.  A command is cut at its HTTP requests; the local work      *)
(* between two requests touches only the client's own state and is done in *)
(* the same step as the request before it.                                 *)
(*                                                                         *)
(* A request is retried (http_retry.rs).  What can go wrong with it is     *)
(* bounded: MaxLost answers are lost after the service has executed the    *)
(* request, and MaxGiveUps times a worker runs out of attempts.            *)
(*                                                                         *)
(* The commands arrive in any order at any member, except that a client is *)
(* only asked to do what the runner asks of it: it adds clients that are   *)
(* not members and removes members other than itself.  Two more orders the *)
(* runner keeps can be switched on.  If JoinsAwaitAdder holds, a client    *)
(* joins only when no ReceiveCommit of an adder is still running: the      *)
(* runner sends JoinFromWelcome after the actor's ReceiveCommit.  If       *)
(* AddsAwaitJoin holds, a client that was added is added again only after  *)
(* it has used up the key package of the last time: the runner lets it     *)
(* join before it goes on (add_n_members, run_single_remove_rejoin_cycle). *)
(***************************************************************************)
EXTENDS Integers, Sequences

CONSTANTS Clients, Groups, Mode, MaxEpoch, None,
          MaxCommands,      \* bound: epoch-changing commands issued
          MaxKeyPackages,   \* bound: key packages a client generates
          MaxLost,          \* bound: answers lost after execution
          MaxGiveUps,       \* bound: requests given up after their last attempt
          JoinsAwaitAdder, AddsAwaitJoin

\* Every command, and every repetition a fault can cause, has an epoch to go to.
ASSUME EpochBound == MaxEpoch >= MaxCommands + MaxLost + MaxGiveUps

VARIABLES groups, commit_inboxes, arrivals, group_commit_log, commit_cursors,
          publishing, handed, accepted, acked

VARIABLES
    key_packages,     \* DS: client -> None or its published key package
    welcome_inboxes,  \* DS: client -> queue of welcomes
    group,            \* client -> None or its MLS group state
    pending,          \* client -> None or the commit staged in the MLS group
    pending_bytes,    \* client -> None or the own commit (and welcome) awaited
    keys,             \* client -> key packages it holds the private key of
    made,             \* client -> [commits, key_packages] created so far
    queued_intent,    \* client -> None or the intent queued for retry
    intent,           \* client -> None or the intent being submitted
    delivery,         \* client -> None or the commit delivery being applied
    welcoming,        \* client -> recipients its released welcome is still to reach
    pc,               \* client -> request the worker is at
    issued,           \* epoch-changing commands issued so far
    lost, gave_up,    \* faults so far
    unanswered        \* history: commits whose acceptance was answered in vain

serviceVars == <<groups, commit_inboxes, arrivals, group_commit_log, commit_cursors,
                 publishing, handed, accepted, acked>>
mailVars == <<key_packages, welcome_inboxes>>
clientVars == <<group, pending, pending_bytes, keys, made>>
workerVars == <<queued_intent, intent, delivery, welcoming, pc>>
faultVars == <<lost, gave_up, unanswered>>

StateId == (Clients \cup {None}) \X Nat
KeyPackage == Clients \X Nat
Intent == [adds : SUBSET KeyPackage, removes : SUBSET Clients]

\* A serialized commit: who made it, on which group state, and its proposals.
MlsCommit == [id : StateId, parent : StateId, epoch : Nat, roster : SUBSET Clients,
              adds : SUBSET KeyPackage, removes : SUBSET Clients]

MlsState == [epoch : Nat, sid : StateId, members : SUBSET Clients]
Welcome == [state : MlsState, adds : SUBSET KeyPackage]

\* An own commit that is awaited, a welcome being posted, and a commit being
\* applied, which process_pending takes without a delivery id.
PendingBytes == [commit : MlsCommit, welcome : Welcome \cup {None}]
Welcoming == [welcome : Welcome, to : SUBSET Clients]
Delivery == [id : (Groups \X Nat \X Clients \X Clients) \cup {None}, group_id : Groups,
             epoch : Nat, sender : Clients, commit_bytes : MlsCommit]

INSTANCE DeliveryService WITH Commits <- MlsCommit

ASSUME GroupsAssumption == Groups # {}
ASSUME NoneIsNoValue ==
    /\ None \notin GroupState /\ None \notin KeyPackage /\ None \notin Intent
    /\ None \notin MlsCommit /\ None \notin MlsState /\ None \notin Welcome
    /\ None \notin PendingBytes /\ None \notin Welcoming /\ None \notin Delivery
    /\ None \notin Groups \X Nat \X Clients \X Clients

vars == <<serviceVars, mailVars, clientVars, workerVars, faultVars, issued>>

\* The one group of a run.
G == CHOOSE g \in Groups : TRUE

Added(adds) == {kp[1] : kp \in adds}

----------------------------------------------------------------------------
(* The MLS group, as openmls implements it. *)

NewGroup(c) == [epoch |-> 0, sid |-> <<None, 0>>, members |-> {c}]

\* Commits are created on the current state, and not while one is pending.  A
\* member cannot be added: all key packages of a client have its signature key,
\* which must be new to the group (a client that applies its own removal gets
\* another one, and has no package of the time before left to join with).
CanCommit(c, it) ==
    /\ group[c] # None
    /\ pending[c] = None
    /\ Added(it.adds) \cap group[c].members = {}
    /\ it.removes \subseteq group[c].members \ {c}

NewCommit(c, it) ==
    [id |-> <<c, made[c].commits + 1>>, parent |-> group[c].sid,
     epoch |-> group[c].epoch, roster |-> group[c].members,
     adds |-> it.adds, removes |-> it.removes]

\* The state a commit leads to.
Merged(st, commit) ==
    [epoch |-> st.epoch + 1, sid |-> commit.id,
     members |-> (st.members \ commit.removes) \cup Added(commit.adds)]

\* A received commit is processed only by another member than its author, and
\* only in the very state it was made on.
CanProcess(c, commit) ==
    /\ group[c] # None
    /\ commit.parent = group[c].sid
    /\ commit.id[1] # c

----------------------------------------------------------------------------
Init ==
    /\ DsInit
    /\ key_packages = [c \in Clients |-> None]
    /\ welcome_inboxes = [c \in Clients |-> <<>>]
    /\ group = [c \in Clients |-> None]
    /\ pending = [c \in Clients |-> None]
    /\ pending_bytes = [c \in Clients |-> None]
    /\ keys = [c \in Clients |-> {}]
    /\ made = [c \in Clients |-> [commits |-> 0, key_packages |-> 0]]
    /\ queued_intent = [c \in Clients |-> None]
    /\ intent = [c \in Clients |-> None]
    /\ delivery = [c \in Clients |-> None]
    /\ welcoming = [c \in Clients |-> None]
    /\ pc = [c \in Clients |-> "idle"]
    /\ issued = 0
    /\ lost = 0
    /\ gave_up = 0
    /\ unanswered = {}

Goto(c, label) == pc' = [pc EXCEPT ![c] = label]

\* Mutant: the intent of the finished command is kept.
ReturnKeepsIntent(c) ==
    /\ Goto(c, "idle")
    /\ delivery' = [delivery EXCEPT ![c] = None]
    /\ welcoming' = [welcoming EXCEPT ![c] = None]
    /\ UNCHANGED intent

\* The command or loop iteration is over; a delivery not acked stays queued.
Return(c) ==
    /\ Goto(c, "idle")
    /\ intent' = [intent EXCEPT ![c] = None]
    /\ delivery' = [delivery EXCEPT ![c] = None]
    /\ welcoming' = [welcoming EXCEPT ![c] = None]

LoseAnswer == lost < MaxLost /\ lost' = lost + 1 /\ UNCHANGED <<gave_up, unanswered>>
Abandon == gave_up < MaxGiveUps /\ gave_up' = gave_up + 1 /\ UNCHANGED <<lost, unanswered>>

\* The runner issues one more epoch-changing command.
Issue == issued < MaxCommands /\ issued' = issued + 1

\* CreateGroup: the runner sends it once, to its first client.
CreateGroup(c) ==
    /\ pc[c] = "idle"
    /\ \A o \in Clients : group[o] = None /\ made[o].commits = 0
    /\ groups[G] = None
    /\ group' = [group EXCEPT ![c] = NewGroup(c)]
    /\ Goto(c, "put_created")
    /\ UNCHANGED <<serviceVars, mailVars, pending, pending_bytes, keys, made,
                   queued_intent, intent, delivery, welcoming, faultVars>>

\* GenerateKeyPackage: the private part stays with the client, the package
\* replaces the one published before.
GenerateKeyPackage(c) ==
    /\ pc[c] = "idle"
    /\ made[c].key_packages < MaxKeyPackages
    /\ LET kp == <<c, made[c].key_packages + 1>>
       IN  /\ keys' = [keys EXCEPT ![c] = @ \cup {kp}]
           /\ made' = [made EXCEPT ![c].key_packages = @ + 1]
           /\ \/ key_packages' = [key_packages EXCEPT ![c] = kp] /\ UNCHANGED faultVars
              \/ Abandon /\ UNCHANGED key_packages
    /\ UNCHANGED <<serviceVars, welcome_inboxes, group, pending, pending_bytes, workerVars>>

\* try_start_intent up to the POST: the commit is created and remembered as
\* pending, with the welcome that its acceptance will release.
StartIntent(c, it) ==
    LET commit == NewCommit(c, it)
    IN  /\ CanCommit(c, it)
        /\ made' = [made EXCEPT ![c].commits = @ + 1]
        /\ pending' = [pending EXCEPT ![c] = commit]
        /\ pending_bytes' = [pending_bytes EXCEPT ![c] =
             [commit |-> commit,
              welcome |-> IF it.adds = {} THEN None
                          ELSE [state |-> Merged(group[c], commit), adds |-> it.adds]]]
        /\ intent' = [intent EXCEPT ![c] = it]
        /\ Goto(c, "submit")
        /\ UNCHANGED <<group, keys>>

\* A commit under way or accepted adds a key package that the client still holds.
Invited(t) ==
    \E kp \in keys[t] :
      \/ \E a \in accepted : kp \in a.commit_bytes.adds
      \/ \E o \in Clients : \/ pending_bytes[o] # None /\ kp \in pending_bytes[o].commit.adds
                            \/ queued_intent[o] # None /\ kp \in queued_intent[o].adds

\* AddMembers: the GETs, all under way at once, take the key packages out of
\* the service.  When one finds no package, is given up, or loses its answer,
\* so that its retry finds none, the command fails and drops the others,
\* whichever of them were executed.
AddMembers(c, ts) ==
    /\ pc[c] = "idle"
    /\ group[c] # None
    /\ ts \cap group[c].members = {}
    /\ AddsAwaitJoin => \A t \in ts : ~Invited(t)
    /\ Issue
    /\ \E taken \in SUBSET {t \in ts : key_packages[t] # None} \ {{}} :
         /\ key_packages' = [t \in Clients |-> IF t \in taken THEN None ELSE key_packages[t]]
         /\ LET it == [adds |-> {key_packages[t] : t \in taken}, removes |-> {}]
            IN  \/ /\ taken = ts
                   /\ StartIntent(c, it)
                   /\ UNCHANGED <<queued_intent, delivery, welcoming, faultVars>>
                \/ /\ \/ taken = ts /\ ~CanCommit(c, it)
                      \/ \E t \in ts : key_packages[t] = None
                   /\ UNCHANGED <<clientVars, workerVars, faultVars>>
                \/ (LoseAnswer \/ Abandon) /\ UNCHANGED <<clientVars, workerVars>>
    /\ UNCHANGED <<serviceVars, welcome_inboxes>>

RemoveMembers(c, ts) ==
    /\ pc[c] = "idle"
    /\ ts # {}
    /\ Issue
    /\ StartIntent(c, [adds |-> {}, removes |-> ts])
    /\ UNCHANGED <<serviceVars, mailVars, queued_intent, delivery, welcoming, faultVars>>

SelfUpdate(c) ==
    /\ pc[c] = "idle"
    /\ Issue
    /\ StartIntent(c, [adds |-> {}, removes |-> {}])
    /\ UNCHANGED <<serviceVars, mailVars, queued_intent, delivery, welcoming, faultVars>>

----------------------------------------------------------------------------
(* Submitting a commit: publish_epoch_change and its two outcomes. *)

\* The service accepts; its handler now pushes the commit and then answers.
SubmitAccepted(c) ==
    /\ pc[c] = "submit"
    /\ AcceptCommit(G, c, group[c].epoch, pending[c])
    /\ Goto(c, "await")
    /\ UNCHANGED <<mailVars, clientVars, queued_intent, intent, delivery, welcoming, faultVars>>

\* Where a worker goes on after applying a commit: ack what it fetched, or
\* return when process_pending, which does not ack, was applying.
FinishApply(c) ==
    IF delivery[c].id = None THEN Return(c)
    ELSE /\ Goto(c, "ack")
         /\ intent' = [intent EXCEPT ![c] = None]
         /\ welcoming' = [welcoming EXCEPT ![c] = None]
         /\ UNCHANGED delivery

\* 200: a fresh command is done; a retried intent leaves the queue and the
\* commit being applied goes on to its ack.
SubmitOk(c) ==
    /\ pc[c] = "await"
    /\ \A p \in publishing : p.commit_bytes # pending[c]
    /\ IF delivery[c] = None
       THEN Return(c) /\ UNCHANGED queued_intent
       ELSE FinishApply(c) /\ queued_intent' = [queued_intent EXCEPT ![c] = None]
    /\ UNCHANGED <<serviceVars, mailVars, clientVars, faultVars>>

\* 409: the pending commit is rolled back and the intent (re)queued.
SubmitConflict(c) ==
    /\ pc[c] = "submit"
    /\ CommitConflict(G, group[c].epoch)
    /\ pending' = [pending EXCEPT ![c] = None]
    /\ pending_bytes' = [pending_bytes EXCEPT ![c] = None]
    /\ queued_intent' = [queued_intent EXCEPT ![c] = intent[c]]
    /\ IF delivery[c] = None THEN Return(c) ELSE FinishApply(c)
    /\ UNCHANGED <<serviceVars, mailVars, group, keys, made, faultVars>>

\* The 200 is lost: the same commit is posted again for the same epoch.
SubmitLost(c) ==
    /\ pc[c] = "await"
    /\ lost < MaxLost
    /\ lost' = lost + 1
    /\ unanswered' = unanswered \cup {pending[c]}
    /\ UNCHANGED gave_up
    /\ Goto(c, "submit")
    /\ UNCHANGED <<serviceVars, mailVars, clientVars, queued_intent, intent, delivery, welcoming>>

\* Mutant: a failed command also rolls its commit back.
GiveUpRollsBack(c) ==
    /\ pc[c] # "idle"
    /\ Abandon
    /\ Return(c)
    /\ pending' = [pending EXCEPT ![c] = None]
    /\ pending_bytes' = [pending_bytes EXCEPT ![c] = None]
    /\ UNCHANGED <<serviceVars, mailVars, group, keys, made, queued_intent>>

\* Any request given up after its last attempt fails the command with `?`.
\* Only an ack is best effort.  Whatever was done so far stays done.
GiveUp(c) ==
    /\ pc[c] # "idle"
    /\ Abandon
    /\ Return(c)
    /\ UNCHANGED <<serviceVars, mailVars, clientVars, queued_intent>>

----------------------------------------------------------------------------
(* Receiving a commit: Client::receive_commit and what follows it. *)

\* Mutant: any commit that arrives is taken for the own one.
IsOwnPendingAny(c, commit) == pending_bytes[c] # None

IsOwnPending(c, commit) == pending_bytes[c] # None /\ pending_bytes[c].commit = commit

\* The own commit comes back: the pending commit is merged (if openmls still
\* holds it) and its welcome is released to the added clients.
ApplyOwn(c, d) ==
    /\ IsOwnPending(c, d.commit_bytes)
    /\ group' = [group EXCEPT ![c] = IF pending[c] = None THEN @ ELSE Merged(@, pending[c])]
    /\ pending' = [pending EXCEPT ![c] = None]
    /\ pending_bytes' = [pending_bytes EXCEPT ![c] = None]
    /\ welcoming' = [welcoming EXCEPT ![c] =
         IF pending_bytes[c].welcome = None THEN None
         ELSE [welcome |-> pending_bytes[c].welcome, to |-> Added(d.commit_bytes.adds)]]
    /\ Goto(c, IF pending_bytes[c].welcome = None THEN "put_own" ELSE "welcome")
    /\ delivery' = [delivery EXCEPT ![c] = d]
    /\ UNCHANGED <<keys, queued_intent>>

\* Mutant: a client does not notice that it was removed.
ApplyExternalNoCleanup(c, d) ==
    /\ ~IsOwnPending(c, d.commit_bytes)
    /\ CanProcess(c, d.commit_bytes)
    /\ pending' = [pending EXCEPT ![c] = None]
    /\ group' = [group EXCEPT ![c] = Merged(@, d.commit_bytes)]
    /\ delivery' = [delivery EXCEPT ![c] = d]
    /\ Goto(c, "put_external")
    /\ UNCHANGED <<pending_bytes, keys, queued_intent, welcoming>>

\* A commit of another member: merging it drops a pending commit, but not the
\* remembered bytes.  A client that it removes starts over with nothing, and
\* only acks.
ApplyExternal(c, d) ==
    LET next == Merged(group[c], d.commit_bytes)
    IN  /\ ~IsOwnPending(c, d.commit_bytes)
        /\ CanProcess(c, d.commit_bytes)
        /\ pending' = [pending EXCEPT ![c] = None]
        /\ IF c \in next.members
           THEN /\ group' = [group EXCEPT ![c] = next]
                /\ delivery' = [delivery EXCEPT ![c] = d]
                /\ Goto(c, "put_external")
                /\ UNCHANGED <<pending_bytes, keys, queued_intent>>
           ELSE /\ group' = [group EXCEPT ![c] = None]
                /\ pending_bytes' = [pending_bytes EXCEPT ![c] = None]
                /\ keys' = [keys EXCEPT ![c] = {}]
                /\ queued_intent' = [queued_intent EXCEPT ![c] = None]
                /\ delivery' = [delivery EXCEPT ![c] = IF d.id = None THEN None ELSE d]
                /\ Goto(c, IF d.id = None THEN "idle" ELSE "ack")
        /\ UNCHANGED welcoming

\* ReceiveCommit: fetch, then skip to the ack when the epoch was already
\* reached, or apply.  A commit that does not fit fails the command, and is
\* not acked; nor is anything a client without a group fetches.  The loop up
\* to an expected epoch is this action again.
ReceiveCommit(c) ==
    /\ pc[c] = "idle"
    /\ group[c] # None
    /\ \E d \in fetch_next_pending_commit(c) :
         /\ HandOut(c, d)
         /\ IF group[c].epoch >= d.epoch
            THEN /\ Goto(c, "ack")
                 /\ delivery' = [delivery EXCEPT ![c] = d]
                 /\ UNCHANGED <<group, pending, pending_bytes, keys, queued_intent, welcoming>>
            ELSE \/ ApplyOwn(c, d)
                 \/ ApplyExternal(c, d)
                 \/ /\ ~IsOwnPending(c, d.commit_bytes) /\ ~CanProcess(c, d.commit_bytes)
                    /\ UNCHANGED <<group, pending, pending_bytes, keys, queued_intent,
                                   delivery, welcoming, pc>>
    /\ UNCHANGED <<mailVars, made, intent, faultVars>>

\* GET /commits/pending: the log entries for c beyond an epoch, by epoch.
fetch_pending_commits(c, after_epoch) ==
    {group_commit_log[G][i] : i \in EntriesBeyond(c, G, after_epoch)}

\* ProcessPending (commits): apply the log entries beyond the own epoch, one
\* after the other, without looking at or moving the cursor.
ProcessPending(c) ==
    /\ pc[c] = "idle"
    /\ group[c] # None
    /\ \E rec \in fetch_pending_commits(c, group[c].epoch) :
         /\ \A o \in fetch_pending_commits(c, group[c].epoch) : rec.epoch <= o.epoch
         /\ LET d == [AsDelivery(rec, c) EXCEPT !.id = None]
            IN  ApplyOwn(c, d) \/ ApplyExternal(c, d)
    /\ UNCHANGED <<serviceVars, mailVars, made, intent, faultVars>>

\* store_welcome, to all recipients at once and in any order.
PostWelcome(c, r) ==
    /\ pc[c] = "welcome"
    /\ r \in welcoming[c].to
    /\ welcome_inboxes' = [welcome_inboxes EXCEPT ![r] = Append(@, welcoming[c].welcome)]
    /\ \/ /\ welcoming' = [welcoming EXCEPT ![c].to = @ \ {r}]
          /\ Goto(c, IF welcoming[c].to = {r} THEN "put_own" ELSE "welcome")
          /\ UNCHANGED faultVars
       \/ LoseAnswer /\ UNCHANGED <<welcoming, pc>>
    /\ UNCHANGED <<serviceVars, key_packages, clientVars, queued_intent, intent, delivery>>

\* Mutant: only an unknown group is registered.
RegisterOnly(c) ==
    \/ groups[G] = None /\ put_group_state(G, group[c].epoch, group[c].members)
    \/ groups[G] # None /\ UNCHANGED serviceVars

\* update_ds_group_state: a 409 because the service is already ahead counts
\* as success.
UpdateDsGroupState(c) ==
    \/ put_group_state(G, group[c].epoch, group[c].members)
    \/ /\ groups[G] # None
       /\ groups[G].current_epoch > group[c].epoch
       /\ UNCHANGED serviceVars

\* The answer to the PUT is lost, and the PUT is repeated.
PutLost(c) ==
    /\ pc[c] \in {"put_created", "put_own", "put_external"}
    /\ UpdateDsGroupState(c)
    /\ LoseAnswer
    /\ UNCHANGED <<mailVars, clientVars, workerVars>>

PutCreated(c) ==
    /\ pc[c] = "put_created"
    /\ UpdateDsGroupState(c)
    /\ Return(c)
    /\ UNCHANGED <<mailVars, clientVars, queued_intent, faultVars>>

PutOwn(c) ==
    /\ pc[c] = "put_own"
    /\ UpdateDsGroupState(c)
    /\ FinishApply(c)
    /\ UNCHANGED <<mailVars, clientVars, queued_intent, faultVars>>

\* After a foreign commit the queued intent, if any, is tried again.  If it no
\* longer makes sense the whole command fails, with the delivery not acked.
PutExternal(c) ==
    /\ pc[c] = "put_external"
    /\ UpdateDsGroupState(c)
    /\ \/ /\ queued_intent[c] = None
          /\ FinishApply(c)
          /\ UNCHANGED clientVars
       \/ /\ queued_intent[c] # None
          /\ StartIntent(c, queued_intent[c])
          /\ UNCHANGED <<delivery, welcoming>>
       \/ /\ queued_intent[c] # None
          /\ ~CanCommit(c, queued_intent[c])
          /\ Return(c)
          /\ UNCHANGED clientVars
    /\ UNCHANGED <<mailVars, queued_intent, faultVars>>

AckDelivery(c) ==
    /\ pc[c] = "ack"
    /\ ack_commit(c, delivery[c].id)
    /\ \/ Return(c) /\ UNCHANGED faultVars
       \/ LoseAnswer /\ UNCHANGED <<intent, delivery, welcoming, pc>>
    /\ UNCHANGED <<mailVars, clientVars, queued_intent>>

\* JoinFromWelcome: the GET pops the welcome.  Whatever group the client was
\* in is dropped before the welcome is tried.
JoinFromWelcome(c) ==
    /\ pc[c] = "idle"
    /\ welcome_inboxes[c] # <<>>
    /\ JoinsAwaitAdder => \A o \in Clients : pc[o] \notin {"welcome", "put_own"}
    /\ welcome_inboxes' = [welcome_inboxes EXCEPT ![c] = Tail(@)]
    /\ LET w == Head(welcome_inboxes[c])
       IN  \/ /\ group' = [group EXCEPT ![c] = IF w.adds \cap keys[c] = {} THEN None ELSE w.state]
              /\ keys' = [keys EXCEPT ![c] = @ \ w.adds]
              /\ pending' = [pending EXCEPT ![c] = None]
              /\ pending_bytes' = [pending_bytes EXCEPT ![c] = None]
              /\ UNCHANGED faultVars
           \/ LoseAnswer /\ UNCHANGED <<group, keys, pending, pending_bytes>>
    /\ UNCHANGED <<serviceVars, key_packages, made, workerVars>>

----------------------------------------------------------------------------
ClientCommand(c) ==
    \/ CreateGroup(c) /\ UNCHANGED issued
    \/ GenerateKeyPackage(c) /\ UNCHANGED issued
    \/ \E ts \in SUBSET Clients : AddMembers(c, ts)
    \/ \E ts \in SUBSET Clients : RemoveMembers(c, ts)
    \/ SelfUpdate(c)
    \/ JoinFromWelcome(c) /\ UNCHANGED issued

WorkerStep(c) ==
    /\ \/ SubmitAccepted(c)
       \/ SubmitOk(c)
       \/ SubmitConflict(c)
       \/ \E r \in Clients : PostWelcome(c, r)
       \/ PutCreated(c)
       \/ PutOwn(c)
       \/ PutExternal(c)
       \/ AckDelivery(c)
    /\ UNCHANGED issued

Fault(c) == (SubmitLost(c) \/ PutLost(c) \/ GiveUp(c)) /\ UNCHANGED issued

\* The service's own steps, in handlers that run to their end.
ServiceStep ==
    /\ \E p \in publishing :
         PushToLog(p) \/ FinishPublish(p) \/ \E r \in Clients : PushToRecipient(p, r)
    /\ UNCHANGED <<mailVars, clientVars, workerVars, faultVars, issued>>

Next ==
    \/ \E c \in Clients :
         \/ ClientCommand(c)
         \/ ReceiveCommit(c) /\ UNCHANGED issued
         \/ ProcessPending(c) /\ UNCHANGED issued
         \/ WorkerStep(c)
         \/ Fault(c)
    \/ ServiceStep

Spec == Init /\ [][Next]_vars

----------------------------------------------------------------------------
(* Properties *)

Labels == {"idle", "submit", "await", "welcome", "put_created", "put_own",
           "put_external", "ack"}

TypeOK ==
    /\ DsTypeOK
    /\ key_packages \in [Clients -> KeyPackage \cup {None}]
    /\ welcome_inboxes \in [Clients -> Seq(Welcome)]
    /\ group \in [Clients -> MlsState \cup {None}]
    /\ pending \in [Clients -> MlsCommit \cup {None}]
    /\ pending_bytes \in [Clients -> PendingBytes \cup {None}]
    /\ keys \in [Clients -> SUBSET KeyPackage]
    /\ made \in [Clients -> [commits : Nat, key_packages : Nat]]
    /\ queued_intent \in [Clients -> Intent \cup {None}]
    /\ intent \in [Clients -> Intent \cup {None}]
    /\ delivery \in [Clients -> Delivery \cup {None}]
    /\ welcoming \in [Clients -> Welcoming \cup {None}]
    /\ pc \in [Clients -> Labels]
    /\ \A c \in Clients :
         /\ (pc[c] \in {"submit", "await"}) <=> (intent[c] # None)
         /\ pc[c] \in {"submit", "await"} =>
              pending[c] # None /\ pending_bytes[c].commit = pending[c]
         /\ pc[c] \in {"put_own", "put_external", "ack"} => delivery[c] # None

\* The state an accepted commit leads to, as its author saw it.
Outcome(a) ==
    [epoch |-> a.epoch, sid |-> a.commit_bytes.id,
     members |-> (a.commit_bytes.roster \ a.commit_bytes.removes) \cup Added(a.commit_bytes.adds)]

AcceptedAt(e) == CHOOSE a \in accepted : a.epoch = e

\* The epoch of the group at the service.
Epoch == IF groups[G] = None THEN 0 ELSE groups[G].current_epoch

History == INSTANCE GroupHistory WITH
    history <- [e \in 1..Epoch |-> Outcome(AcceptedAt(e))],
    view <- group

\* Workers and service together implement the abstract group: whatever races
\* for an epoch, answers that are lost, commands that fail half-way, late
\* joins and leftover welcomes there are, the states of all clients lie on
\* the one history of accepted commits, a commit is only accepted on its last
\* state, and no client skips or repeats a state of it.
ImplementsHistory == History!HistorySpec

\* The delivery service learns the member list only from the PUT that a
\* worker sends after applying a commit, and uses it as the recipients of the
\* next.  The list is never stale when it is used: a commit goes to exactly
\* the members of the state it was made on.
RecipientsAreMembers ==
    \A a \in accepted : a.recipients = a.commit_bytes.roster

\* A committer whose commit was accepted can still merge it when the commit
\* comes back: up to then it is remembered, by the worker and by the group.
\* The one exception is a commit whose 200 was lost: it is posted again,
\* answered 409, and rolled back although it was accepted.
CommitterKeepsPending ==
    \A a \in accepted :
      LET c == a.sender IN
      (group[c] # None /\ group[c].sid = a.commit_bytes.parent /\ a.commit_bytes \notin unanswered) =>
         /\ pending[c] = a.commit_bytes
         /\ IsOwnPending(c, a.commit_bytes)

\* The service appends to the log after it has released the lock under which
\* it decided the epoch; still the log is in epoch order, because the next
\* commit is made by a client that got the one before from the log.
LogInEpochOrder ==
    \A i \in 1..Len(group_commit_log[G]) : group_commit_log[G][i].epoch = i

\* When the runner lets every client it adds join before it adds it again, no
\* ack, repeated ack or rejoin leaves the cursor past a commit that the client
\* has yet to apply, which would then never be handed out again.
CursorNotAhead ==
    AddsAwaitJoin =>
    \A c \in Clients : group[c] # None =>
      \A i \in EntriesFor(c, G) :
        group_commit_log[G][i].epoch > group[c].epoch =>
          commit_cursors[c][G] < group_commit_log[G][i].epoch

\* What the service holds for a client and has not seen acked.
Waiting(c) ==
    IF Mode = "per_recipient" THEN {AsDelivery(d, c) : d \in commit_inboxes[c]}
    ELSE {AsDelivery(group_commit_log[G][i], c) : i \in EntriesBeyond(c, G, commit_cursors[c][G])}

CanApply(c, commit) ==
    \/ pending[c] = commit /\ IsOwnPending(c, commit)
    \/ CanProcess(c, commit)

\* Nobody is left behind for good: as long as no request is given up and the
\* runner keeps its order of adds and joins, a client in any state of the
\* group that a commit was accepted on and pushed for can go on to the next
\* state: the service still holds that commit for it, and it can apply it.
\* Again the exception is the author of a commit whose 200 was lost.
CanCatchUp ==
    (gave_up = 0 /\ JoinsAwaitAdder /\ AddsAwaitJoin) =>
    \A a \in accepted, c \in Clients :
      (/\ group[c] # None
       /\ group[c].sid = a.commit_bytes.parent
       /\ ~\E p \in publishing : p.commit_bytes = a.commit_bytes
       /\ ~(a.sender = c /\ a.commit_bytes \in unanswered)) =>
         /\ \E d \in Waiting(c) : d.commit_bytes = a.commit_bytes
         /\ CanApply(c, a.commit_bytes)
=============================================================================
