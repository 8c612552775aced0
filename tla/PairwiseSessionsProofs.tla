----------------------- MODULE PairwiseSessionsProofs -----------------------
(***************************************************************************)
(* A one-time prekey sets up one session at most, and the last resort is   *)
(* never overwritten, for every number of participants, every setting and  *)
(* every width of the identifiers.  Nothing is assumed of the repository   *)
(* and of the relay: whatever bundle a message names, and however often it *)
(* arrives, its receiver decides by its own stores.                        *)
(*                                                                         *)
(* The key repository always has a bundle to offer, whose owner can honour *)
(* it.  This rests on what the repository does to a queue, of any length,  *)
(* and on the identifiers of all that is offered being below the counter.  *)
(*                                                                         *)
(* The stock never runs out while every request is answered, and what the  *)
(* two sides of a session have on record fits together.  For that the      *)
(* steps are put in kinds by what they change; the invariant relates the   *)
(* records of both sides, the base keys they have seen, the messages in    *)
(* flight and the operation under way.                                     *)
(***************************************************************************)
EXTENDS PairwiseSessions, MessageRelayProofs

\* The command is a record of these fields, and names participants.
CmdOK ==
    /\ cmd = [pc |-> cmd.pc, actor |-> cmd.actor, peer |-> cmd.peer, decrypt |-> cmd.decrypt,
              batch |-> cmd.batch, message |-> cmd.message, tried |-> cmd.tried]
    /\ cmd.pc # "idle" => cmd.actor \in Participants /\ cmd.peer \in Participants

\* The identifiers given out are below the counter, and it never passes that of
\* the last resort.
StoresOK ==
    /\ next_one_time_prekey_id \in [Participants -> Ids]
    /\ pre_keys \in [Participants -> SUBSET Ids]
    /\ kyber_pre_keys \in [Participants -> SUBSET Bundle]
    /\ own_prekeys \in [Participants -> BOOLEAN]
    /\ \A p \in Participants : \A i \in pre_keys[p] : i < next_one_time_prekey_id[p]

\* The last resort of a participant that has stored its own prekeys.
LastResortStored ==
    \A p \in Participants : own_prekeys[p] => LastResort \in kyber_pre_keys[p]

\* A one-time prekey that has set up a session is not in the store, nor can it
\* be generated again.
UsedGone ==
    \A s \in accepted :
        /\ s.owner \in Participants
        /\ is_one_time(s.bundle) =>
              /\ s.bundle.id \in Ids
              /\ s.bundle.id < next_one_time_prekey_id[s.owner]
              /\ s.bundle.id \notin pre_keys[s.owner]

IInv == CmdOK /\ StoresOK /\ LastResortStored /\ UsedGone /\ OneTimeSetsUpOnce

\* What the invariant is about, without the command.
stores == <<prekeys, accepted>>
-----------------------------------------------------------------------------
\* Initially no prekey exists.
LEMMA InitIInv == Init => IInv
  <1> SUFFICES ASSUME Init PROVE IInv
    OBVIOUS
  <1>1. CmdOK
    BY Zenon DEF Init, CmdOK, Idle
  <1>2. StoresOK
    BY SettingsAssumption DEF Init, StoresOK, Ids
  <1>3. LastResortStored /\ UsedGone /\ OneTimeSetsUpOnce
    BY Zenon DEF Init, LastResortStored, UsedGone, OneTimeSetsUpOnce
  <1> QED
    BY Zenon, <1>1, <1>2, <1>3 DEF IInv

\* Every step of the runner or of a command keeps the invariant.
LEMMA NextIInv == IInv /\ [Next]_vars => IInv'
  \* A step to another point of the command keeps its fields.
  <1>GotoCmd.
      ASSUME CmdOK, NEW pc, cmd.pc # "idle", Goto(pc)
      PROVE  CmdOK'
    BY ZenonT(30), <1>GotoCmd DEF CmdOK, Goto

  \* Nothing of the stores changes.
  <1>QuietStores.
      ASSUME StoresOK, LastResortStored, UsedGone, OneTimeSetsUpOnce, UNCHANGED stores
      PROVE  (StoresOK /\ LastResortStored /\ UsedGone /\ OneTimeSetsUpOnce)'
    BY Zenon, <1>QuietStores DEF StoresOK, LastResortStored, UsedGone, OneTimeSetsUpOnce, stores, prekeys

  \* generate_publishable_prekey_bundles keeps the invariant, also when it runs
  \* out of identifiers.
  <1>GenerateInv.
      ASSUME IInv, NEW p \in Participants, NEW count \in Nat \ {0},
             cmd.pc # "idle", Generate(p, count), UNCHANGED accepted
      PROVE  IInv'
    <2> USE <1>GenerateInv
    <2> DEFINE first == next_one_time_prekey_id[p]
               n == IF count <= Available(p) THEN count ELSE Available(p)
               ids == first .. (first + n - 1)
    <2>0. LastResortId \in Nat \ {0}
      BY Zenon, SettingsAssumption
    <2>1. /\ first \in Ids /\ n \in Nat /\ first + n \in Ids
          /\ ids \subseteq Ids /\ LastResortId \notin ids
          /\ \A i \in ids : first <= i /\ i < first + n
      BY <2>0 DEF IInv, StoresOK, Ids, Available
    <2>2. /\ next_one_time_prekey_id' = [next_one_time_prekey_id EXCEPT ![p] = first + n]
          /\ pre_keys' = [pre_keys EXCEPT ![p] = @ \cup ids]
          /\ kyber_pre_keys' = [kyber_pre_keys EXCEPT ![p] =
                 {k \in @ : k.id \notin ids} \cup {OneTime(i) : i \in ids}]
          /\ cmd' = IF n = count
                    THEN [cmd EXCEPT !.pc = "put", !.tried = FALSE,
                             !.batch = [i \in 1..count |-> OneTime(first + i - 1)] \o <<LastResort>>]
                    ELSE [cmd EXCEPT !.pc = "exhausted"]
          /\ own_prekeys' = own_prekeys
      BY Zenon DEF Generate
    <2> HIDE DEF first, n, ids
    <2>3. CmdOK'
      BY ZenonT(30), <2>2 DEF IInv, CmdOK
    <2>4. StoresOK'
      <3>1. \A i \in ids : OneTime(i) \in Bundle
        BY Zenon, <2>1 DEF OneTime, Bundle
      <3>2. kyber_pre_keys' \in [Participants -> SUBSET Bundle]
        BY Zenon, <2>2, <3>1 DEF IInv, StoresOK
      <3>3. next_one_time_prekey_id' \in [Participants -> Ids]
        BY Zenon, <2>1, <2>2 DEF IInv, StoresOK
      <3>4. pre_keys' \in [Participants -> SUBSET Ids]
        BY Zenon, <2>1, <2>2 DEF IInv, StoresOK
      <3>5. \A q \in Participants : \A i \in pre_keys'[q] : i < next_one_time_prekey_id'[q]
        BY <2>0, <2>1, <2>2 DEF IInv, StoresOK, Ids, first
      <3> QED
        BY Zenon, <2>2, <3>2, <3>3, <3>4, <3>5 DEF IInv, StoresOK
    <2>5. LastResortStored'
      <3>1. LastResort.id \notin ids
        BY Zenon, <2>1 DEF LastResort
      <3> QED
        BY Zenon, <2>2, <3>1 DEF IInv, LastResortStored, StoresOK
    <2>6. UsedGone' /\ OneTimeSetsUpOnce'
      BY <2>0, <2>1, <2>2 DEF IInv, StoresOK, UsedGone, OneTimeSetsUpOnce, is_one_time, Ids, first
    <2> QED
      BY Zenon, <2>3, <2>4, <2>5, <2>6 DEF IInv

  \* store_own_prekeys saves the last resort beside the one-time prekeys.
  <1>StoreOwnInv.
      ASSUME IInv, NEW p \in Participants, cmd.pc # "idle",
             store_own_prekeys(p), Goto("initial"), UNCHANGED accepted
      PROVE  IInv'
    <2> USE <1>StoreOwnInv
    <2>1. CmdOK'
      BY Zenon, <1>GotoCmd DEF IInv
    <2>2. LastResort \in Bundle
      BY SettingsAssumption DEF LastResort, Bundle, Ids
    <2>3. StoresOK' /\ LastResortStored'
      BY Zenon, <2>2 DEF IInv, StoresOK, LastResortStored, store_own_prekeys
    <2>4. UsedGone' /\ OneTimeSetsUpOnce'
      BY Zenon DEF IInv, UsedGone, OneTimeSetsUpOnce, store_own_prekeys
    <2> QED
      BY Zenon, <2>1, <2>3, <2>4 DEF IInv

  \* message_decrypt takes the one-time prekey from the store with the session
  \* that it sets up.
  <1>DecryptInv.
      ASSUME IInv, NEW p \in Participants, NEW m, cmd.pc # "idle",
             Opens(p, m), message_decrypt(p, m), Goto("update")
      PROVE  IInv'
    <2> USE <1>DecryptInv
    <2> DEFINE known == m.base \in Bases(sessions[p][m.sender])
               new == [owner |-> p, bundle |-> m.bundle, base |-> m.base]
    <2>1. CmdOK'
      BY Zenon, <1>GotoCmd DEF IInv
    <2>2. /\ pre_keys' = [pre_keys EXCEPT ![p] =
                 IF ~known /\ is_one_time(m.bundle) THEN @ \ {m.bundle.id} ELSE @]
          /\ accepted' = accepted \cup (IF known THEN {} ELSE {new})
          /\ UNCHANGED <<next_one_time_prekey_id, kyber_pre_keys, own_prekeys>>
      BY Zenon DEF message_decrypt, UsedUp
    <2>3. ~known /\ is_one_time(m.bundle) => m.bundle.id \in pre_keys[p]
      BY Zenon DEF Opens, HasKeysFor
    <2>4. new.owner = p /\ new.bundle = m.bundle
      OBVIOUS
    <2> HIDE DEF known, new
    <2>5. \A q \in Participants : pre_keys'[q] \subseteq pre_keys[q]
      BY Zenon, <2>2 DEF IInv, StoresOK
    <2>6. StoresOK' /\ LastResortStored'
      BY Zenon, <2>2, <2>5 DEF IInv, StoresOK, LastResortStored
    <2>7. UsedGone' /\ OneTimeSetsUpOnce'
      <3>1. CASE known
        BY Zenon, <2>2, <3>1, <2>5 DEF IInv, StoresOK, UsedGone, OneTimeSetsUpOnce
      <3>2. CASE ~known
        <4>1. accepted' = accepted \cup {new}
          BY Zenon, <2>2, <3>2
        <4>2. is_one_time(m.bundle) => m.bundle.id \in pre_keys[p] /\ m.bundle.id \notin pre_keys'[p]
          BY Zenon, <2>2, <2>3, <3>2 DEF IInv, StoresOK
        <4>3. UsedGone'
          BY Zenon, <2>2, <2>4, <2>5, <4>1, <4>2 DEF IInv, StoresOK, UsedGone
        <4>4. \A s \in accepted : ~(s.owner = p /\ s.bundle = m.bundle /\ is_one_time(m.bundle))
          BY Zenon, <4>2 DEF IInv, UsedGone
        <4>5. OneTimeSetsUpOnce'
          BY Zenon, <2>4, <4>1, <4>4 DEF IInv, OneTimeSetsUpOnce
        <4> QED
          BY Zenon, <4>3, <4>5
      <3> QED
        BY Zenon, <3>1, <3>2
    <2> QED
      BY Zenon, <2>1, <2>6, <2>7 DEF IInv

  \* The runner's own steps start from the idle command or return to it.
  <1>RunnerInv.
      ASSUME IInv, NEW p \in Participants,
             \/ Enroll(p) \/ Deactivate(p) \/ Drop(p) \/ Finish
             \/ \E b \in Participants, fresh, decrypt \in BOOLEAN : StartPair(p, b, fresh, decrypt)
      PROVE  IInv'
    <2> USE <1>RunnerInv
    <2>1. UNCHANGED stores
      BY ZenonT(30) DEF Enroll, Deactivate, Drop, Finish, StartPair, stores, ratchets
    <2>2. CmdOK'
      <3>1. CASE Enroll(p)
        BY ZenonT(30), <3>1 DEF Enroll, CmdOK, Idle
      <3>2. CASE Deactivate(p)
        BY Zenon, <3>2 DEF Deactivate, CmdOK, IInv
      <3>3. CASE Drop(p) \/ Finish
        BY <3>3 DEF Drop, Finish, CmdOK, Idle
      <3>4. CASE \E b \in Participants, fresh, decrypt \in BOOLEAN : StartPair(p, b, fresh, decrypt)
        <4>1. PICK b \in Participants, fresh \in BOOLEAN, decrypt \in BOOLEAN :
                   StartPair(p, b, fresh, decrypt)
          BY Zenon, <3>4
        <4> DEFINE start == IF fresh THEN "reset_actor" ELSE "establish"
        <4>2. cmd' = [pc |-> start, actor |-> p, peer |-> b, decrypt |-> decrypt,
                      batch |-> <<>>, message |-> NoMessage, tried |-> FALSE]
          BY ZenonT(30), <4>1 DEF StartPair, Idle
        <4> HIDE DEF start
        <4> QED
          BY Zenon, <4>2 DEF CmdOK
      <3> QED
        BY Zenon, <3>1, <3>2, <3>3, <3>4
    <2> QED
      BY Zenon, <2>1, <2>2, <1>QuietStores DEF IInv

  \* The steps of a command that leave the stores alone.
  <1>CommandInv.
      ASSUME IInv, ResetSessions \/ EstablishSessions \/ EncryptMessage \/ Send \/ Lose \/ GiveUp
      PROVE  IInv'
    <2> USE <1>CommandInv
    <2>1. UNCHANGED stores
      BY Zenon DEF ResetSessions, EstablishSessions, EncryptMessage, Send, Lose, GiveUp, stores, ratchets
    <2>2. CmdOK'
      <3>1. CASE ResetSessions
        BY Zenon, <3>1, <1>GotoCmd DEF ResetSessions, IInv
      <3>2. CASE EstablishSessions
        BY Zenon, <3>2, <1>GotoCmd DEF EstablishSessions, IInv
      <3>3. CASE EncryptMessage
        <4>1. CASE Goto("done")
          BY Zenon, <3>3, <4>1, <1>GotoCmd DEF EncryptMessage, IInv
        <4>2. CASE ~Goto("done")
          <5>1. PICK m : cmd' = [cmd EXCEPT !.pc = "post", !.tried = FALSE, !.message = m]
            BY ZenonT(30), <3>3, <4>2 DEF EncryptMessage
          <5> QED
            BY ZenonT(30), <3>3, <5>1 DEF EncryptMessage, CmdOK, IInv
        <4> QED
          BY Zenon, <4>1, <4>2
      <3>4. CASE Send
        BY Zenon, <3>4, <1>GotoCmd DEF Send, Requesting, IInv
      <3>5. CASE Lose
        BY ZenonT(30), <3>5 DEF Lose, Requesting, CmdOK, IInv
      <3>6. CASE GiveUp
        BY Zenon, <3>6, <1>GotoCmd DEF GiveUp, Requesting, IInv
      <3> QED
        BY Zenon, <3>1, <3>2, <3>3, <3>4, <3>5, <3>6
    <2> QED
      BY Zenon, <2>1, <2>2, <1>QuietStores DEF IInv

  \* Every step of the runner or of a command keeps the invariant.
  <1>Step. IInv /\ [Next]_vars => IInv'
    <2> SUFFICES ASSUME IInv, [Next]_vars PROVE IInv'
      OBVIOUS
    <2>1. CASE \E p \in Participants : Enroll(p) \/ Deactivate(p) \/ Drop(p)
      BY Zenon, <2>1, <1>RunnerInv
    <2>2. CASE \E a, b \in Participants, fresh, decrypt \in BOOLEAN :
                   StartPair(a, b, fresh, decrypt)
      BY Zenon, <2>2, <1>RunnerInv
    <2>3. CASE Finish
      <3>1. cmd.actor \in Participants
        BY Zenon, <2>3 DEF IInv, CmdOK, Finish
      <3> QED
        BY Zenon, <2>3, <3>1, <1>RunnerInv
    <2>4. CASE PublishPrekeyBundle
      <3>1. cmd.pc # "idle" /\ cmd.actor \in Participants
        BY Zenon, <2>4 DEF IInv, CmdOK, PublishPrekeyBundle
      <3> QED
        BY Zenon, <2>4, <3>1, <1>StoreOwnInv DEF PublishPrekeyBundle, ratchets
    <2>5. CASE GeneratePrekeyBundle
      <3>1. cmd.pc # "idle" /\ cmd.actor \in Participants
        BY Zenon, <2>5 DEF IInv, CmdOK, GeneratePrekeyBundle
      <3> QED
        BY Zenon, <2>5, <3>1, <1>GenerateInv, SettingsAssumption DEF GeneratePrekeyBundle, ratchets
    <2>6. CASE UpdateOneTimePrekeys
      <3>1. cmd.pc # "idle" /\ cmd.peer \in Participants
        BY Zenon, <2>6 DEF IInv, CmdOK, UpdateOneTimePrekeys
      <3>2. CASE Goto("done") /\ UNCHANGED prekeys
        <4>1. UNCHANGED stores
          BY Zenon, <2>6, <3>2 DEF UpdateOneTimePrekeys, stores, ratchets
        <4> QED
          BY Zenon, <3>1, <3>2, <4>1, <1>GotoCmd, <1>QuietStores DEF IInv
      <3>3. CASE Generate(cmd.peer, RefillCount)
        BY Zenon, <2>6, <3>1, <3>3, <1>GenerateInv, SettingsAssumption DEF UpdateOneTimePrekeys, ratchets
      <3> QED
        BY Zenon, <2>6, <3>2, <3>3 DEF UpdateOneTimePrekeys
    <2>7. CASE ResetSessions \/ EstablishSessions \/ EncryptMessage \/ Send \/ Lose \/ GiveUp
      BY Zenon, <2>7, <1>CommandInv
    <2>8. CASE DecryptMessage
      <3>1. cmd.pc # "idle" /\ cmd.peer \in Participants
        BY Zenon, <2>8 DEF IInv, CmdOK, DecryptMessage
      <3> DEFINE m == Head(Pending).message
      <3>2. CASE Opens(cmd.peer, m) /\ message_decrypt(cmd.peer, m) /\ Goto("update")
        BY Zenon, <3>1, <3>2, <1>DecryptInv
      <3>3. CASE ~(Opens(cmd.peer, m) /\ message_decrypt(cmd.peer, m) /\ Goto("update"))
        <4>1. UNCHANGED <<prekeys, ratchets>>
          BY Zenon, <2>8, <3>3 DEF DecryptMessage
        <4>2. PICK x : cmd' = [cmd EXCEPT !.pc = "not_opened", !.message = x]
          BY ZenonT(30), <2>8, <3>3 DEF DecryptMessage
        <4>3. CmdOK'
          BY ZenonT(30), <3>1, <4>2 DEF CmdOK, IInv
        <4> QED
          BY Zenon, <4>1, <4>3, <1>QuietStores DEF IInv, stores, ratchets
      <3> QED
        BY Zenon, <3>2, <3>3
    <2>9. CASE \E r \in late : RunLate(r)
      <3>1. UNCHANGED <<cmd, stores>>
        BY Zenon, <2>9 DEF RunLate, stores, ratchets
      <3> QED
        BY Zenon, <3>1, <1>QuietStores DEF IInv, CmdOK
    <2>10. CASE UNCHANGED vars
      <3>1. UNCHANGED <<cmd, stores>>
        BY Zenon, <2>10 DEF vars, stores, ratchets
      <3> QED
        BY Zenon, <3>1, <1>QuietStores DEF IInv, CmdOK
    <2> QED
      BY Zenon, <2>1, <2>2, <2>3, <2>4, <2>5, <2>6, <2>7, <2>8, <2>9, <2>10 DEF Next

<1> QED
    BY Zenon, <1>Step

-----------------------------------------------------------------------------
\* The strengthening is an invariant of the pairwise sessions.
THEOREM IInvHolds == Spec => []IInv
  BY InitIInv, NextIInv, PTL DEF Spec

\* A one-time prekey sets up one session at most, whatever the repository offers
\* twice and whichever messages are repeated: message_decrypt removes it from the
\* store, and the counter of the identifiers never returns to it.
THEOREM OneTimeSetsUpOnceHolds == Spec => []OneTimeSetsUpOnce
  <1>1. IInv => OneTimeSetsUpOnce
    BY Zenon DEF IInv
  <1> QED
    BY <1>1, IInvHolds, PTL

\* No refill replaces the last resort: next_identifier fails before it gives out
\* LAST_RESORT_PQ_PREKEY_ID, so the key store_own_prekeys saved under it stays.
THEOREM LastResortStoredHolds == Spec => []LastResortStored
  <1>1. IInv => LastResortStored
    BY Zenon DEF IInv
  <1> QED
    BY <1>1, IInvHolds, PTL
-----------------------------------------------------------------------------
(* The queues of the key repository.                                       *)

\* One-time prekeys first, the fallback last; or nothing was published yet.
QueueShape(queue) ==
    queue # <<>> =>
        /\ queue[Len(queue)] = LastResort
        /\ \A i \in 1..(Len(queue) - 1) : is_one_time(queue[i])

\* Every bundle of a queue is a one-time prekey or the last resort.
Plain(queue) == \A i \in 1..Len(queue) : is_one_time(queue[i]) \/ queue[i] = LastResort

\* A queue of that shape, with bundles of the old queue and of the batch.
Published(new, queue, batch) ==
    /\ new \in Seq(Bundle) /\ new # <<>> /\ QueueShape(new)
    /\ \A i \in 1..Len(new) : \/ \E j \in 1..Len(queue) : new[i] = queue[j]
                              \/ \E j \in 1..Len(batch) : new[i] = batch[j]

\* A batch with the last resort leaves such a queue.
LEMMA PublishQueue ==
    ASSUME NEW queue \in Seq(Bundle), NEW batch \in Seq(Bundle), Plain(queue), Plain(batch),
           \E i \in 1..Len(batch) : batch[i] = LastResort,
           NEW new, new = publish_prekey_bundles(queue, batch)
    PROVE  Published(new, queue, batch)
  <1> DEFINE all == queue \o batch
             one_time == {i \in DOMAIN all : is_one_time(all[i])}
             first == Kept(all, one_time)
             rest == DOMAIN all \ one_time
             fallbacks == Kept(all, rest)
  <1>1. new = first \o (IF fallbacks = <<>> THEN <<>> ELSE <<fallbacks[Len(fallbacks)]>>)
    BY Zenon DEF publish_prekey_bundles
  <1>2. /\ all \in Seq(Bundle) /\ Len(all) = Len(queue) + Len(batch) /\ DOMAIN all = 1..Len(all)
        /\ \A i \in 1..Len(all) : \/ \E j \in 1..Len(queue) : all[i] = queue[j]
                                  \/ \E j \in 1..Len(batch) : all[i] = batch[j]
        /\ \A j \in 1..Len(batch) : all[Len(queue) + j] = batch[j]
    OBVIOUS
  <1> HIDE DEF all
  <1>3. ~is_one_time(LastResort)
    BY Zenon DEF is_one_time, LastResort
  <1>4. PICK l \in 1..Len(all) : all[l] = LastResort
    <2>1. PICK j \in 1..Len(batch) : batch[j] = LastResort
      BY Zenon
    <2>2. Len(queue) \in Nat /\ Len(batch) \in Nat
      OBVIOUS
    <2>3. Len(queue) + j \in 1..Len(all)
      BY <1>2, <2>2
    <2> QED
      BY Zenon, <1>2, <2>1, <2>3
  <1>5. \A i \in one_time : i \in DOMAIN all /\ is_one_time(all[i])
    OBVIOUS
  <1>6. \A i \in rest : i \in DOMAIN all /\ ~is_one_time(all[i])
    OBVIOUS
  <1>7. l \in rest
    BY Zenon, <1>2, <1>3, <1>4, <1>5
  <1> HIDE DEF one_time, rest
  <1>8. /\ first \in Seq(Bundle)
        /\ \A k \in 1..Len(first) : \E i \in 1..Len(all) : i \in one_time /\ first[k] = all[i]
    <2>1. Selects(first, all, one_time, Bundle)
      BY Zenon, <1>2, KeptElements
    <2> QED
      BY Zenon, <2>1 DEF Selects
  <1>9. /\ fallbacks \in Seq(Bundle)
        /\ \A k \in 1..Len(fallbacks) : \E i \in 1..Len(all) : i \in rest /\ fallbacks[k] = all[i]
        /\ \E k \in 1..Len(fallbacks) : fallbacks[k] = all[l]
    <2>1. Selects(fallbacks, all, rest, Bundle)
      BY Zenon, <1>2, KeptElements
    <2> QED
      BY Zenon, <1>7, <2>1 DEF Selects
  <1> HIDE DEF first, fallbacks
  <1>10. fallbacks # <<>> /\ fallbacks[Len(fallbacks)] = LastResort
    <2>1. Len(fallbacks) \in 1..Len(fallbacks)
      BY <1>9
    <2>2. PICK i \in 1..Len(all) : i \in rest /\ fallbacks[Len(fallbacks)] = all[i]
      BY Zenon, <1>9, <2>1
    <2>3. all[i] = LastResort
      BY Zenon, <1>2, <1>6, <2>2 DEF Plain
    <2> QED
      BY <2>1, <2>2, <2>3
  <1>11. new = Append(first, LastResort)
    BY <1>1, <1>8, <1>10
  <1>12. LastResort \in Bundle
    BY SMTT(30), SettingsAssumption DEF LastResort, Bundle, Ids
  <1>13. /\ new \in Seq(Bundle) /\ Len(new) = Len(first) + 1 /\ new[Len(new)] = LastResort
         /\ \A i \in 1..Len(first) : new[i] = first[i]
    BY <1>8, <1>11, <1>12
  <1>14. QueueShape(new)
    BY <1>5, <1>8, <1>13 DEF QueueShape
  <1>15. \A i \in 1..Len(new) : \E j \in 1..Len(all) : new[i] = all[j]
    BY SMTT(30), <1>4, <1>8, <1>13
  <1>16. ASSUME NEW i \in 1..Len(new)
         PROVE  \/ \E j \in 1..Len(queue) : new[i] = queue[j]
                \/ \E j \in 1..Len(batch) : new[i] = batch[j]
    BY ZenonT(30), <1>2, <1>15, <1>16
  <1>17. new # <<>>
    BY <1>8, <1>13
  <1> QED
    BY Zenon, <1>13, <1>14, <1>16, <1>17 DEF Published

-----------------------------------------------------------------------------
(* The types of the other variables, and what is offered.                  *)

Envelope == [id : Nat, sender : Participants, message : Message]

RunnerTypes ==
    /\ mode \in [sweep : BOOLEAN, external : BOOLEAN]
    /\ active \subseteq Participants /\ dropped \subseteq Participants
    /\ enrolments \in Nat /\ pairs \in Nat

ServiceTypes ==
    /\ prekey_bundles \in [Participants -> Seq(Bundle)]
    /\ inboxes \in [Participants -> Seq(Envelope)]
    /\ next_message_id \in Nat /\ lost \in Nat /\ late \subseteq Request
    /\ \A r \in late : r.op = "post" => r.message \in Message

RatchetTypes ==
    /\ base_keys_seen \in [Participants -> SUBSET Nat]
    /\ sessions \in [Participants -> [Participants -> Seq(SessionState)]]
    /\ opened \in [Participants -> SUBSET Message]
    /\ started \subseteq Session /\ accepted \subseteq Session

\* The commands of a pair are for two active participants, those of an enrolment
\* for the one that is prepared.
CommandOK ==
    /\ cmd \in Command
    /\ cmd.pc = "post" => cmd.message \in Message
    /\ cmd.pc \in {"own", "initial"} => cmd.actor = cmd.peer
    /\ cmd.pc \in {"reset_actor", "reset_peer", "establish", "consume", "encrypt", "post",
                   "decrypt", "update"} => cmd.actor # cmd.peer
    /\ cmd.pc # "idle" /\ cmd.actor # cmd.peer => cmd.actor \in active /\ cmd.peer \in active
    /\ cmd.pc # "no_bundle"

\* Who is active has stored its own prekeys and has a bundle on offer; so has who
\* is about to be.
Prepared ==
    /\ \A p \in active : own_prekeys[p] /\ prekey_bundles[p] # <<>>
    /\ cmd.pc \in {"initial", "put"} => own_prekeys[cmd.peer]
    /\ cmd.pc = "done" => own_prekeys[cmd.peer] /\ prekey_bundles[cmd.peer] # <<>>

\* The private keys of a bundle are stored, or its one-time prekey is used up; no
\* identifier from the counter on belongs to a bundle.
Stored(p, b) ==
    /\ own_prekeys[p] /\ b \in kyber_pre_keys[p]
    /\ is_one_time(b) \/ b = LastResort
    /\ is_one_time(b) =>
         /\ b.id < next_one_time_prekey_id[p]
         /\ b.id \in pre_keys[p] \/ \E s \in accepted : s.owner = p /\ s.bundle = b

\* A batch of stored bundles with the last resort among them.
BatchOK(p, batch) ==
    /\ \A i \in 1..Len(batch) : Stored(p, batch[i])
    /\ \E i \in 1..Len(batch) : batch[i] = LastResort

Offered ==
    /\ \A p \in Participants :
         /\ QueueShape(prekey_bundles[p])
         /\ \A i \in 1..Len(prekey_bundles[p]) : Stored(p, prekey_bundles[p][i])
    /\ \A r \in late : IF r.op = "put" THEN BatchOK(r.at, r.batch) ELSE r.batch = <<>>
    /\ cmd.pc = "put" => BatchOK(cmd.peer, cmd.batch)

OfferInv == RunnerTypes /\ ServiceTypes /\ RatchetTypes /\ CommandOK /\ Prepared /\ Offered

\* No step takes a stored key away without a session to account for it.
KeysKept == \A p \in Participants : \A b \in Bundle : Stored(p, b) => Stored(p, b)'
-----------------------------------------------------------------------------
\* A step that leaves the stores alone.
LEMMA QuietKeys ==
    ASSUME UNCHANGED stores
    PROVE  KeysKept
  BY Zenon DEF KeysKept, Stored, stores, prekeys

\* New keys have identifiers from the counter on, which no stored bundle has.
LEMMA GenerateKeys ==
    ASSUME IInv, NEW p \in Participants, NEW count \in Nat \ {0},
           Generate(p, count), UNCHANGED accepted
    PROVE  KeysKept
  <1> DEFINE first == next_one_time_prekey_id[p]
             n == IF count <= Available(p) THEN count ELSE Available(p)
             ids == first .. (first + n - 1)
  <1>0. LastResortId \in Nat \ {0}
    BY Zenon, SettingsAssumption
  <1>1. /\ first \in Nat /\ n \in Nat /\ LastResort.id \notin ids
        /\ \A i \in ids : first <= i
    BY <1>0 DEF IInv, StoresOK, Ids, Available, LastResort
  <1>2. /\ next_one_time_prekey_id' = [next_one_time_prekey_id EXCEPT ![p] = first + n]
        /\ pre_keys' = [pre_keys EXCEPT ![p] = @ \cup ids]
        /\ kyber_pre_keys' = [kyber_pre_keys EXCEPT ![p] =
               {k \in @ : k.id \notin ids} \cup {OneTime(i) : i \in ids}]
        /\ own_prekeys' = own_prekeys
    BY Zenon DEF Generate
  <1> HIDE DEF n, ids
  <1>3. \A b \in Bundle : b.id < first => b.id \notin ids
    BY <1>0, <1>1 DEF Bundle, Ids
  <1>4. ASSUME NEW q \in Participants, NEW b \in Bundle, Stored(q, b)
        PROVE  Stored(q, b)'
    <2>1. CASE q # p
      BY Zenon, <1>2, <1>4, <2>1 DEF IInv, StoresOK, Stored
    <2>2. CASE q = p
      <3>1. b.id \notin ids
        BY Zenon, <1>1, <1>3, <1>4, <2>2 DEF Stored
      <3>2. own_prekeys'[q] /\ b \in kyber_pre_keys'[q]
        BY Zenon, <1>2, <1>4, <2>2, <3>1 DEF IInv, StoresOK, Stored
      <3>3. is_one_time(b) => b.id < next_one_time_prekey_id'[q]
        BY <1>0, <1>1, <1>2, <1>4, <2>2 DEF IInv, StoresOK, Stored, Bundle, Ids
      <3>4. pre_keys[q] \subseteq pre_keys'[q]
        BY Zenon, <1>2, <2>2 DEF IInv, StoresOK
      <3> QED
        BY Zenon, <1>4, <3>2, <3>3, <3>4 DEF Stored
    <2> QED
      BY Zenon, <2>1, <2>2
  <1> QED
    BY Zenon, <1>4 DEF KeysKept

\* store_own_prekeys replaces only what has the identifier of the last resort.
LEMMA StoreOwnKeys ==
    ASSUME IInv, NEW p \in Participants, store_own_prekeys(p), UNCHANGED accepted
    PROVE  KeysKept
  <1>1. LastResortId \in Nat /\ LastResort.id = LastResortId
    BY Zenon, SettingsAssumption DEF LastResort
  <1>2. ASSUME NEW q \in Participants, NEW b \in Bundle, Stored(q, b)
        PROVE  Stored(q, b)'
    <2>1. b.id # LastResortId \/ b = LastResort
      BY <1>1, <1>2 DEF IInv, StoresOK, Stored, Bundle, Ids
    <2>2. b \in kyber_pre_keys'[q] /\ own_prekeys'[q]
      BY Zenon, <1>2, <2>1 DEF IInv, StoresOK, Stored, store_own_prekeys
    <2> QED
      BY Zenon, <1>2, <2>2 DEF Stored, store_own_prekeys
  <1> QED
    BY Zenon, <1>2 DEF KeysKept

\* message_decrypt takes a one-time prekey away with the session it sets up.
LEMMA DecryptKeys ==
    ASSUME IInv, NEW p \in Participants, NEW m, Opens(p, m), message_decrypt(p, m),
           m.bundle \in Bundle \cup {NoBundle}
    PROVE  KeysKept
  <1> DEFINE known == m.base \in Bases(sessions[p][m.sender])
             new == [owner |-> p, bundle |-> m.bundle, base |-> m.base]
  <1>1. /\ pre_keys' = [pre_keys EXCEPT ![p] =
               IF ~known /\ is_one_time(m.bundle) THEN @ \ {m.bundle.id} ELSE @]
        /\ accepted' = accepted \cup (IF known THEN {} ELSE {new})
        /\ UNCHANGED <<next_one_time_prekey_id, kyber_pre_keys, own_prekeys>>
    BY Zenon DEF message_decrypt, UsedUp
  <1>2. ~known => m.bundle \in Bundle
    BY Zenon DEF Opens
  <1>3. new.owner = p /\ new.bundle = m.bundle
    OBVIOUS
  <1> HIDE DEF known, new
  <1>4. ASSUME NEW q \in Participants, NEW b \in Bundle, Stored(q, b)
        PROVE  Stored(q, b)'
    <2>1. CASE known
      <3>1. pre_keys' = pre_keys /\ accepted' = accepted
        BY Zenon, <1>1, <2>1 DEF IInv, StoresOK
      <3> QED
        BY Zenon, <1>1, <1>4, <3>1 DEF Stored
    <2>2. CASE ~known
      <3>1. accepted' = accepted \cup {new}
        BY Zenon, <1>1, <2>2
      <3>2. CASE q = p /\ is_one_time(b) /\ is_one_time(m.bundle) /\ b.id = m.bundle.id
        <4>1. b = m.bundle
          BY SMTT(30), <1>2, <2>2, <3>2 DEF Bundle, is_one_time
        <4> QED
          BY Zenon, <1>1, <1>3, <1>4, <3>1, <3>2, <4>1 DEF Stored
      <3>3. CASE ~(q = p /\ is_one_time(b) /\ is_one_time(m.bundle) /\ b.id = m.bundle.id)
        <4>1. is_one_time(b) /\ b.id \in pre_keys[q] => b.id \in pre_keys'[q]
          BY Zenon, <1>1, <3>3 DEF IInv, StoresOK
        <4> QED
          BY Zenon, <1>1, <1>4, <3>1, <4>1 DEF Stored
      <3> QED
        BY Zenon, <3>2, <3>3
    <2> QED
      BY Zenon, <2>1, <2>2
  <1> QED
    BY Zenon, <1>4 DEF KeysKept

-----------------------------------------------------------------------------
Points ==
    {"idle", "own", "initial", "put", "reset_actor", "reset_peer", "establish",
     "consume", "encrypt", "post", "decrypt", "update", "done"} \cup Ended

\* A step to another point of the command.
LEMMA GotoTypes ==
    ASSUME CmdOK, cmd \in Command, NEW pc \in Points, NEW t \in BOOLEAN,
           cmd' = [cmd EXCEPT !.pc = pc, !.tried = t]
    PROVE  /\ cmd' \in Command /\ cmd'.pc = pc
           /\ cmd'.actor = cmd.actor /\ cmd'.peer = cmd.peer /\ cmd'.decrypt = cmd.decrypt
           /\ cmd'.batch = cmd.batch /\ cmd'.message = cmd.message
  <1>1. cmd' = [pc |-> pc, actor |-> cmd.actor, peer |-> cmd.peer, decrypt |-> cmd.decrypt,
                batch |-> cmd.batch, message |-> cmd.message, tried |-> t]
    BY ZenonT(30) DEF CmdOK
  <1> QED
    BY Zenon, <1>1 DEF Command, Points

\* A request and its batch are in order.
RequestOK(r) ==
    /\ r \in Request
    /\ r.op = "post" => r.message \in Message
    /\ IF r.op = "put" THEN BatchOK(r.at, r.batch) ELSE r.batch = <<>>

\* A queue of stored bundles, in order.
QueueOK(p, queue) ==
    /\ queue \in Seq(Bundle) /\ QueueShape(queue)
    /\ \A i \in 1..Len(queue) : Stored(p, queue[i])

\* The request of the command under way.
LEMMA CurrentOK ==
    ASSUME IInv, OfferInv, Requesting
    PROVE  RequestOK(CurrentRequest) /\ CurrentRequest.op = cmd.pc /\ CurrentRequest.at = cmd.peer
  <1>1. /\ cmd.pc \in {"put", "consume", "post"} /\ cmd.peer \in Participants /\ lost \in Nat
        /\ cmd.batch \in Seq(Bundle) /\ <<>> \in Seq(Bundle)
        /\ cmd.pc = "post" => cmd.message \in Message
        /\ cmd.pc = "put" => BatchOK(cmd.peer, cmd.batch)
    BY SMTT(30) DEF IInv, CmdOK, OfferInv, CommandOK, Command, ServiceTypes, Requesting, Offered
  <1>2. CurrentRequest \in Request
    BY Zenon, <1>1 DEF CurrentRequest, Request
  <1> QED
    BY Zenon, <1>1, <1>2 DEF RequestOK, CurrentRequest

\* A participant encrypts only with a session.
InSession ==
    cmd.pc \in {"consume", "encrypt"} => sessions[cmd.actor][cmd.peer] # <<>>

\* A message that waits is well typed, also when only one sender is asked for.
LEMMA PendingTypes ==
    ASSUME ServiceTypes, cmd.peer \in Participants
    PROVE  Pending \in Seq(Envelope)
  <1>1. inboxes[cmd.peer] \in Seq(Envelope)
    BY Zenon DEF ServiceTypes
  <1>2. ASSUME NEW I PROVE Kept(inboxes[cmd.peer], I) \in Seq(Envelope)
    BY Zenon, <1>1, KeptElements DEF Selects
  <1> QED
    BY Zenon, <1>1, <1>2 DEF Pending, PendingFrom

\* Initially nothing is offered, and nobody is active.
LEMMA InitOffer ==
    ASSUME Init
    PROVE  OfferInv /\ InSession
  <1>1. Idle \in Command /\ Idle.pc = "idle"
    BY SMTT(30) DEF Idle, Command
  <1>2. RunnerTypes /\ Prepared /\ CommandOK /\ InSession
    BY Zenon, <1>1 DEF Init, RunnerTypes, Prepared, CommandOK, InSession
  <1>3. ServiceTypes
    <2>1. <<>> \in Seq(Bundle) /\ <<>> \in Seq(Envelope)
      BY SMTT(30)
    <2> QED
      BY Zenon, <2>1 DEF Init, ServiceTypes
  <1>4. RatchetTypes
    <2>1. <<>> \in Seq(SessionState)
      OBVIOUS
    <2> QED
      BY Zenon, <2>1 DEF Init, RatchetTypes
  <1>5. Offered
    BY SMTT(30), <1>1 DEF Init, Offered, QueueShape
  <1> QED
    BY Zenon, <1>2, <1>3, <1>4, <1>5 DEF OfferInv

\* No command comes to its consume or its message without a session.
LEMMA NextInSession ==
    ASSUME IInv, OfferInv, InSession, [Next]_vars
    PROVE  InSession'
  <1>1. CASE \/ \E p \in Participants : Enroll(p) \/ Deactivate(p) \/ Drop(p)
             \/ \E a, b \in Participants, fresh, decrypt \in BOOLEAN :
                   StartPair(a, b, fresh, decrypt)
             \/ Finish
    <2>1. cmd'.pc \in {"idle", "own", "reset_actor", "establish"}
      <3>1. CASE cmd' = Idle \/ (cmd' = cmd /\ cmd.pc = "idle")
        BY SMTT(30), <3>1 DEF Idle
      <3>2. ASSUME NEW p, cmd' = [Idle EXCEPT !.pc = "own", !.actor = p, !.peer = p]
            PROVE  cmd'.pc = "own"
        BY Zenon, <3>2 DEF Idle
      <3>3. ASSUME NEW a, NEW b, NEW d, NEW pc, pc \in {"reset_actor", "establish"},
                   cmd' = [Idle EXCEPT !.pc = pc, !.actor = a, !.peer = b, !.decrypt = d]
            PROVE  cmd'.pc \in {"reset_actor", "establish"}
        <4>1. cmd'.pc = pc
          BY Zenon, <3>3 DEF Idle
        <4> QED
          BY Zenon, <3>3, <4>1
      <3>4. CASE \E p \in Participants : Enroll(p)
        BY Zenon, <3>2, <3>4 DEF Enroll
      <3>5. CASE \E a, b \in Participants, fresh, decrypt \in BOOLEAN :
                   StartPair(a, b, fresh, decrypt)
        <4>1. PICK a \in Participants, b \in Participants, fresh \in BOOLEAN, decrypt \in BOOLEAN :
                   StartPair(a, b, fresh, decrypt)
          BY Zenon, <3>5
        <4> DEFINE start == IF fresh THEN "reset_actor" ELSE "establish"
        <4>2. start \in {"reset_actor", "establish"}
          OBVIOUS
        <4>3. cmd' = [Idle EXCEPT !.pc = start, !.actor = a, !.peer = b, !.decrypt = decrypt]
          BY Zenon, <4>1 DEF StartPair
        <4> HIDE DEF start
        <4>4. cmd'.pc \in {"reset_actor", "establish"}
          BY Zenon, <3>3, <4>2, <4>3
        <4> QED
          BY Zenon, <4>4
      <3>6. CASE \E p \in Participants : Deactivate(p) \/ Drop(p)
        BY Zenon, <3>1, <3>6 DEF Deactivate, Drop
      <3>7. CASE Finish
        BY Zenon, <3>1, <3>7 DEF Finish
      <3> QED
        BY Zenon, <1>1, <3>4, <3>5, <3>6, <3>7
    <2> QED
      BY Zenon, <2>1 DEF InSession
  <1>2. ASSUME NEW pc \in Points, Goto(pc)
        PROVE  cmd'.pc = pc /\ cmd'.actor = cmd.actor /\ cmd'.peer = cmd.peer
    BY Zenon, <1>2, GotoTypes DEF IInv, OfferInv, CommandOK, Goto
  <1>3. ASSUME NEW pc \in Points \ {"consume", "encrypt"}, Goto(pc)
        PROVE  InSession'
    BY Zenon, <1>2, <1>3 DEF InSession
  <1>4. ASSUME NEW p, NEW count, Generate(p, count)
        PROVE  InSession'
    <2>1. \/ cmd' = [cmd EXCEPT !.pc = "exhausted"]
          \/ \E batch : cmd' = [cmd EXCEPT !.pc = "put", !.tried = FALSE, !.batch = batch]
      BY Zenon, <1>4 DEF Generate
    <2>2. ASSUME NEW batch, cmd' = [cmd EXCEPT !.pc = "put", !.tried = FALSE, !.batch = batch]
          PROVE  cmd'.pc = "put"
      BY Zenon, <2>2 DEF IInv, CmdOK
    <2>3. ASSUME cmd' = [cmd EXCEPT !.pc = "exhausted"]
          PROVE  cmd'.pc = "exhausted"
      BY Zenon, <2>3 DEF IInv, CmdOK
    <2>4. cmd'.pc \in {"put", "exhausted"}
      BY Zenon, <2>1, <2>2, <2>3
    <2> QED
      BY Zenon, <2>4 DEF InSession
  <1>5. CASE PublishPrekeyBundle \/ GeneratePrekeyBundle \/ UpdateOneTimePrekeys
    <2>1. "initial" \in Points /\ "done" \in Points
      BY Zenon DEF Points
    <2> QED
      BY Zenon, <1>3, <1>4, <1>5, <2>1 DEF PublishPrekeyBundle, GeneratePrekeyBundle, UpdateOneTimePrekeys
  <1>6. CASE ResetSessions
    <2>1. "reset_peer" \in Points /\ "establish" \in Points
      BY Zenon DEF Points
    <2> QED
      BY Zenon, <1>3, <1>6, <2>1 DEF ResetSessions
  <1>7. CASE EstablishSessions
    <2>1. "encrypt" \in Points /\ "consume" \in Points /\ "no_bundle" \in Points
      BY Zenon DEF Points, Ended
    <2>2. CASE sessions[cmd.actor][cmd.peer] # <<>> /\ Goto("encrypt") /\ UNCHANGED sessions
      BY Zenon, <1>2, <2>1, <2>2 DEF InSession
    <2>3. CASE Goto("no_bundle")
      BY Zenon, <1>3, <2>1, <2>3
    <2>4. ASSUME NEW state, Goto("consume"), sessions' =
                   [sessions EXCEPT ![cmd.actor][cmd.peer] =
                       promote_state(sessions[cmd.actor][cmd.peer], state)],
                 sessions[cmd.actor][cmd.peer] = <<>>
          PROVE  InSession'
      <3>1. cmd.actor \in Participants /\ cmd.peer \in Participants
        BY Zenon, <1>7 DEF EstablishSessions, IInv, CmdOK
      <3> DEFINE new == promote_state(sessions[cmd.actor][cmd.peer], state)
      <3>2. new # <<>>
        BY <2>4 DEF promote_state
      <3>3. sessions' = [sessions EXCEPT ![cmd.actor] =
                            [sessions[cmd.actor] EXCEPT ![cmd.peer] = new]]
        BY Zenon, <2>4
      <3> HIDE DEF new
      <3>4. sessions'[cmd.actor][cmd.peer] = new
        BY Zenon, <3>1, <3>3 DEF OfferInv, RatchetTypes
      <3>5. cmd'.actor = cmd.actor /\ cmd'.peer = cmd.peer
        BY Zenon, <1>2, <2>1, <2>4
      <3> QED
        BY Zenon, <3>2, <3>4, <3>5 DEF InSession
    <2> QED
      BY Zenon, <1>7, <2>2, <2>3, <2>4 DEF EstablishSessions
  <1>8. CASE EncryptMessage \/ DecryptMessage
    <2>1. "done" \in Points /\ "update" \in Points
      BY Zenon DEF Points
    <2>2. ASSUME NEW m, cmd' = [cmd EXCEPT !.pc = "post", !.tried = FALSE, !.message = m]
          PROVE  cmd'.pc = "post"
      BY Zenon, <2>2 DEF IInv, CmdOK
    <2>3. ASSUME NEW m, cmd' = [cmd EXCEPT !.pc = "not_opened", !.message = m]
          PROVE  cmd'.pc = "not_opened"
      BY Zenon, <2>3 DEF IInv, CmdOK
    <2>4. \/ Goto("done") \/ Goto("update")
          \/ \E m : cmd' = [cmd EXCEPT !.pc = "post", !.tried = FALSE, !.message = m]
          \/ \E m : cmd' = [cmd EXCEPT !.pc = "not_opened", !.message = m]
      BY Zenon, <1>8 DEF EncryptMessage, DecryptMessage
    <2>5. \/ Goto("done") \/ Goto("update") \/ cmd'.pc = "post" \/ cmd'.pc = "not_opened"
      BY Zenon, <2>2, <2>3, <2>4
    <2> QED
      BY Zenon, <1>3, <2>1, <2>5 DEF InSession
  <1>9. CASE Send \/ GiveUp
    <2>1. PICK pc \in {"done", "encrypt", "decrypt", "given_up"} :
             Goto(pc) /\ (pc = "encrypt" => cmd.pc = "consume")
      BY Zenon, <1>9 DEF Send, GiveUp, Answered, Requesting
    <2>2. sessions' = sessions
      BY Zenon, <1>9 DEF Send, GiveUp, ratchets
    <2>3. pc \in Points
      BY Zenon DEF Points, Ended
    <2> QED
      BY Zenon, <1>2, <2>1, <2>2, <2>3 DEF InSession
  <1>10. CASE Lose
    <2>1. cmd' = [pc |-> cmd.pc, actor |-> cmd.actor, peer |-> cmd.peer, decrypt |-> cmd.decrypt,
                  batch |-> cmd.batch, message |-> cmd.message, tried |-> TRUE]
      BY ZenonT(30), <1>10 DEF Lose, IInv, CmdOK
    <2>2. sessions' = sessions
      BY Zenon, <1>10 DEF Lose, ratchets
    <2> QED
      BY Zenon, <2>1, <2>2 DEF InSession
  <1>11. CASE (\E r \in late : RunLate(r)) \/ UNCHANGED vars
    <2>1. UNCHANGED <<cmd, sessions>>
      BY Zenon, <1>11 DEF RunLate, vars, ratchets
    <2> QED
      BY Zenon, <2>1 DEF InSession
  <1> QED
    BY Zenon, <1>1, <1>5, <1>6, <1>7, <1>8, <1>9, <1>10, <1>11 DEF Next

\* Every step keeps what is offered in order.
LEMMA NextOffer == IInv /\ OfferInv /\ InSession /\ [Next]_vars => OfferInv'
  \* A consume leaves a queue of that shape, and never an empty one.
  <1>ConsumeQueue.
      ASSUME NEW queue \in Seq(Bundle), QueueShape(queue),
             NEW new, new = consume_one_time_prekey(queue)
      PROVE  /\ new \in Seq(Bundle) /\ QueueShape(new) /\ (queue # <<>> => new # <<>>)
             /\ \A i \in 1..Len(new) : \E j \in 1..Len(queue) : new[i] = queue[j]
    <2> USE <1>ConsumeQueue
    <2>1. CASE queue # <<>> /\ is_one_time(Head(queue))
      <3>1. new = Tail(queue) /\ queue[1] = Head(queue) /\ ~is_one_time(LastResort)
        BY <2>1 DEF consume_one_time_prekey, is_one_time, LastResort
      <3>2. Len(queue) > 1
        BY <2>1, <3>1 DEF QueueShape
      <3>3. /\ new \in Seq(Bundle) /\ Len(new) = Len(queue) - 1 /\ new # <<>>
            /\ \A i \in 1..Len(new) : new[i] = queue[i + 1]
        BY <3>1, <3>2
      <3> QED
        BY <2>1, <3>3 DEF QueueShape
    <2>2. CASE ~(queue # <<>> /\ is_one_time(Head(queue)))
      BY Zenon, <2>2 DEF consume_one_time_prekey
    <2> QED
      BY Zenon, <2>1, <2>2

  \* The batch that generate_publishable_prekey_bundles makes is of stored bundles.
  <1>GenerateBatch.
      ASSUME IInv, NEW p \in Participants, NEW count \in Nat \ {0}, own_prekeys[p],
             Generate(p, count), cmd'.pc # "exhausted", UNCHANGED accepted
      PROVE  \E batch \in Seq(Bundle) :
                /\ cmd' = [cmd EXCEPT !.pc = "put", !.tried = FALSE, !.batch = batch]
                /\ BatchOK(p, batch)'
    <2> USE <1>GenerateBatch
    <2> DEFINE first == next_one_time_prekey_id[p]
               n == IF count <= Available(p) THEN count ELSE Available(p)
               ids == first .. (first + n - 1)
               ones == [i \in 1..count |-> OneTime(first + i - 1)]
               batch == ones \o <<LastResort>>
    <2>0. LastResortId \in Nat \ {0} /\ LastResort \in Bundle
      BY SettingsAssumption DEF LastResort, Bundle, Ids
    <2>1. /\ next_one_time_prekey_id' = [next_one_time_prekey_id EXCEPT ![p] = first + n]
          /\ pre_keys' = [pre_keys EXCEPT ![p] = @ \cup ids]
          /\ kyber_pre_keys' = [kyber_pre_keys EXCEPT ![p] =
                 {k \in @ : k.id \notin ids} \cup {OneTime(i) : i \in ids}]
          /\ cmd' = IF n = count
                    THEN [cmd EXCEPT !.pc = "put", !.tried = FALSE, !.batch = batch]
                    ELSE [cmd EXCEPT !.pc = "exhausted"]
          /\ own_prekeys' = own_prekeys
      BY Zenon DEF Generate
    <2>2. /\ first \in Ids /\ n \in Nat /\ first + n \in Ids /\ LastResort.id \notin ids
      BY <2>0 DEF IInv, StoresOK, Ids, Available, LastResort
    <2> HIDE DEF n, batch
    <2>3. n = count
      <3> SUFFICES ASSUME n # count PROVE FALSE
        OBVIOUS
      <3>1. cmd' = [cmd EXCEPT !.pc = "exhausted"]
        BY Zenon, <2>1
      <3>2. cmd'.pc = "exhausted"
        BY ZenonT(30), <3>1 DEF IInv, CmdOK
      <3> QED
        BY Zenon, <3>2
    <2>4. \A i \in 1..count : first + i - 1 \in ids /\ first + i - 1 \in Ids
      BY SMTT(30), <2>0, <2>2, <2>3 DEF Ids
    <2>5. \A i \in ids : Stored(p, OneTime(i))'
      <3> SUFFICES ASSUME NEW i \in ids PROVE Stored(p, OneTime(i))'
        OBVIOUS
      <3>1. is_one_time(OneTime(i)) /\ OneTime(i).id = i
        BY Zenon DEF is_one_time, OneTime
      <3>2. i < first + n
        BY <2>2 DEF Ids
      <3>3. /\ OneTime(i) \in kyber_pre_keys'[p] /\ i \in pre_keys'[p] /\ own_prekeys'[p]
            /\ i < next_one_time_prekey_id'[p]
        BY Zenon, <2>1, <3>2 DEF IInv, StoresOK
      <3> QED
        BY Zenon, <3>1, <3>3 DEF Stored
    <2>6. Stored(p, LastResort)'
      <3>1. LastResort \in kyber_pre_keys'[p]
        BY Zenon, <2>1, <2>2 DEF IInv, StoresOK, LastResortStored
      <3> QED
        BY Zenon, <2>1, <3>1 DEF Stored, is_one_time, LastResort
    <2>7. \A i \in 1..count : OneTime(first + i - 1) \in Bundle
      BY Zenon, <2>4 DEF OneTime, Bundle
    <2>8. /\ batch \in Seq(Bundle) /\ Len(batch) = count + 1 /\ batch[count + 1] = LastResort
          /\ \A i \in 1..count : batch[i] = OneTime(first + i - 1)
      <3>1. ones \in Seq(Bundle) /\ Len(ones) = count
        BY <2>7
      <3> HIDE DEF ones
      <3>2. batch = Append(ones, LastResort)
        BY <3>1 DEF batch
      <3>3. \A i \in 1..count : ones[i] = OneTime(first + i - 1)
        BY Zenon DEF ones
      <3> QED
        BY <2>0, <3>1, <3>2, <3>3
    <2>9. PICK b \in Seq(Bundle), k \in Nat : b = batch /\ k = first
      BY <2>2, <2>8 DEF Ids
    <2>10. /\ Len(b) = count + 1 /\ b[count + 1] = LastResort
           /\ \A i \in 1..count : b[i] = OneTime(k + i - 1) /\ k + i - 1 \in ids
      BY Zenon, <2>4, <2>8, <2>9
    <2>11. \A i \in 1..Len(b) : Stored(p, b[i])'
      <3> SUFFICES ASSUME NEW i \in 1..Len(b) PROVE Stored(p, b[i])'
        OBVIOUS
      <3>1. CASE i \in 1..count
        <4>1. PICK j \in ids : b[i] = OneTime(j)
          BY Zenon, <2>10, <3>1
        <4> QED
          BY Zenon, <2>5, <4>1
      <3>2. CASE i = count + 1
        BY Zenon, <2>6, <2>10, <3>2
      <3> QED
        BY <2>10, <3>1, <3>2
    <2>12. BatchOK(p, b)'
      BY <2>10, <2>11 DEF BatchOK
    <2> QED
      BY Zenon, <2>1, <2>3, <2>9, <2>12

  \* What is offered stays in order when only the stores change, and the command.
  <1>OfferFrame.
      ASSUME ServiceTypes, Offered, KeysKept, UNCHANGED <<prekey_bundles, late>>,
             (cmd.pc = "put" => BatchOK(cmd.peer, cmd.batch))'
      PROVE  Offered'
    <2> USE <1>OfferFrame
    <2>1. ASSUME NEW p \in Participants, NEW batch \in Seq(Bundle), BatchOK(p, batch)
          PROVE  BatchOK(p, batch)'
      BY <2>1 DEF BatchOK, KeysKept
    <2>2. \A p \in Participants : \A i \in 1..Len(prekey_bundles[p]) :
              prekey_bundles[p][i] \in Bundle
      BY DEF ServiceTypes
    <2>3. \A p \in Participants :
            /\ QueueShape(prekey_bundles[p])
            /\ \A i \in 1..Len(prekey_bundles[p]) : Stored(p, prekey_bundles[p][i])
      BY Zenon DEF Offered
    <2>4. ASSUME NEW p \in Participants, NEW i \in 1..Len(prekey_bundles[p])
          PROVE  Stored(p, prekey_bundles[p][i])'
      <3>1. PICK b \in Bundle : b = prekey_bundles[p][i]
        BY Zenon, <2>2
      <3>2. Stored(p, b)'
        BY Zenon, <2>3, <3>1 DEF KeysKept
      <3> QED
        BY Zenon, <3>1, <3>2 DEF Stored
    <2>5. \A r \in late : r.at \in Participants /\ r.batch \in Seq(Bundle)
      BY Zenon DEF ServiceTypes, Request
    <2>6. \A r \in late : IF r.op = "put" THEN BatchOK(r.at, r.batch)' ELSE r.batch = <<>>
      BY Zenon, <2>1, <2>5 DEF Offered
    <2>7. \A p \in Participants :
            /\ QueueShape(prekey_bundles[p])'
            /\ \A i \in 1..Len(prekey_bundles'[p]) : Stored(p, prekey_bundles[p][i])'
      BY Zenon, <2>3, <2>4 DEF QueueShape
    <2>8. \A r \in late' : IF r.op = "put" THEN BatchOK(r.at, r.batch)' ELSE r.batch = <<>>
      BY Zenon, <2>6
    <2> QED
      BY Zenon, <2>7, <2>8 DEF Offered

  \* Nothing but the command and what the runner keeps changes.
  <1>RunnerFrame.
      ASSUME OfferInv, UNCHANGED <<services, prekeys, ratchets>>, RunnerTypes', CommandOK',
             Prepared', cmd'.pc # "put"
      PROVE  OfferInv'
    <2> USE <1>RunnerFrame
    <2>1. KeysKept
      BY Zenon, QuietKeys DEF stores, ratchets
    <2>2. Offered'
      BY Zenon, <2>1, <1>OfferFrame DEF OfferInv, services
    <2>3. ServiceTypes' /\ RatchetTypes'
      BY Zenon DEF OfferInv, ServiceTypes, RatchetTypes, services, ratchets
    <2> QED
      BY Zenon, <2>2, <2>3 DEF OfferInv

  \* An operation starts for a participant to be enrolled, or for a pair of active
  \* ones.
  <1>StartOffer.
      ASSUME OfferInv, NEW p \in Participants,
             \/ Enroll(p)
             \/ \E b \in Participants, fresh, decrypt \in BOOLEAN : StartPair(p, b, fresh, decrypt)
      PROVE  OfferInv'
    <2> USE <1>StartOffer
    <2> USE DEF OfferInv
    <2>1. NoMessage \in Message \cup {NoMessage} /\ <<>> \in Seq(Bundle)
      OBVIOUS
    <2>2. CASE Enroll(p)
      <3>1. cmd' = [pc |-> "own", actor |-> p, peer |-> p, decrypt |-> FALSE,
                    batch |-> <<>>, message |-> NoMessage, tried |-> FALSE]
        BY ZenonT(30), <2>2 DEF Enroll, Idle
      <3>2. UNCHANGED <<mode, active, dropped, pairs, services, prekeys, ratchets>>
            /\ enrolments' = enrolments + 1
        BY Zenon, <2>2 DEF Enroll
      <3>3. CommandOK'
        BY Zenon, <2>1, <3>1 DEF CommandOK, Command
      <3>4. RunnerTypes'
        BY SMTT(30), <3>2 DEF RunnerTypes
      <3>5. Prepared'
        BY Zenon, <3>1, <3>2 DEF Prepared, services, prekeys
      <3> QED
        BY Zenon, <3>1, <3>2, <3>3, <3>4, <3>5, <1>RunnerFrame
    <2>3. CASE \E b \in Participants, fresh, decrypt \in BOOLEAN : StartPair(p, b, fresh, decrypt)
      <3>0. PICK b \in Participants, fresh \in BOOLEAN, decrypt \in BOOLEAN :
                 StartPair(p, b, fresh, decrypt)
        BY Zenon, <2>3
      <3> DEFINE start == IF fresh THEN "reset_actor" ELSE "establish"
      <3>1. cmd' = [pc |-> start, actor |-> p, peer |-> b, decrypt |-> decrypt,
                    batch |-> <<>>, message |-> NoMessage, tried |-> FALSE]
        BY ZenonT(30), <3>0 DEF StartPair, Idle
      <3>2. /\ UNCHANGED <<mode, active, dropped, enrolments, services, prekeys, ratchets>>
            /\ pairs' = pairs + 1 /\ p # b /\ p \in active /\ b \in active
        BY Zenon, <3>0 DEF StartPair
      <3>3. start \in {"reset_actor", "establish"}
        BY Zenon
      <3> HIDE DEF start
      <3>4. CommandOK'
        BY Zenon, <2>1, <3>1, <3>2, <3>3 DEF CommandOK, Command
      <3>5. RunnerTypes'
        BY SMTT(30), <3>2 DEF RunnerTypes
      <3>6. Prepared'
        BY Zenon, <3>1, <3>2, <3>3 DEF Prepared, services, prekeys
      <3>7. cmd'.pc # "put"
        BY Zenon, <3>1, <3>3
      <3> QED
        BY Zenon, <3>2, <3>4, <3>5, <3>6, <3>7, <1>RunnerFrame
    <2> QED
      BY Zenon, <2>2, <2>3

  \* An operation ends, or a participant leaves.
  <1>EndOffer.
      ASSUME IInv, OfferInv, NEW p \in Participants, Deactivate(p) \/ Drop(p) \/ Finish
      PROVE  OfferInv'
    <2> USE <1>EndOffer
    <2> USE DEF OfferInv
    <2>1. UNCHANGED <<mode, enrolments, pairs, services, prekeys, ratchets>>
      BY Zenon DEF Deactivate, Drop, Finish
    <2>2. cmd'.pc = "idle" /\ cmd' \in Command
      <3>1. Idle.pc = "idle" /\ Idle \in Command
        BY DEF Idle, Command
      <3>2. CASE cmd' = cmd /\ cmd.pc = "idle"
        BY Zenon, <3>2 DEF CommandOK
      <3>3. CASE cmd' = Idle
        BY Zenon, <3>1, <3>3
      <3> QED
        BY Zenon, <3>2, <3>3 DEF Deactivate, Drop, Finish
    <2>3. CommandOK'
      BY Zenon, <2>2 DEF CommandOK
    <2>4. \A q \in active' : q \in active \/ (cmd.pc = "done" /\ q = cmd.actor)
      BY Zenon DEF Deactivate, Drop, Finish
    <2>5. cmd.pc = "done" => cmd.actor \in Participants /\ (cmd.actor = cmd.peer \/ cmd.actor \in active)
      BY Zenon DEF IInv, CmdOK, CommandOK
    <2>6. RunnerTypes'
      BY Zenon, <2>1, <2>4, <2>5 DEF RunnerTypes, Deactivate, Drop, Finish
    <2>7. Prepared'
      BY Zenon, <2>1, <2>2, <2>4, <2>5 DEF Prepared, services, prekeys
    <2> QED
      BY Zenon, <2>1, <2>2, <2>3, <2>6, <2>7, <1>RunnerFrame

  \* PublishPrekeyBundle prepares the participant to be enrolled.
  <1>PublishOffer.
      ASSUME IInv, OfferInv, PublishPrekeyBundle
      PROVE  OfferInv'
    <2> USE <1>PublishOffer
    <2> USE DEF OfferInv
    <2>1. /\ cmd.pc = "own" /\ cmd.actor = cmd.peer /\ cmd.actor \in Participants
          /\ store_own_prekeys(cmd.actor) /\ UNCHANGED <<runner, services, ratchets>>
          /\ cmd' = [cmd EXCEPT !.pc = "initial", !.tried = FALSE]
      BY Zenon DEF PublishPrekeyBundle, Goto, IInv, CmdOK, CommandOK
    <2>2. /\ cmd' \in Command /\ cmd'.pc = "initial" /\ cmd'.actor = cmd.actor /\ cmd'.peer = cmd.peer
      <3>1. "initial" \in Points
        BY Zenon DEF Points
      <3> QED
        BY Zenon, <2>1, <3>1, GotoTypes DEF IInv, CommandOK
    <2>3. CommandOK'
      BY Zenon, <2>1, <2>2 DEF CommandOK
    <2>4. own_prekeys' = [own_prekeys EXCEPT ![cmd.actor] = TRUE]
      BY Zenon, <2>1 DEF store_own_prekeys
    <2>5. Prepared'
      BY Zenon, <2>1, <2>2, <2>4 DEF Prepared, IInv, StoresOK, runner, services, RunnerTypes
    <2>6. KeysKept
      BY Zenon, <2>1, StoreOwnKeys DEF ratchets
    <2>7. Offered'
      BY Zenon, <2>1, <2>2, <2>6, <1>OfferFrame DEF services
    <2>8. RunnerTypes' /\ ServiceTypes' /\ RatchetTypes'
      BY Zenon, <2>1 DEF RunnerTypes, ServiceTypes, RatchetTypes, runner, services, ratchets
    <2> QED
      BY Zenon, <2>3, <2>5, <2>7, <2>8

  \* generate_publishable_prekey_bundles makes the batch to be sent, for who is
  \* being enrolled and for who has opened a first message.
  <1>GenerateOffer.
      ASSUME IInv, OfferInv, NEW count \in Nat \ {0}, cmd.pc \in {"initial", "update"},
             NEW p \in Participants, p = cmd.peer, Generate(p, count), UNCHANGED <<runner, services, ratchets>>
      PROVE  OfferInv'
    <2> USE <1>GenerateOffer
    <2> USE DEF OfferInv
    <2>1. /\ cmd.actor \in Participants /\ own_prekeys[p]
          /\ cmd.actor # cmd.peer => cmd.actor \in active /\ cmd.peer \in active
      BY Zenon DEF IInv, CmdOK, CommandOK, Prepared
    <2>2. UNCHANGED <<prekey_bundles, late, active, own_prekeys, accepted>>
      BY Zenon DEF Generate, runner, services, ratchets
    <2>3. KeysKept
      BY Zenon, <2>1, <2>2, GenerateKeys
    <2>4. RunnerTypes' /\ ServiceTypes' /\ RatchetTypes'
      BY Zenon DEF RunnerTypes, ServiceTypes, RatchetTypes, runner, services, ratchets
    <2>5. CASE cmd'.pc # "exhausted"
      <3>1. PICK batch \in Seq(Bundle) :
               /\ cmd' = [cmd EXCEPT !.pc = "put", !.tried = FALSE, !.batch = batch]
               /\ BatchOK(p, batch)'
        BY Zenon, <2>1, <2>2, <2>5, <1>GenerateBatch
      <3>2. cmd' = [pc |-> "put", actor |-> cmd.actor, peer |-> cmd.peer, decrypt |-> cmd.decrypt,
                    batch |-> batch, message |-> cmd.message, tried |-> FALSE]
        BY ZenonT(30), <3>1 DEF IInv, CmdOK
      <3>3. CommandOK'
        BY Zenon, <2>1, <2>2, <3>2 DEF CommandOK, Command
      <3>4. Prepared'
        BY Zenon, <2>1, <2>2, <3>2 DEF Prepared
      <3>5. Offered'
        BY Zenon, <2>2, <2>3, <3>1, <3>2, <1>OfferFrame
      <3> QED
        BY Zenon, <2>4, <3>3, <3>4, <3>5
    <2>6. CASE cmd'.pc = "exhausted"
      <3>1. cmd' = [cmd EXCEPT !.pc = "exhausted"]
        <4>1. \/ cmd' = [cmd EXCEPT !.pc = "exhausted"]
              \/ \E batch : cmd' = [cmd EXCEPT !.pc = "put", !.tried = FALSE, !.batch = batch]
          BY Zenon DEF Generate
        <4>2. ASSUME NEW batch, cmd' = [cmd EXCEPT !.pc = "put", !.tried = FALSE, !.batch = batch]
              PROVE  cmd'.pc = "put"
          BY Zenon, <4>2 DEF IInv, CmdOK
        <4> QED
          BY Zenon, <2>6, <4>1, <4>2
      <3>2. cmd' = [pc |-> "exhausted", actor |-> cmd.actor, peer |-> cmd.peer,
                    decrypt |-> cmd.decrypt, batch |-> cmd.batch, message |-> cmd.message,
                    tried |-> cmd.tried]
        BY ZenonT(30), <3>1 DEF IInv, CmdOK
      <3>3. CommandOK'
        BY Zenon, <2>1, <2>2, <3>2 DEF CommandOK, Command, Ended
      <3>4. Prepared'
        BY Zenon, <2>1, <2>2, <3>2 DEF Prepared
      <3>5. Offered'
        BY Zenon, <2>2, <2>3, <3>2, <1>OfferFrame
      <3> QED
        BY Zenon, <2>4, <3>3, <3>4, <3>5
    <2> QED
      BY Zenon, <2>5, <2>6

  \* Whatever the request, the queue stays in order and is not emptied.
  <1>RequestQueue.
      ASSUME NEW r, RequestOK(r), NEW queue, QueueOK(r.at, queue), NEW new,
             r.op = "put" => new = publish_prekey_bundles(queue, r.batch),
             r.op = "consume" => new = consume_one_time_prekey(queue),
             r.op = "post" => new = queue
      PROVE  QueueOK(r.at, new) /\ (r.op = "put" \/ queue # <<>> => new # <<>>)
    <2> USE <1>RequestQueue
    <2>1. /\ r.op \in {"put", "consume", "post"} /\ r.batch \in Seq(Bundle)
          /\ queue \in Seq(Bundle) /\ QueueShape(queue)
          /\ \A i \in 1..Len(queue) : Stored(r.at, queue[i])
      BY Zenon DEF RequestOK, Request, QueueOK
    <2>2. CASE r.op = "put"
      <3>1. /\ \A i \in 1..Len(r.batch) : Stored(r.at, r.batch[i])
            /\ \E i \in 1..Len(r.batch) : r.batch[i] = LastResort
        BY Zenon, <2>2 DEF RequestOK, BatchOK
      <3>2. Plain(queue) /\ Plain(r.batch)
        BY Zenon, <2>1, <3>1 DEF Plain, Stored
      <3>3. Published(new, queue, r.batch)
        BY Zenon, <2>1, <2>2, <3>1, <3>2, PublishQueue
      <3>4. \A i \in 1..Len(new) : Stored(r.at, new[i])
        BY Zenon, <2>1, <3>1, <3>3 DEF Published
      <3> QED
        BY Zenon, <3>3, <3>4 DEF QueueOK, Published
    <2>3. CASE r.op = "consume"
      <3>1. /\ new \in Seq(Bundle) /\ QueueShape(new) /\ (queue # <<>> => new # <<>>)
            /\ \A i \in 1..Len(new) : \E j \in 1..Len(queue) : new[i] = queue[j]
        BY Zenon, <2>1, <2>3, <1>ConsumeQueue
      <3>2. \A i \in 1..Len(new) : Stored(r.at, new[i])
        BY Zenon, <2>1, <3>1
      <3> QED
        BY Zenon, <2>3, <3>1, <3>2 DEF QueueOK
    <2>4. CASE r.op = "post"
      BY Zenon, <2>4
    <2> QED
      BY Zenon, <2>1, <2>2, <2>3, <2>4

  \* The repository or the relay executes a request of this client or a late one.
  <1>ExecuteOffer.
      ASSUME IInv, OfferInv, NEW r, RequestOK(r), Execute(r), UNCHANGED stores,
             lost' \in Nat, late' \subseteq late \cup {r}, UNCHANGED active,
             (cmd.pc = "put" => BatchOK(cmd.peer, cmd.batch))'
      PROVE  /\ ServiceTypes' /\ Offered'
             /\ \A p \in Participants : prekey_bundles[p] # <<>> => prekey_bundles'[p] # <<>>
             /\ r.op = "put" => prekey_bundles'[r.at] # <<>>
    <2> USE <1>ExecuteOffer
    <2> USE DEF OfferInv
    <2>1. /\ r.at \in Participants /\ r.op \in {"put", "consume", "post"} /\ r.batch \in Seq(Bundle)
      BY Zenon DEF RequestOK, Request
    <2>2. prekey_bundles \in [Participants -> Seq(Bundle)]
      BY Zenon DEF ServiceTypes
    <2>3. \A p \in Participants : QueueOK(p, prekey_bundles[p])
      BY Zenon, <2>2 DEF Offered, QueueOK
    <2>4. PICK new : /\ prekey_bundles' = [prekey_bundles EXCEPT ![r.at] = new]
                     /\ r.op = "put" => new = publish_prekey_bundles(prekey_bundles[r.at], r.batch)
                     /\ r.op = "consume" => new = consume_one_time_prekey(prekey_bundles[r.at])
                     /\ r.op = "post" => new = prekey_bundles[r.at]
      BY Zenon, <2>1 DEF Execute
    <2>5. QueueOK(r.at, new) /\ (r.op = "put" \/ prekey_bundles[r.at] # <<>> => new # <<>>)
      BY Zenon, <2>1, <2>3, <2>4, <1>RequestQueue
    <2>6. \A p \in Participants : prekey_bundles'[p] = IF p = r.at THEN new ELSE prekey_bundles[p]
      BY Zenon, <2>1, <2>2, <2>4
    <2>7. \A p \in Participants : QueueOK(p, prekey_bundles'[p])
      BY Zenon, <2>3, <2>5, <2>6
    <2>8. /\ \A p \in Participants : prekey_bundles[p] # <<>> => prekey_bundles'[p] # <<>>
          /\ r.op = "put" => prekey_bundles'[r.at] # <<>>
      BY Zenon, <2>1, <2>5, <2>6
    <2>9. inboxes' \in [Participants -> Seq(Envelope)] /\ next_message_id' \in Nat
      <3>1. inboxes \in [Participants -> Seq(Envelope)] /\ next_message_id \in Nat
        BY Zenon DEF ServiceTypes
      <3>2. CASE r.op = "post"
        <4> DEFINE e == [id |-> next_message_id, sender |-> r.message.sender, message |-> r.message]
        <4>1. r.message \in Message
          BY Zenon, <3>2 DEF RequestOK
        <4>2. e \in Envelope
          BY Zenon, <3>1, <4>1 DEF Envelope, Message
        <4>3. /\ inboxes' = publish_pairwise_message(inboxes, {r.at}, e)
              /\ next_message_id' = next_message_id + 1
          BY Zenon, <3>2 DEF Execute
        <4> HIDE DEF e
        <4> QED
          BY <3>1, <4>2, <4>3 DEF publish_pairwise_message
      <3>3. CASE r.op # "post"
        BY <3>1, <3>3 DEF Execute
      <3> QED
        BY Zenon, <3>2, <3>3
    <2>10. prekey_bundles' \in [Participants -> Seq(Bundle)]
      BY Zenon, <2>1, <2>2, <2>4, <2>5 DEF QueueOK
    <2>11. \A x \in late' : RequestOK(x)
      <3>1. \A x \in late : RequestOK(x)
        BY Zenon DEF RequestOK, ServiceTypes, Offered
      <3> QED
        BY Zenon, <3>1
    <2>12. ServiceTypes'
      BY Zenon, <2>9, <2>10, <2>11 DEF ServiceTypes, RequestOK
    <2>13. KeysKept
      BY Zenon, QuietKeys
    <2>14. \A p, b : Stored(p, b)' <=> Stored(p, b)
      BY Zenon DEF Stored, stores, prekeys
    <2>15. ASSUME NEW p \in Participants
           PROVE  /\ QueueShape(prekey_bundles[p])'
                  /\ \A i \in 1..Len(prekey_bundles'[p]) : Stored(p, prekey_bundles[p][i])'
      <3>1. PICK q : q = prekey_bundles'[p]
        BY Zenon
      <3>2. QueueShape(q) /\ \A i \in 1..Len(q) : Stored(p, q[i])
        BY Zenon, <2>7, <3>1 DEF QueueOK
      <3>3. QueueShape(prekey_bundles[p])'
        BY Zenon, <3>1, <3>2 DEF QueueShape
      <3>4. \A i \in 1..Len(q) : Stored(p, prekey_bundles[p][i])'
        BY Zenon, <3>1, <3>2 DEF Stored, stores, prekeys
      <3> QED
        BY Zenon, <3>1, <3>3, <3>4
    <2>16. \A x \in late' : IF x.op = "put" THEN BatchOK(x.at, x.batch)' ELSE x.batch = <<>>
      BY Zenon, <2>11, <2>14 DEF RequestOK, BatchOK
    <2>17. Offered'
      BY Zenon, <2>15, <2>16 DEF Offered
    <2> QED
      BY Zenon, <2>8, <2>12, <2>17

  \* A request is answered, and the command goes on.
  <1>SendOffer.
      ASSUME IInv, OfferInv, Send
      PROVE  OfferInv'
    <2> USE <1>SendOffer
    <2> USE DEF OfferInv
    <2>1. PICK r : r = CurrentRequest
      BY Zenon
    <2>2. RequestOK(r) /\ r.op = cmd.pc /\ r.at = cmd.peer
      BY Zenon, <2>1, CurrentOK DEF Send
    <2>3. /\ Execute(r) /\ Requesting /\ UNCHANGED <<runner, late, lost, prekeys, ratchets>>
          /\ cmd' = [cmd EXCEPT !.pc = Answered, !.tried = FALSE]
      BY Zenon, <2>1 DEF Send, Goto
    <2>4. cmd.pc \in {"put", "consume", "post"} /\ cmd.actor \in Participants /\ cmd.peer \in Participants
      BY Zenon, <2>3 DEF Requesting, IInv, CmdOK
    <2>5. /\ Answered \in {"done", "encrypt", "decrypt"}
          /\ Answered \in {"encrypt", "decrypt"} => cmd.pc \in {"consume", "post"}
      BY Zenon, <2>4 DEF Answered
    <2>6. Answered \in Points
      BY Zenon, <2>5 DEF Points
    <2>7. /\ cmd' \in Command /\ cmd'.pc = Answered /\ cmd'.actor = cmd.actor /\ cmd'.peer = cmd.peer
      BY Zenon, <2>3, <2>6, GotoTypes DEF IInv, CommandOK
    <2>8. UNCHANGED <<active, own_prekeys, stores>>
      BY Zenon, <2>3 DEF runner, prekeys, stores, ratchets
    <2>9. CommandOK'
      BY Zenon, <2>4, <2>5, <2>7, <2>8 DEF CommandOK
    <2>10. /\ ServiceTypes' /\ Offered'
           /\ \A p \in Participants : prekey_bundles[p] # <<>> => prekey_bundles'[p] # <<>>
           /\ r.op = "put" => prekey_bundles'[r.at] # <<>>
      <3>1. (cmd.pc = "put" => BatchOK(cmd.peer, cmd.batch))'
        BY Zenon, <2>5, <2>7
      <3>2. lost' \in Nat /\ late' \subseteq late \cup {r}
        BY Zenon, <2>3 DEF ServiceTypes
      <3> QED
        BY Zenon, <2>2, <2>3, <2>8, <3>1, <3>2, <1>ExecuteOffer
    <2>11. Prepared'
      <3>1. \A p \in active : own_prekeys[p] /\ prekey_bundles'[p] # <<>> /\ p \in Participants
        BY Zenon, <2>10 DEF Prepared, RunnerTypes
      <3>2. own_prekeys[cmd.peer] /\ prekey_bundles'[cmd.peer] # <<>>
        <4>1. CASE cmd.pc = "put"
          BY Zenon, <2>2, <2>10, <4>1 DEF Prepared
        <4>2. CASE cmd.pc # "put"
          BY Zenon, <2>4, <3>1, <4>2 DEF CommandOK
        <4> QED
          BY Zenon, <4>1, <4>2
      <3> QED
        BY Zenon, <2>5, <2>7, <2>8, <3>1, <3>2 DEF Prepared
    <2>12. RunnerTypes' /\ RatchetTypes'
      BY Zenon, <2>3 DEF RunnerTypes, RatchetTypes, runner, ratchets
    <2> QED
      BY Zenon, <2>9, <2>10, <2>11, <2>12

  \* A request without an answer in time.
  <1>LoseOffer.
      ASSUME IInv, OfferInv, Lose
      PROVE  OfferInv'
    <2> USE <1>LoseOffer
    <2> USE DEF OfferInv
    <2>1. PICK r : r = CurrentRequest
      BY Zenon
    <2>2. RequestOK(r) /\ Requesting
      BY Zenon, <2>1, CurrentOK DEF Lose
    <2>3. /\ late' = late \cup {r} /\ lost' = lost + 1 /\ cmd' = [cmd EXCEPT !.tried = TRUE]
          /\ UNCHANGED <<runner, prekey_bundles, inboxes, next_message_id, prekeys, ratchets>>
      BY Zenon, <2>1 DEF Lose
    <2>4. cmd' = [pc |-> cmd.pc, actor |-> cmd.actor, peer |-> cmd.peer, decrypt |-> cmd.decrypt,
                  batch |-> cmd.batch, message |-> cmd.message, tried |-> TRUE]
      BY ZenonT(30), <2>3 DEF IInv, CmdOK
    <2>5. UNCHANGED <<active, own_prekeys, accepted, stores>>
      BY Zenon, <2>3 DEF runner, prekeys, stores, ratchets
    <2>6. CommandOK'
      BY Zenon, <2>4, <2>5 DEF CommandOK, Command
    <2>7. Prepared'
      BY Zenon, <2>3, <2>4, <2>5 DEF Prepared
    <2>8. RunnerTypes' /\ RatchetTypes'
      BY Zenon, <2>3 DEF RunnerTypes, RatchetTypes, runner, ratchets
    <2>9. ServiceTypes'
      BY SMTT(30), <2>2, <2>3 DEF ServiceTypes, RequestOK
    <2>10. \A p, b : Stored(p, b)' <=> Stored(p, b)
      BY Zenon, <2>5 DEF Stored, stores, prekeys
    <2>11. \A x \in late' : IF x.op = "put" THEN BatchOK(x.at, x.batch)' ELSE x.batch = <<>>
      <3>1. \A x \in late' : IF x.op = "put" THEN BatchOK(x.at, x.batch) ELSE x.batch = <<>>
        BY Zenon, <2>2, <2>3 DEF Offered, RequestOK
      <3> QED
        BY Zenon, <2>10, <3>1 DEF BatchOK
    <2>12. ASSUME NEW p \in Participants
           PROVE  /\ QueueShape(prekey_bundles[p])'
                  /\ \A i \in 1..Len(prekey_bundles'[p]) : Stored(p, prekey_bundles[p][i])'
      BY SMTT(30), <2>3, <2>5 DEF Offered, QueueShape, Stored, stores, prekeys
    <2>13. (cmd.pc = "put" => BatchOK(cmd.peer, cmd.batch))'
      <3>1. PICK q, batch : q = cmd.peer /\ batch = cmd.batch
        BY Zenon
      <3>2. cmd.pc = "put" => BatchOK(q, batch)'
        BY Zenon, <2>10, <3>1 DEF Offered, BatchOK
      <3> QED
        BY <2>4, <3>1, <3>2 DEF BatchOK, Stored
    <2>14. Offered'
      BY Zenon, <2>11, <2>12, <2>13 DEF Offered
    <2> QED
      BY Zenon, <2>6, <2>7, <2>8, <2>9, <2>14

  \* A late request.
  <1>RunLateOffer.
      ASSUME IInv, OfferInv, NEW r \in late, RunLate(r)
      PROVE  OfferInv'
    <2> USE <1>RunLateOffer
    <2> USE DEF OfferInv
    <2>1. RequestOK(r)
      BY Zenon DEF RequestOK, ServiceTypes, Offered
    <2>2. Execute(r) /\ late' = late \ {r} /\ UNCHANGED <<runner, cmd, lost, prekeys, ratchets>>
      BY Zenon DEF RunLate
    <2>3. UNCHANGED <<active, own_prekeys, stores>>
      BY Zenon, <2>2 DEF runner, prekeys, stores, ratchets
    <2>4. /\ ServiceTypes' /\ Offered'
          /\ \A p \in Participants : prekey_bundles[p] # <<>> => prekey_bundles'[p] # <<>>
      <3>1. (cmd.pc = "put" => BatchOK(cmd.peer, cmd.batch))'
        BY ZenonT(30), <2>2, <2>3 DEF Offered, BatchOK, Stored, stores, prekeys
      <3>2. lost' \in Nat /\ late' \subseteq late \cup {r}
        BY Zenon, <2>2 DEF ServiceTypes
      <3> QED
        BY Zenon, <2>1, <2>2, <2>3, <3>1, <3>2, <1>ExecuteOffer
    <2>5. Prepared'
      <3>1. cmd.pc = "done" => cmd.peer \in Participants
        BY Zenon DEF IInv, CmdOK
      <3> QED
        BY Zenon, <2>2, <2>3, <2>4, <3>1 DEF Prepared, RunnerTypes
    <2>6. RunnerTypes' /\ RatchetTypes' /\ CommandOK'
      BY Zenon, <2>2 DEF RunnerTypes, RatchetTypes, CommandOK, runner, ratchets
    <2> QED
      BY Zenon, <2>4, <2>5, <2>6

  \* A command goes on without a change to the stores and the services.
  <1>GotoOffer.
      ASSUME IInv, OfferInv, UNCHANGED <<runner, services, prekeys, accepted>>, RatchetTypes',
             NEW pc \in {"reset_peer", "establish", "consume", "encrypt", "done", "given_up"}, Goto(pc),
             cmd.pc # "idle", pc # "given_up" => cmd.actor # cmd.peer
      PROVE  OfferInv'
    <2> USE <1>GotoOffer
    <2> USE DEF OfferInv
    <2>0. pc \in Points
      BY Zenon DEF Points, Ended
    <2>1. /\ cmd' \in Command /\ cmd'.pc = pc /\ cmd'.actor = cmd.actor /\ cmd'.peer = cmd.peer
      BY Zenon, <2>0, GotoTypes DEF IInv, CommandOK, Goto
    <2>2. UNCHANGED <<active, own_prekeys, prekey_bundles, late>>
      BY Zenon DEF runner, services, prekeys
    <2>3. CommandOK'
      BY Zenon, <2>1, <2>2 DEF CommandOK
    <2>4. Prepared'
      BY Zenon, <2>1, <2>2 DEF Prepared, CommandOK
    <2>5. KeysKept
      BY Zenon, QuietKeys DEF stores
    <2>6. Offered'
      BY Zenon, <2>1, <2>2, <2>5, <1>OfferFrame
    <2>7. RunnerTypes' /\ ServiceTypes'
      BY Zenon DEF RunnerTypes, ServiceTypes, runner, services
    <2> QED
      BY Zenon, <2>3, <2>4, <2>6, <2>7

  \* The record of a session is replaced.
  <1>RecordTypes.
      ASSUME RatchetTypes, NEW p \in Participants, NEW q \in Participants,
             NEW record \in Seq(SessionState),
             sessions' = [sessions EXCEPT ![p] = [sessions[p] EXCEPT ![q] = record]],
             UNCHANGED <<base_keys_seen, opened, accepted>>, started' \subseteq Session
      PROVE  RatchetTypes'
    BY Zenon, <1>RecordTypes DEF RatchetTypes

  \* Archiving a state keeps the record well typed.
  <1>PromoteTypes.
      ASSUME NEW record \in Seq(SessionState), NEW state \in SessionState
      PROVE  promote_state(record, state) \in Seq(SessionState)
    <2> USE <1>PromoteTypes
    <2> DEFINE archived == [i \in DOMAIN record |->
                              IF i = 1 THEN [record[1] EXCEPT !.bundle = NoBundle] ELSE record[i]]
    <2>1. DOMAIN record = 1..Len(record) /\ Len(record) \in Nat
      OBVIOUS
    <2>2. ASSUME NEW s \in SessionState PROVE [s EXCEPT !.bundle = NoBundle] \in SessionState
      BY Zenon DEF SessionState
    <2>3. archived \in Seq(SessionState)
      <3>1. \A i \in 1..Len(record) : archived[i] \in SessionState
        BY <2>1, <2>2
      <3> QED
        BY <2>1, <3>1
    <2> QED
      BY <2>3 DEF promote_state

  \* ResetSessions forgets a session at one participant, then at the other.
  <1>ResetOffer.
      ASSUME IInv, OfferInv, ResetSessions
      PROVE  OfferInv'
    <2> USE <1>ResetOffer
    <2>1. /\ cmd.actor \in Participants /\ cmd.peer \in Participants /\ cmd.actor # cmd.peer
          /\ cmd.pc # "idle"
      BY Zenon DEF ResetSessions, IInv, CmdOK, OfferInv, CommandOK
    <2>2. PICK p \in Participants, q \in Participants, pc \in {"reset_peer", "establish"} :
            Goto(pc) /\ sessions' = [sessions EXCEPT ![p][q] = <<>>]
      BY Zenon, <2>1 DEF ResetSessions
    <2>3. UNCHANGED <<runner, services, prekeys, base_keys_seen, opened, started, accepted>>
      BY Zenon DEF ResetSessions
    <2>4. RatchetTypes'
      <3>1. sessions' = [sessions EXCEPT ![p] = [sessions[p] EXCEPT ![q] = <<>>]]
        BY Zenon, <2>2
      <3>2. <<>> \in Seq(SessionState)
        OBVIOUS
      <3>3. started' \subseteq Session
        BY Zenon, <2>3 DEF OfferInv, RatchetTypes
      <3> QED
        BY ZenonT(30), <2>3, <3>1, <3>2, <3>3, <1>RecordTypes DEF OfferInv
    <2> QED
      BY Zenon, <2>1, <2>2, <2>3, <2>4, <1>GotoOffer

  \* EstablishSessions finds a bundle, because the peer is active.
  <1>EstablishOffer.
      ASSUME IInv, OfferInv, EstablishSessions
      PROVE  OfferInv'
    <2> USE <1>EstablishOffer
    <2> DEFINE queue == prekey_bundles[cmd.peer]
               record == sessions[cmd.actor][cmd.peer]
               state == [base |-> pairs, bundle |-> Head(queue), n |-> 0]
    <2>1. /\ cmd.actor \in Participants /\ cmd.peer \in Participants /\ cmd.actor # cmd.peer
          /\ cmd.pc # "idle" /\ cmd.peer \in active
      BY Zenon DEF EstablishSessions, IInv, CmdOK, OfferInv, CommandOK
    <2>2. /\ queue \in Seq(Bundle) /\ queue # <<>> /\ record \in Seq(SessionState) /\ pairs \in Nat
      BY Zenon, <2>1 DEF OfferInv, Prepared, ServiceTypes, RatchetTypes, RunnerTypes
    <2>3. UNCHANGED <<runner, services, prekeys, base_keys_seen, opened, accepted>>
      BY Zenon DEF EstablishSessions
    <2>4. CASE Goto("encrypt") /\ UNCHANGED <<sessions, started>>
      <3>1. RatchetTypes'
        BY Zenon, <2>3, <2>4 DEF OfferInv, RatchetTypes
      <3> QED
        BY Zenon, <2>1, <2>3, <2>4, <3>1, <1>GotoOffer
    <2>5. CASE /\ sessions' = [sessions EXCEPT ![cmd.actor][cmd.peer] = promote_state(record, state)]
               /\ started' = started \cup
                    {[owner |-> cmd.peer, bundle |-> Head(queue), base |-> pairs]}
               /\ Goto("consume")
      <3>1. Head(queue) \in Bundle
        BY SMTT(30), <2>2
      <3>2. state \in SessionState
        BY Zenon, <2>2, <3>1 DEF SessionState
      <3>3. promote_state(record, state) \in Seq(SessionState)
        BY Zenon, <2>2, <3>2, <1>PromoteTypes
      <3>4. started' \subseteq Session
        BY SMTT(30), <2>1, <2>2, <2>5, <3>1 DEF Session, OfferInv, RatchetTypes
      <3>5. sessions' = [sessions EXCEPT ![cmd.actor] =
                            [sessions[cmd.actor] EXCEPT ![cmd.peer] = promote_state(record, state)]]
        BY Zenon, <2>5
      <3> HIDE DEF state, record, queue
      <3>6. RatchetTypes'
        BY Zenon, <2>1, <2>3, <3>3, <3>4, <3>5, <1>RecordTypes DEF OfferInv
      <3> QED
        BY Zenon, <2>1, <2>3, <2>5, <3>6, <1>GotoOffer
    <2> QED
      BY Zenon, <2>2, <2>4, <2>5 DEF EstablishSessions

  \* EncryptMessage makes a message of the current session.
  <1>EncryptOffer.
      ASSUME IInv, OfferInv, InSession, EncryptMessage
      PROVE  OfferInv'
    <2> USE <1>EncryptOffer
    <2> USE DEF OfferInv
    <2> DEFINE record == sessions[cmd.actor][cmd.peer]
               s == Head(record)
               m == [sender |-> cmd.actor, base |-> s.base, bundle |-> s.bundle, n |-> s.n]
    <2>1. /\ cmd.actor \in Participants /\ cmd.peer \in Participants /\ cmd.actor # cmd.peer
          /\ cmd.pc = "encrypt" /\ cmd.peer \in active /\ cmd.actor \in active
      BY Zenon DEF EncryptMessage, IInv, CmdOK, CommandOK
    <2>2. record \in Seq(SessionState) /\ record # <<>>
      BY Zenon, <2>1 DEF RatchetTypes, InSession
    <2>3. s \in SessionState /\ s = record[1] /\ 1 \in DOMAIN record
      BY <2>2
    <2>4. m \in Message
      BY Zenon, <2>1, <2>3 DEF Message, SessionState
    <2>5. UNCHANGED <<runner, services, prekeys, base_keys_seen, opened, started, accepted>>
      BY Zenon DEF EncryptMessage
    <2>6. CASE Goto("done") /\ UNCHANGED sessions
      <3>1. RatchetTypes'
        BY Zenon, <2>5, <2>6 DEF RatchetTypes
      <3> QED
        BY Zenon, <2>1, <2>5, <2>6, <3>1, <1>GotoOffer
    <2>7. CASE /\ sessions' = [sessions EXCEPT ![cmd.actor][cmd.peer][1].n = @ + 1]
               /\ cmd' = [cmd EXCEPT !.pc = "post", !.tried = FALSE, !.message = m]
      <3>1. sessions' = [sessions EXCEPT ![cmd.actor] = [sessions[cmd.actor] EXCEPT ![cmd.peer] =
                            [record EXCEPT ![1] = [record[1] EXCEPT !.n = record[1].n + 1]]]]
        BY ZenonT(30), <2>7
      <3>2. [s EXCEPT !.n = s.n + 1] \in SessionState
        BY <2>3 DEF SessionState
      <3>3. [record EXCEPT ![1] = [record[1] EXCEPT !.n = record[1].n + 1]] \in Seq(SessionState)
        <4>1. PICK t \in SessionState : t = [record[1] EXCEPT !.n = record[1].n + 1]
          BY Zenon, <2>3, <3>2
        <4>2. [record EXCEPT ![1] = t] \in Seq(SessionState)
          BY <2>2, <2>3
        <4> QED
          BY Zenon, <4>1, <4>2
      <3>4. started' \subseteq Session
        BY Zenon, <2>5 DEF RatchetTypes
      <3>5. cmd' = [pc |-> "post", actor |-> cmd.actor, peer |-> cmd.peer, decrypt |-> cmd.decrypt,
                    batch |-> cmd.batch, message |-> m, tried |-> FALSE]
        BY ZenonT(30), <2>7 DEF IInv, CmdOK
      <3> HIDE DEF m, s, record
      <3>6. RatchetTypes'
        BY Zenon, <2>1, <2>5, <3>1, <3>3, <3>4, <1>RecordTypes
      <3>7. UNCHANGED <<active, own_prekeys, prekey_bundles, late>>
        BY Zenon, <2>5 DEF runner, services, prekeys
      <3>8. CommandOK'
        BY Zenon, <2>1, <2>4, <3>5, <3>7 DEF CommandOK, Command
      <3>9. Prepared'
        BY Zenon, <3>5, <3>7 DEF Prepared
      <3>10. KeysKept
        BY Zenon, <2>5, QuietKeys DEF stores
      <3>11. Offered'
        BY Zenon, <3>5, <3>7, <3>10, <1>OfferFrame
      <3>12. RunnerTypes' /\ ServiceTypes'
        BY Zenon, <2>5 DEF RunnerTypes, ServiceTypes, runner, services
      <3> QED
        BY Zenon, <3>6, <3>8, <3>9, <3>11, <3>12
    <2> QED
      BY Zenon, <2>6, <2>7 DEF EncryptMessage

  \* So is the record in which the state of an opened message becomes the current one.
  <1>PromotedTypes.
      ASSUME NEW record \in Seq(SessionState), NEW base, base \in Bases(record)
      PROVE  Promoted(record, base) \in Seq(SessionState)
    <2> USE <1>PromotedTypes
    <2> DEFINE i == CHOOSE j \in DOMAIN record : record[j].base = base
               state == [record[i] EXCEPT !.bundle = NoBundle]
    <2>1. i \in DOMAIN record
      BY Zenon DEF Bases
    <2>2. DOMAIN record = 1..Len(record)
      OBVIOUS
    <2>3. record[i] \in SessionState
      BY <2>1, <2>2
    <2>4. ASSUME NEW t \in SessionState PROVE [t EXCEPT !.bundle = NoBundle] \in SessionState
      BY Zenon DEF SessionState
    <2>5. state \in SessionState
      BY Zenon, <2>3, <2>4
    <2>6. Promoted(record, base) = IF i = 1 THEN [record EXCEPT ![1] = state]
                                            ELSE promote_state(Kept(record, DOMAIN record \ {i}), state)
      BY Zenon DEF Promoted
    <2> HIDE DEF i, state
    <2>7. Kept(record, DOMAIN record \ {i}) \in Seq(SessionState)
      BY Zenon, KeptElements DEF Selects
    <2>8. promote_state(Kept(record, DOMAIN record \ {i}), state) \in Seq(SessionState)
      BY Zenon, <2>5, <2>7, <1>PromoteTypes
    <2>9. i = 1 => [record EXCEPT ![1] = state] \in Seq(SessionState)
      BY <2>1, <2>5
    <2> QED
      BY Zenon, <2>6, <2>8, <2>9

  \* What message_decrypt leaves behind is well typed.
  <1>DecryptTypes.
      ASSUME RatchetTypes, NEW p \in Participants, NEW m \in Message, Opens(p, m),
             message_decrypt(p, m)
      PROVE  RatchetTypes'
    <2> USE <1>DecryptTypes
    <2> DEFINE record == sessions[p][m.sender]
               known == m.base \in Bases(record)
               state == [base |-> m.base, bundle |-> NoBundle, n |-> 0]
               next == IF known THEN Promoted(record, m.base) ELSE promote_state(record, state)
               new == [owner |-> p, bundle |-> m.bundle, base |-> m.base]
    <2>1. m.sender \in Participants /\ m.base \in Nat /\ m.bundle \in Bundle \cup {NoBundle}
      BY Zenon DEF Message
    <2>2. /\ sessions' = [sessions EXCEPT ![p] = [sessions[p] EXCEPT ![m.sender] = next]]
          /\ base_keys_seen' = [base_keys_seen EXCEPT ![p] = IF known THEN @ ELSE @ \cup {m.base}]
          /\ opened' = [opened EXCEPT ![p] = @ \cup {m}]
          /\ accepted' = accepted \cup (IF known THEN {} ELSE {new})
          /\ started' = started
      BY Zenon DEF message_decrypt
    <2>3. ~known => new \in Session
      <3>1. ~known => m.bundle \in Bundle
        BY Zenon, <2>1 DEF Opens
      <3> QED
        BY Zenon, <2>1, <3>1 DEF Session
    <2>4. record \in Seq(SessionState) /\ state \in SessionState
      BY Zenon, <2>1 DEF RatchetTypes, SessionState
    <2>5. next \in Seq(SessionState)
      <3>1. known => Promoted(record, m.base) \in Seq(SessionState)
        BY Zenon, <2>4, <1>PromotedTypes
      <3>2. promote_state(record, state) \in Seq(SessionState)
        BY Zenon, <2>4, <1>PromoteTypes
      <3> QED
        BY Zenon, <3>1, <3>2
    <2> HIDE DEF record, known, state, next, new
    <2>6. sessions' \in [Participants -> [Participants -> Seq(SessionState)]]
      BY Zenon, <2>1, <2>2, <2>5 DEF RatchetTypes
    <2>7. base_keys_seen' \in [Participants -> SUBSET Nat] /\ opened' \in [Participants -> SUBSET Message]
      BY Zenon, <2>1, <2>2 DEF RatchetTypes
    <2>8. accepted' \subseteq Session /\ started' \subseteq Session
      BY Zenon, <2>2, <2>3 DEF RatchetTypes
    <2> QED
      BY Zenon, <2>6, <2>7, <2>8 DEF RatchetTypes

  \* DecryptMessage opens the message it gets, or the run ends.
  <1>DecryptOffer.
      ASSUME IInv, OfferInv, DecryptMessage
      PROVE  OfferInv'
    <2> USE <1>DecryptOffer
    <2> USE DEF OfferInv
    <2>1. /\ cmd.pc = "decrypt" /\ cmd.actor \in Participants /\ cmd.peer \in Participants
          /\ cmd.actor # cmd.peer /\ cmd.actor \in active /\ cmd.peer \in active
      BY Zenon DEF DecryptMessage, IInv, CmdOK, CommandOK
    <2>2. Pending \in Seq(Envelope)
      BY Zenon, <2>1, PendingTypes
    <2>3. UNCHANGED <<runner, prekey_bundles, next_message_id, late, lost>>
      BY Zenon DEF DecryptMessage
    <2>4. UNCHANGED <<active, prekey_bundles, late>>
      BY Zenon, <2>3 DEF runner
    <2>5. CASE Pending # <<>> /\ Opens(cmd.peer, Head(Pending).message)
      <3>1. PICK p \in Participants, e \in Envelope : p = cmd.peer /\ e = Head(Pending)
        BY <2>1, <2>2, <2>5
      <3>2. /\ Opens(p, e.message) /\ message_decrypt(p, e.message)
            /\ inboxes' = ack_message(inboxes, p, e) /\ Goto("update")
        BY Zenon, <2>5, <3>1 DEF DecryptMessage
      <3>3. e.message \in Message
        BY Zenon DEF Envelope
      <3>4. RatchetTypes'
        BY Zenon, <3>2, <3>3, <1>DecryptTypes
      <3>5. KeysKept
        BY Zenon, <3>2, <3>3, DecryptKeys DEF Message
      <3>6. "update" \in Points
        BY Zenon DEF Points
      <3>7. /\ cmd' \in Command /\ cmd'.pc = "update" /\ cmd'.actor = cmd.actor /\ cmd'.peer = cmd.peer
        BY Zenon, <3>2, <3>6, GotoTypes DEF IInv, CommandOK, Goto
      <3>8. own_prekeys' = own_prekeys
        BY Zenon, <3>2 DEF message_decrypt
      <3>9. CommandOK' /\ Prepared'
        BY Zenon, <2>1, <2>4, <3>7, <3>8 DEF CommandOK, Prepared
      <3>10. Offered'
        BY Zenon, <2>4, <3>5, <3>7, <1>OfferFrame
      <3>11. inboxes' \in [Participants -> Seq(Envelope)]
        <4>1. inboxes \in [Participants -> Seq(Envelope)]
          BY Zenon DEF ServiceTypes
        <4>2. ASSUME NEW I PROVE Kept(inboxes[p], I) \in Seq(Envelope)
          BY Zenon, <4>1, KeptElements DEF Selects
        <4> QED
          BY Zenon, <3>2, <4>1, <4>2 DEF ack_message
      <3>12. ServiceTypes' /\ RunnerTypes'
        BY Zenon, <2>3, <3>11 DEF ServiceTypes, RunnerTypes, runner
      <3> QED
        BY Zenon, <3>4, <3>9, <3>10, <3>12
    <2>6. CASE ~(Pending # <<>> /\ Opens(cmd.peer, Head(Pending).message))
      <3>1. PICK m \in Message \cup {NoMessage} : cmd' = [cmd EXCEPT !.pc = "not_opened", !.message = m]
        <4> DEFINE x == IF Pending = <<>> THEN NoMessage ELSE Head(Pending).message
        <4>1. x \in Message \cup {NoMessage}
          <5>1. CASE Pending = <<>>
            BY Zenon, <5>1
          <5>2. CASE Pending # <<>>
            <6>1. Head(Pending) \in Envelope
              BY <2>2, <5>2
            <6>2. Head(Pending).message \in Message
              BY Zenon, <6>1 DEF Envelope
            <6> QED
              BY Zenon, <5>2, <6>2
          <5> QED
            BY Zenon, <5>1, <5>2
        <4>2. cmd' = [cmd EXCEPT !.pc = "not_opened", !.message = x]
          BY Zenon, <2>6 DEF DecryptMessage
        <4> QED
          BY Zenon, <4>1, <4>2
      <3>2. cmd' = [pc |-> "not_opened", actor |-> cmd.actor, peer |-> cmd.peer,
                    decrypt |-> cmd.decrypt, batch |-> cmd.batch, message |-> m,
                    tried |-> cmd.tried]
        BY ZenonT(30), <3>1 DEF IInv, CmdOK
      <3>3. UNCHANGED <<inboxes, prekeys, ratchets>>
        BY Zenon, <2>6 DEF DecryptMessage
      <3>4. UNCHANGED services
        BY Zenon, <2>3, <3>3 DEF services
      <3>5. CommandOK' /\ RunnerTypes'
        BY ZenonT(30), <2>1, <2>3, <2>4, <3>2 DEF CommandOK, Command, Ended, RunnerTypes, runner
      <3>6. Prepared'
        BY Zenon, <2>4, <3>2, <3>3 DEF Prepared, prekeys
      <3> QED
        BY Zenon, <3>2, <3>3, <3>4, <3>5, <3>6, <1>RunnerFrame
    <2> QED
      BY Zenon, <2>5, <2>6

  \* Every step keeps what is offered in order.
  <1>Step.
      ASSUME IInv, OfferInv, InSession, [Next]_vars
      PROVE  OfferInv'
    <2> USE <1>Step
    <2>1. CASE \E p \in Participants : Enroll(p) \/ Deactivate(p) \/ Drop(p)
      BY Zenon, <2>1, <1>StartOffer, <1>EndOffer
    <2>2. CASE \E a, b \in Participants, fresh, decrypt \in BOOLEAN :
                   StartPair(a, b, fresh, decrypt)
      BY Zenon, <2>2, <1>StartOffer
    <2>3. CASE Finish
      <3>1. cmd.actor \in Participants
        BY Zenon, <2>3 DEF IInv, CmdOK, Finish
      <3> QED
        BY Zenon, <2>3, <3>1, <1>EndOffer
    <2>4. CASE PublishPrekeyBundle
      BY Zenon, <2>4, <1>PublishOffer
    <2>5. CASE GeneratePrekeyBundle
      <3>1. cmd.pc = "initial" /\ cmd.peer \in Participants /\ cmd.actor = cmd.peer
        BY Zenon, <2>5 DEF IInv, CmdOK, OfferInv, CommandOK, GeneratePrekeyBundle
      <3> QED
        BY Zenon, <2>5, <3>1, <1>GenerateOffer, SettingsAssumption DEF GeneratePrekeyBundle
    <2>6. CASE UpdateOneTimePrekeys
      <3>1. cmd.pc = "update" /\ cmd.peer \in Participants /\ cmd.actor # cmd.peer
        BY Zenon, <2>6 DEF IInv, CmdOK, OfferInv, CommandOK, UpdateOneTimePrekeys
      <3>2. UNCHANGED <<runner, services, ratchets>>
        BY Zenon, <2>6 DEF UpdateOneTimePrekeys
      <3>3. CASE Goto("done") /\ UNCHANGED prekeys
        <4>1. RatchetTypes' /\ accepted' = accepted
          BY Zenon, <3>2 DEF OfferInv, RatchetTypes, ratchets
        <4> QED
          BY Zenon, <3>1, <3>2, <3>3, <4>1, <1>GotoOffer
      <3>4. CASE Generate(cmd.peer, RefillCount)
        BY Zenon, <3>1, <3>2, <3>4, <1>GenerateOffer, SettingsAssumption
      <3> QED
        BY Zenon, <2>6, <3>3, <3>4 DEF UpdateOneTimePrekeys
    <2>7. CASE ResetSessions \/ EstablishSessions \/ EncryptMessage \/ DecryptMessage
      BY Zenon, <2>7, <1>ResetOffer, <1>EstablishOffer, <1>EncryptOffer, <1>DecryptOffer
    <2>8. CASE Send \/ Lose \/ \E r \in late : RunLate(r)
      BY Zenon, <2>8, <1>SendOffer, <1>LoseOffer, <1>RunLateOffer
    <2>9. CASE GiveUp
      <3>1. PICK pc \in {"encrypt", "given_up"} : Goto(pc) /\ (pc = "encrypt" => cmd.pc = "consume")
        BY Zenon, <2>9 DEF GiveUp, Answered
      <3>2. UNCHANGED <<runner, services, prekeys, ratchets>> /\ cmd.pc # "idle"
        BY Zenon, <2>9 DEF GiveUp, Requesting
      <3>3. RatchetTypes' /\ accepted' = accepted
        BY Zenon, <3>2 DEF OfferInv, RatchetTypes, ratchets
      <3>4. pc # "given_up" => cmd.actor # cmd.peer
        BY Zenon, <3>1 DEF OfferInv, CommandOK
      <3> QED
        BY Zenon, <3>1, <3>2, <3>3, <3>4, <1>GotoOffer
    <2>10. CASE UNCHANGED vars
      <3>1. UNCHANGED <<runner, cmd, services, prekeys, ratchets>>
        BY Zenon, <2>10 DEF vars
      <3>2. RunnerTypes' /\ ServiceTypes' /\ RatchetTypes' /\ CommandOK' /\ Prepared'
        BY ZenonT(30), <3>1 DEF OfferInv, RunnerTypes, ServiceTypes, RatchetTypes, CommandOK, Prepared,
                    runner, services, prekeys, ratchets
      <3>3. Offered'
        <4>1. (cmd.pc = "put" => BatchOK(cmd.peer, cmd.batch))'
          BY <3>1 DEF OfferInv, Offered, BatchOK, Stored, prekeys, ratchets
        <4> QED
          BY ZenonT(30), <3>1, <4>1, QuietKeys, <1>OfferFrame DEF OfferInv, services, stores, ratchets
      <3> QED
        BY Zenon, <3>2, <3>3 DEF OfferInv
    <2> QED
      BY Zenon, <2>1, <2>2, <2>3, <2>4, <2>5, <2>6, <2>7, <2>8, <2>9, <2>10 DEF Next

<1> QED
    BY Zenon, <1>Step

-----------------------------------------------------------------------------
\* What is offered stays in order, whatever is lost, repeated or late.
THEOREM OfferInvHolds == Spec => [](IInv /\ OfferInv /\ InSession)
  <1>1. Init => IInv /\ OfferInv /\ InSession
    BY Zenon, InitIInv, InitOffer
  <1>2. (IInv /\ OfferInv /\ InSession) /\ [Next]_vars => (IInv /\ OfferInv /\ InSession)'
    BY Zenon, NextIInv, NextOffer, NextInSession
  <1> QED
    BY <1>1, <1>2, PTL DEF Spec

\* Every state of the pairwise sessions is well typed.
THEOREM TypeCorrect == Spec => []TypeOK
  <1>1. IInv /\ OfferInv => TypeOK
    BY Zenon DEF IInv, StoresOK, OfferInv, RunnerTypes, ServiceTypes, RatchetTypes, CommandOK, TypeOK
  <1> QED
    BY <1>1, OfferInvHolds, PTL

\* A prepared participant always has a bundle on offer, the fallback behind all
\* one-time prekeys: consume_one_time_prekey never takes the fallback, and
\* publish_prekey_bundles leaves exactly one, at the end, however often a batch
\* is sent and however late a consume comes.
THEOREM AlwaysABundleHolds == Spec => []AlwaysABundle
  <1>1. IInv /\ OfferInv => AlwaysABundle
    <2> SUFFICES ASSUME OfferInv PROVE AlwaysABundle
      OBVIOUS
    <2>1. cmd.pc # "no_bundle"
      BY Zenon DEF OfferInv, CommandOK
    <2>2. ASSUME NEW p \in active
          PROVE  /\ prekey_bundles[p] # <<>> /\ prekey_bundles[p][Len(prekey_bundles[p])] = LastResort
                 /\ \A i \in 1..(Len(prekey_bundles[p]) - 1) : is_one_time(prekey_bundles[p][i])
      <3>1. p \in Participants /\ prekey_bundles[p] # <<>>
        BY Zenon DEF OfferInv, RunnerTypes, Prepared
      <3>2. QueueShape(prekey_bundles[p])
        BY Zenon, <3>1 DEF OfferInv, Offered
      <3> QED
        BY Zenon, <3>1, <3>2 DEF QueueShape
    <2> QED
      BY Zenon, <2>1, <2>2 DEF AlwaysABundle
  <1> QED
    BY <1>1, OfferInvHolds, PTL

\* The private keys of every bundle that is offered, or may still be sent, are in
\* the stores of its owner, or the one-time prekey has set up a session: the keys
\* are saved before the PUT, and a repeated PUT repeats only bundles whose keys
\* were saved.
THEOREM OfferedKeysAreStoredHolds == Spec => []OfferedKeysAreStored
  <1>1. IInv /\ OfferInv => OfferedKeysAreStored
    <2> SUFFICES ASSUME OfferInv, NEW p \in Participants,
                        NEW b \in Range(prekey_bundles[p])
                            \cup UNION {Range(r.batch) : r \in {x \in late : x.at = p}}
                 PROVE  Stored(p, b)
      BY Zenon DEF OfferedKeysAreStored, Stored
    <2>1. CASE b \in Range(prekey_bundles[p])
      <3>1. prekey_bundles[p] \in Seq(Bundle)
        BY Zenon DEF OfferInv, ServiceTypes
      <3>2. PICK i \in 1..Len(prekey_bundles[p]) : b = prekey_bundles[p][i]
        BY SMTT(30), <2>1, <3>1 DEF Range
      <3> QED
        BY Zenon, <3>2 DEF OfferInv, Offered
    <2>2. ASSUME NEW r \in late, r.at = p, b \in Range(r.batch)
          PROVE  Stored(p, b)
      <3>1. r.batch \in Seq(Bundle)
        BY Zenon DEF OfferInv, ServiceTypes, Request
      <3>2. PICK i \in 1..Len(r.batch) : b = r.batch[i]
        BY SMTT(30), <2>2, <3>1 DEF Range
      <3>3. r.op = "put"
        BY <3>1, <3>2 DEF OfferInv, Offered
      <3>4. BatchOK(r.at, r.batch)
        BY Zenon, <3>3 DEF OfferInv, Offered
      <3> QED
        BY Zenon, <2>2, <3>2, <3>4 DEF BatchOK
    <2> QED
      BY Zenon, <2>1, <2>2
  <1> QED
    BY <1>1, OfferInvHolds, PTL
-----------------------------------------------------------------------------
(* The steps, as the rest of the proofs needs them.                        *)

\* The command goes to another point, with the same pair.
Moves(pc) ==
    /\ cmd'.pc = pc /\ cmd'.actor = cmd.actor /\ cmd'.peer = cmd.peer
    /\ cmd'.decrypt = cmd.decrypt /\ cmd'.message = cmd.message
    /\ cmd.actor \in Participants /\ cmd.peer \in Participants

\* The record of p for q becomes r, and all others stay.
SetRecord(p, q, r) ==
    \A x, y \in Participants :
        sessions'[x][y] = IF x = p /\ y = q THEN r ELSE sessions[x][y]

\* An operation ends, a worker is dropped, or a participant is to be prepared.
Rests ==
    /\ UNCHANGED <<mode, pairs, services, prekeys, ratchets>>
    /\ cmd'.pc \in {"idle", "own"} /\ cmd'.tried \in {FALSE, cmd.tried}
    /\ cmd'.pc = "own" => cmd'.actor \notin dropped'
    /\ \/ /\ cmd.pc \in {"idle", "done"} /\ dropped' = dropped
          /\ active' \subseteq active \cup (IF cmd.pc = "done" THEN {cmd.actor} ELSE {})
       \/ \E w \in Failing : /\ dropped' = dropped \cup {w} /\ active' = active \ {w}
                             /\ mode.sweep \/ cmd.actor = cmd.peer

\* A pair starts.
Starts ==
    /\ UNCHANGED <<mode, active, dropped, services, prekeys, ratchets>> /\ pairs' = pairs + 1
    /\ cmd.pc = "idle" /\ cmd'.pc \in {"reset_actor", "establish"} /\ cmd'.tried = FALSE
    /\ cmd'.actor \in active /\ cmd'.peer \in active /\ cmd'.actor # cmd'.peer
    /\ cmd'.decrypt \/ ~mode.sweep
    /\ cmd'.pc = "reset_actor" => mode.external

\* Prekeys are made, or are known to suffice.
Prepares ==
    /\ UNCHANGED <<runner, services, ratchets>> /\ Moves(cmd'.pc)
    /\ cmd'.tried \in {FALSE, cmd.tried}
    /\ \/ cmd.pc = "own" /\ cmd'.pc = "initial" /\ store_own_prekeys(cmd.actor)
       \/ cmd.pc = "update" /\ cmd'.pc = "done" /\
          AboveWatermark(prekey_stock(prekey_bundles[cmd.peer])) /\ UNCHANGED prekeys
       \/ /\ cmd.pc \in {"initial", "update"} /\ cmd'.pc \in {"put", "exhausted"}
          /\ \E count \in Nat \ {0} : Generate(cmd.peer, count)

\* The command goes on, and nothing else changes.
GoesOn ==
    /\ UNCHANGED <<runner, services, prekeys, ratchets>> /\ Moves(cmd'.pc) /\ cmd'.tried = FALSE
    /\ \/ cmd.pc = "establish" /\ cmd'.pc = "encrypt" /\ sessions[cmd.actor][cmd.peer] # <<>>
       \/ cmd.pc = "encrypt" /\ cmd'.pc = "done" /\ mode.external /\ ~cmd.decrypt
       \/ cmd.pc = "consume" /\ cmd'.pc = "encrypt" /\ cmd.tried
       \/ cmd.pc \in {"put", "post"} /\ cmd'.pc = "given_up" /\ cmd.tried

\* A record is forgotten.
Forgets ==
    /\ UNCHANGED <<runner, services, prekeys, base_keys_seen, opened, started, accepted>>
    /\ Moves(cmd'.pc) /\ cmd'.tried = FALSE
    /\ \/ /\ cmd.pc = "reset_actor" /\ cmd'.pc = "reset_peer"
          /\ SetRecord(cmd.actor, cmd.peer, <<>>)
       \/ /\ cmd.pc = "reset_peer" /\ cmd'.pc = "establish"
          /\ SetRecord(cmd.peer, cmd.actor, <<>>)

\* A session is set up with the bundle at the front of the peer's queue.
Initiates ==
    LET bundle == prekey_bundles[cmd.peer][1]
    IN /\ UNCHANGED <<runner, services, prekeys, base_keys_seen, opened, accepted>>
       /\ cmd.pc = "establish" /\ Moves("consume") /\ cmd'.tried = FALSE
       /\ sessions[cmd.actor][cmd.peer] = <<>>
       /\ SetRecord(cmd.actor, cmd.peer, <<[base |-> pairs, bundle |-> bundle, n |-> 0]>>)
       /\ started' = started \cup {[owner |-> cmd.peer, bundle |-> bundle, base |-> pairs]}

\* A message is made with the current state.
Encrypts ==
    LET record == sessions[cmd.actor][cmd.peer]
        s == record[1]
    IN /\ UNCHANGED <<runner, services, prekeys, base_keys_seen, opened, started, accepted>>
       /\ cmd.pc = "encrypt" /\ record # <<>> /\ (cmd.decrypt \/ ~mode.external)
       /\ cmd.actor \in Participants /\ cmd.peer \in Participants
       /\ cmd'.pc = "post" /\ cmd'.actor = cmd.actor /\ cmd'.peer = cmd.peer
       /\ cmd'.decrypt = cmd.decrypt /\ cmd'.tried = FALSE
       /\ cmd'.message = [sender |-> cmd.actor, base |-> s.base, bundle |-> s.bundle, n |-> s.n]
       /\ SetRecord(cmd.actor, cmd.peer, [record EXCEPT ![1] = [s EXCEPT !.n = s.n + 1]])

\* A message is opened.
Decrypts(e) ==
    /\ UNCHANGED <<runner, prekey_bundles, next_message_id, late, lost>>
    /\ cmd.pc = "decrypt" /\ Moves("update") /\ cmd'.tried = FALSE
    /\ e \in Envelope /\ Pending # <<>> /\ e = Head(Pending)
    /\ Opens(cmd.peer, e.message) /\ message_decrypt(cmd.peer, e.message)
    /\ inboxes' = ack_message(inboxes, cmd.peer, e)

\* A message is not opened, or there is none.
Fails ==
    /\ UNCHANGED <<runner, services, prekeys, ratchets>>
    /\ cmd.pc = "decrypt" /\ cmd'.pc = "not_opened"
    /\ cmd.actor \in Participants /\ cmd.peer \in Participants
    /\ cmd'.actor = cmd.actor /\ cmd'.peer = cmd.peer /\ cmd'.tried = cmd.tried
    /\ \/ Pending = <<>>
       \/ /\ Pending # <<>> /\ ~Opens(cmd.peer, Head(Pending).message)
          /\ cmd'.message = Head(Pending).message

\* A request is executed that is answered, or that is late.
Executes(r) ==
    /\ UNCHANGED <<runner, lost, prekeys, ratchets>> /\ RequestOK(r) /\ Execute(r)
    /\ \/ /\ r = CurrentRequest /\ Requesting /\ Moves(Answered) /\ cmd'.tried = FALSE
          /\ late' = late
       \/ r \in late /\ late' = late \ {r} /\ cmd' = cmd

\* A request gets no answer.
Loses ==
    /\ UNCHANGED <<runner, prekey_bundles, inboxes, next_message_id, prekeys, ratchets>>
    /\ Requesting /\ Moves(cmd.pc) /\ cmd'.batch = cmd.batch
    /\ late' = late \cup {CurrentRequest} /\ lost' = lost + 1

Steps ==
    \/ Rests \/ Starts \/ Prepares \/ GoesOn \/ Forgets \/ Initiates \/ Encrypts \/ Fails \/ Loses
    \/ \E e : Decrypts(e)
    \/ \E r : Executes(r)
    \/ UNCHANGED vars
\* An assignment to one record.
LEMMA RecordSet ==
    ASSUME RatchetTypes, NEW p \in Participants, NEW q \in Participants, NEW r,
           sessions' = [sessions EXCEPT ![p] = [sessions[p] EXCEPT ![q] = r]]
    PROVE  SetRecord(p, q, r)
  BY Zenon DEF RatchetTypes, SetRecord

\* Every step is one of these.
LEMMA StepsHold == IInv /\ OfferInv /\ InSession /\ [Next]_vars => Steps
  \* Goto moves the command.
  <1>GotoMoves.
      ASSUME IInv, cmd.pc # "idle", NEW pc, Goto(pc)
      PROVE  Moves(pc) /\ cmd'.tried = FALSE /\ cmd'.batch = cmd.batch
    <2> USE <1>GotoMoves
    <2>1. cmd' = [pc |-> pc, actor |-> cmd.actor, peer |-> cmd.peer, decrypt |-> cmd.decrypt,
                  batch |-> cmd.batch, message |-> cmd.message, tried |-> FALSE]
      BY ZenonT(30) DEF IInv, CmdOK, Goto
    <2>2. cmd.actor \in Participants /\ cmd.peer \in Participants
      BY Zenon DEF IInv, CmdOK
    <2> QED
      BY Zenon, <2>1, <2>2 DEF Moves

  \* The runner's own steps.
  <1>RunnerSteps.
      ASSUME IInv, OfferInv, NEW p \in Participants, Enroll(p) \/ Deactivate(p) \/ Drop(p) \/ Finish
      PROVE  Rests
    <2> USE <1>RunnerSteps
    <2>1. Idle.pc = "idle" /\ Idle.tried = FALSE
      BY Zenon DEF Idle
    <2>2. CASE Enroll(p)
      <3>1. cmd' = [pc |-> "own", actor |-> p, peer |-> p, decrypt |-> FALSE,
                    batch |-> <<>>, message |-> NoMessage, tried |-> FALSE]
        BY ZenonT(30), <2>2 DEF Enroll, Idle
      <3>2. cmd'.pc = "own" /\ cmd'.tried = FALSE /\ cmd'.actor = p
        BY Zenon, <3>1
      <3>3. cmd'.actor \notin dropped /\ dropped' = dropped
        BY Zenon, <2>2, <3>2 DEF Enroll
      <3> QED
        BY Zenon, <2>2, <3>2, <3>3 DEF Enroll, Rests
    <2>3. CASE Deactivate(p)
      BY Zenon, <2>3 DEF Deactivate, Rests
    <2>4. CASE Drop(p)
      BY Zenon, <2>1, <2>4 DEF Drop, Rests
    <2>5. CASE Finish
      BY Zenon, <2>1, <2>5 DEF Finish, Rests
    <2> QED
      BY Zenon, <2>2, <2>3, <2>4, <2>5

  \* A pair of active participants starts.
  <1>StartSteps.
      ASSUME OfferInv, NEW a \in Participants, NEW b \in Participants, NEW fresh \in BOOLEAN,
             NEW decrypt \in BOOLEAN, StartPair(a, b, fresh, decrypt)
      PROVE  Starts
    <2> USE <1>StartSteps
    <2> DEFINE start == IF fresh THEN "reset_actor" ELSE "establish"
    <2>1. cmd' = [pc |-> start, actor |-> a, peer |-> b, decrypt |-> decrypt,
                  batch |-> <<>>, message |-> NoMessage, tried |-> FALSE]
      BY ZenonT(30) DEF StartPair, Idle
    <2>2. /\ UNCHANGED <<mode, active, dropped, services, prekeys, ratchets>>
          /\ pairs' = pairs + 1 /\ a # b /\ a \in active /\ b \in active /\ cmd.pc = "idle"
          /\ fresh => mode.external
          /\ decrypt \/ ~mode.sweep
      BY Zenon DEF StartPair
    <2>3. start \in {"reset_actor", "establish"} /\ (start = "reset_actor" => fresh)
      OBVIOUS
    <2> HIDE DEF start
    <2> QED
      BY Zenon, <2>1, <2>2, <2>3 DEF Starts

  \* Prekeys are made.
  <1>PrepareSteps.
      ASSUME IInv, OfferInv, PublishPrekeyBundle \/ GeneratePrekeyBundle \/ UpdateOneTimePrekeys
      PROVE  Prepares
    <2> USE <1>PrepareSteps
    <2>1. /\ cmd.pc \in {"own", "initial", "update"} /\ UNCHANGED <<runner, services, ratchets>>
          /\ cmd.pc # "idle" /\ cmd.actor \in Participants /\ cmd.peer \in Participants
      BY Zenon DEF PublishPrekeyBundle, GeneratePrekeyBundle, UpdateOneTimePrekeys, IInv, CmdOK
    <2>2. ASSUME NEW count \in Nat \ {0}, Generate(cmd.peer, count), cmd.pc \in {"initial", "update"}
          PROVE  Prepares
      <3>1. \/ cmd' = [cmd EXCEPT !.pc = "exhausted"]
            \/ \E batch : cmd' = [cmd EXCEPT !.pc = "put", !.tried = FALSE, !.batch = batch]
        BY Zenon, <2>2 DEF Generate
      <3>2. ASSUME NEW batch, cmd' = [cmd EXCEPT !.pc = "put", !.tried = FALSE, !.batch = batch]
            PROVE  Moves("put") /\ cmd'.tried = FALSE /\ cmd'.pc = "put"
        BY ZenonT(30), <2>1, <3>2 DEF IInv, CmdOK, Moves
      <3>3. ASSUME cmd' = [cmd EXCEPT !.pc = "exhausted"]
            PROVE  Moves("exhausted") /\ cmd'.tried = cmd.tried /\ cmd'.pc = "exhausted"
        BY ZenonT(30), <2>1, <3>3 DEF IInv, CmdOK, Moves
      <3>4. Moves(cmd'.pc) /\ cmd'.tried \in {FALSE, cmd.tried} /\ cmd'.pc \in {"put", "exhausted"}
        BY Zenon, <3>1, <3>2, <3>3
      <3> QED
        BY Zenon, <2>1, <2>2, <3>4 DEF Prepares
    <2>3. CASE PublishPrekeyBundle
      <3>1. Moves("initial") /\ cmd'.tried = FALSE /\ cmd'.pc = "initial" /\ cmd.pc = "own"
        BY Zenon, <2>1, <2>3, <1>GotoMoves DEF PublishPrekeyBundle, Moves
      <3>2. store_own_prekeys(cmd.actor)
        BY Zenon, <2>3 DEF PublishPrekeyBundle
      <3> QED
        BY Zenon, <2>1, <3>1, <3>2 DEF Prepares
    <2>4. CASE GeneratePrekeyBundle
      <3>1. cmd.pc = "initial" /\ cmd.actor = cmd.peer /\ Generate(cmd.peer, InitialCount)
        BY Zenon, <2>4 DEF GeneratePrekeyBundle, OfferInv, CommandOK
      <3> QED
        BY Zenon, <2>2, <3>1, SettingsAssumption
    <2>5. CASE UpdateOneTimePrekeys
      <3>1. CASE Generate(cmd.peer, RefillCount)
        BY Zenon, <2>2, <2>5, <3>1, SettingsAssumption DEF UpdateOneTimePrekeys
      <3>2. CASE /\ Goto("done") /\ UNCHANGED prekeys
                 /\ AboveWatermark(prekey_stock(prekey_bundles[cmd.peer]))
        <4>1. Moves("done") /\ cmd'.tried = FALSE /\ cmd'.pc = "done" /\ cmd.pc = "update"
          BY Zenon, <2>1, <2>5, <3>2, <1>GotoMoves DEF UpdateOneTimePrekeys, Moves
        <4> QED
          BY Zenon, <2>1, <3>2, <4>1 DEF Prepares
      <3> QED
        BY Zenon, <2>5, <3>1, <3>2 DEF UpdateOneTimePrekeys
    <2> QED
      BY Zenon, <2>3, <2>4, <2>5

  \* A record is forgotten.
  <1>ForgetSteps.
      ASSUME IInv, OfferInv, ResetSessions
      PROVE  Forgets
    <2> USE <1>ForgetSteps
    <2>1. /\ UNCHANGED <<runner, services, prekeys, base_keys_seen, opened, started, accepted>>
          /\ cmd.pc # "idle" /\ cmd.actor \in Participants /\ cmd.peer \in Participants
          /\ RatchetTypes
      BY Zenon DEF ResetSessions, IInv, CmdOK, OfferInv
    <2>2. CASE /\ cmd.pc = "reset_actor" /\ Goto("reset_peer")
               /\ sessions' = [sessions EXCEPT ![cmd.actor][cmd.peer] = <<>>]
      <3>1. Moves("reset_peer") /\ cmd'.tried = FALSE /\ cmd'.pc = "reset_peer"
        BY Zenon, <2>1, <2>2, <1>GotoMoves DEF Moves
      <3>2. SetRecord(cmd.actor, cmd.peer, <<>>)
        BY Zenon, <2>1, <2>2, RecordSet
      <3> QED
        BY Zenon, <2>1, <2>2, <3>1, <3>2 DEF Forgets
    <2>3. CASE /\ cmd.pc = "reset_peer" /\ Goto("establish")
               /\ sessions' = [sessions EXCEPT ![cmd.peer][cmd.actor] = <<>>]
      <3>1. Moves("establish") /\ cmd'.tried = FALSE /\ cmd'.pc = "establish"
        BY Zenon, <2>1, <2>3, <1>GotoMoves DEF Moves
      <3>2. SetRecord(cmd.peer, cmd.actor, <<>>)
        BY Zenon, <2>1, <2>3, RecordSet
      <3> QED
        BY Zenon, <2>1, <2>3, <3>1, <3>2 DEF Forgets
    <2> QED
      BY Zenon, <2>2, <2>3 DEF ResetSessions

  \* EstablishSessions finds a session or starts one.
  <1>EstablishSteps.
      ASSUME IInv, OfferInv, EstablishSessions
      PROVE  GoesOn \/ Initiates
    <2> USE <1>EstablishSteps
    <2> DEFINE queue == prekey_bundles[cmd.peer]
               record == sessions[cmd.actor][cmd.peer]
               state == [base |-> pairs, bundle |-> Head(queue), n |-> 0]
    <2>1. /\ cmd.actor \in Participants /\ cmd.peer \in Participants
          /\ cmd.pc = "establish" /\ cmd.pc # "idle" /\ cmd.peer \in active
          /\ UNCHANGED <<runner, services, prekeys, base_keys_seen, opened, accepted>>
          /\ RatchetTypes
      BY Zenon DEF EstablishSessions, IInv, CmdOK, OfferInv, CommandOK
    <2>2. queue \in Seq(Bundle) /\ queue # <<>>
      BY Zenon, <2>1 DEF OfferInv, Prepared, ServiceTypes
    <2>3. Head(queue) = queue[1]
      BY <2>2
    <2>4. CASE record # <<>> /\ Goto("encrypt") /\ UNCHANGED <<sessions, started>>
      <3>1. Moves("encrypt") /\ cmd'.tried = FALSE /\ cmd'.pc = "encrypt"
        BY Zenon, <2>1, <2>4, <1>GotoMoves DEF Moves
      <3> QED
        BY Zenon, <2>1, <2>4, <3>1 DEF GoesOn, ratchets
    <2>5. CASE /\ record = <<>>
               /\ sessions' = [sessions EXCEPT ![cmd.actor][cmd.peer] = promote_state(record, state)]
               /\ started' = started \cup
                    {[owner |-> cmd.peer, bundle |-> Head(queue), base |-> pairs]}
               /\ Goto("consume")
      <3>1. Moves("consume") /\ cmd'.tried = FALSE
        BY Zenon, <2>1, <2>5, <1>GotoMoves
      <3>2. promote_state(record, state) = <<state>>
        <4>1. ASSUME NEW s PROVE promote_state(<<>>, s) = <<s>>
          BY DEF promote_state
        <4> QED
          BY Zenon, <2>5, <4>1
      <3> HIDE DEF record, state, queue
      <3>3. SetRecord(cmd.actor, cmd.peer, <<state>>)
        BY Zenon, <2>1, <2>5, <3>2, RecordSet
      <3> QED
        BY Zenon, <2>1, <2>3, <2>5, <3>1, <3>3 DEF Initiates, queue, state, record
    <2> QED
      BY Zenon, <2>2, <2>4, <2>5 DEF EstablishSessions

  \* EncryptMessage makes a message, or has none to send.
  <1>EncryptSteps.
      ASSUME IInv, OfferInv, InSession, EncryptMessage
      PROVE  GoesOn \/ Encrypts
    <2> USE <1>EncryptSteps
    <2> DEFINE record == sessions[cmd.actor][cmd.peer]
               s == record[1]
               m == [sender |-> cmd.actor, base |-> s.base, bundle |-> s.bundle, n |-> s.n]
    <2>1. /\ cmd.actor \in Participants /\ cmd.peer \in Participants
          /\ cmd.pc = "encrypt" /\ cmd.pc # "idle" /\ record # <<>> /\ RatchetTypes
          /\ UNCHANGED <<runner, services, prekeys, base_keys_seen, opened, started, accepted>>
      BY Zenon DEF EncryptMessage, IInv, CmdOK, OfferInv, InSession
    <2>2. record \in Seq(SessionState)
      BY Zenon, <2>1 DEF RatchetTypes
    <2>3. Head(record) = s
      BY <2>1, <2>2
    <2>4. CASE mode.external /\ ~cmd.decrypt /\ Goto("done") /\ UNCHANGED sessions
      <3>1. Moves("done") /\ cmd'.tried = FALSE /\ cmd'.pc = "done"
        BY Zenon, <2>1, <2>4, <1>GotoMoves DEF Moves
      <3> QED
        BY Zenon, <2>1, <2>4, <3>1 DEF GoesOn, ratchets
    <2>5. CASE /\ cmd.decrypt \/ ~mode.external
               /\ sessions' = [sessions EXCEPT ![cmd.actor][cmd.peer][1].n = @ + 1]
               /\ cmd' = [cmd EXCEPT !.pc = "post", !.tried = FALSE,
                             !.message = [sender |-> cmd.actor, base |-> Head(record).base,
                                          bundle |-> Head(record).bundle, n |-> Head(record).n]]
      <3>1. cmd' = [pc |-> "post", actor |-> cmd.actor, peer |-> cmd.peer, decrypt |-> cmd.decrypt,
                    batch |-> cmd.batch, message |-> m, tried |-> FALSE]
        BY ZenonT(30), <2>3, <2>5 DEF IInv, CmdOK
      <3>2. sessions' = [sessions EXCEPT ![cmd.actor] = [sessions[cmd.actor] EXCEPT ![cmd.peer] =
                            [record EXCEPT ![1] = [s EXCEPT !.n = s.n + 1]]]]
        BY ZenonT(30), <2>5
      <3> HIDE DEF record, s
      <3>3. SetRecord(cmd.actor, cmd.peer, [record EXCEPT ![1] = [s EXCEPT !.n = s.n + 1]])
        BY Zenon, <2>1, <3>2, RecordSet
      <3>4. cmd.decrypt \/ ~mode.external
        BY Zenon, <2>5
      <3>5. /\ cmd'.pc = "post" /\ cmd'.actor = cmd.actor /\ cmd'.peer = cmd.peer
            /\ cmd'.decrypt = cmd.decrypt /\ cmd'.tried = FALSE /\ cmd'.message = m
        BY Zenon, <3>1
      <3> QED
        BY Zenon, <2>1, <3>3, <3>4, <3>5 DEF Encrypts, record, s
    <2> QED
      BY Zenon, <2>4, <2>5 DEF EncryptMessage

  \* DecryptMessage opens the message it gets, or the run ends.
  <1>DecryptSteps.
      ASSUME IInv, OfferInv, DecryptMessage
      PROVE  Fails \/ \E e : Decrypts(e)
    <2> USE <1>DecryptSteps
    <2>1. /\ cmd.actor \in Participants /\ cmd.peer \in Participants
          /\ cmd.pc = "decrypt" /\ cmd.pc # "idle" /\ ServiceTypes
          /\ UNCHANGED <<runner, prekey_bundles, next_message_id, late, lost>>
      BY Zenon DEF DecryptMessage, IInv, CmdOK, OfferInv
    <2>2. CASE Pending # <<>> /\ Opens(cmd.peer, Head(Pending).message)
      <3>1. Pending \in Seq(Envelope)
        BY Zenon, <2>1, PendingTypes
      <3>2. PICK e \in Envelope : e = Head(Pending)
        BY <2>2, <3>1
      <3>3. /\ message_decrypt(cmd.peer, e.message) /\ Goto("update")
            /\ inboxes' = ack_message(inboxes, cmd.peer, e)
        BY Zenon, <2>2, <3>2 DEF DecryptMessage
      <3>4. Moves("update") /\ cmd'.tried = FALSE
        BY Zenon, <2>1, <3>3, <1>GotoMoves
      <3>5. Decrypts(e)
        BY Zenon, <2>1, <2>2, <3>2, <3>3, <3>4 DEF Decrypts
      <3> QED
        BY Zenon, <3>5
    <2>3. CASE ~(Pending # <<>> /\ Opens(cmd.peer, Head(Pending).message))
      <3> DEFINE m == IF Pending = <<>> THEN NoMessage ELSE Head(Pending).message
      <3>1. /\ cmd' = [cmd EXCEPT !.pc = "not_opened", !.message = m]
            /\ UNCHANGED <<inboxes, prekeys, ratchets>>
        BY Zenon, <2>3 DEF DecryptMessage
      <3>2. cmd' = [pc |-> "not_opened", actor |-> cmd.actor, peer |-> cmd.peer,
                    decrypt |-> cmd.decrypt, batch |-> cmd.batch, message |-> m,
                    tried |-> cmd.tried]
        BY ZenonT(30), <3>1 DEF IInv, CmdOK
      <3>3. Pending # <<>> => m = Head(Pending).message
        BY Zenon
      <3> HIDE DEF m
      <3>4. UNCHANGED services
        BY Zenon, <2>1, <3>1 DEF services
      <3> QED
        BY Zenon, <2>1, <2>3, <3>1, <3>2, <3>3, <3>4 DEF Fails
    <2> QED
      BY Zenon, <2>2, <2>3

  \* The steps of a request.
  <1>RequestSteps.
      ASSUME IInv, OfferInv, Send \/ Lose \/ GiveUp \/ \E r \in late : RunLate(r)
      PROVE  GoesOn \/ Loses \/ \E r : Executes(r)
    <2> USE <1>RequestSteps
    <2>0. Requesting => cmd.pc # "idle" /\ cmd.pc \in {"put", "consume", "post"}
      BY Zenon DEF Requesting
    <2>1. CASE Send
      <3>1. Execute(CurrentRequest) /\ Requesting /\ UNCHANGED <<runner, late, lost, prekeys, ratchets>>
        BY Zenon, <2>1 DEF Send
      <3>2. RequestOK(CurrentRequest)
        BY Zenon, <3>1, CurrentOK
      <3>3. Moves(Answered) /\ cmd'.tried = FALSE
        BY Zenon, <2>0, <2>1, <3>1, <1>GotoMoves DEF Send
      <3>4. Executes(CurrentRequest)
        BY Zenon, <3>1, <3>2, <3>3 DEF Executes
      <3> QED
        BY Zenon, <3>4
    <2>2. CASE Lose
      <3>1. /\ Requesting /\ late' = late \cup {CurrentRequest} /\ lost' = lost + 1
            /\ UNCHANGED <<runner, prekey_bundles, inboxes, next_message_id, prekeys, ratchets>>
            /\ cmd' = [cmd EXCEPT !.tried = TRUE]
        BY Zenon, <2>2 DEF Lose
      <3>2. cmd' = [pc |-> cmd.pc, actor |-> cmd.actor, peer |-> cmd.peer, decrypt |-> cmd.decrypt,
                    batch |-> cmd.batch, message |-> cmd.message, tried |-> TRUE]
        BY ZenonT(30), <3>1 DEF IInv, CmdOK
      <3>3. cmd.actor \in Participants /\ cmd.peer \in Participants
        BY Zenon, <2>0, <3>1 DEF IInv, CmdOK
      <3>4. Moves(cmd.pc) /\ cmd'.batch = cmd.batch
        BY Zenon, <3>2, <3>3 DEF Moves
      <3> QED
        BY Zenon, <3>1, <3>4 DEF Loses
    <2>3. CASE GiveUp
      <3>1. PICK pc : /\ Goto(pc)
                      /\ \/ cmd.pc = "consume" /\ pc = "encrypt"
                         \/ cmd.pc \in {"put", "post"} /\ pc = "given_up"
        BY Zenon, <2>0, <2>3 DEF GiveUp, Answered
      <3>2. cmd.pc # "idle" /\ cmd.tried /\ UNCHANGED <<runner, services, prekeys, ratchets>>
        BY Zenon, <2>0, <2>3 DEF GiveUp
      <3>3. Moves(pc) /\ cmd'.tried = FALSE /\ cmd'.pc = pc
        BY Zenon, <3>1, <3>2, <1>GotoMoves DEF Moves
      <3> QED
        BY Zenon, <3>1, <3>2, <3>3 DEF GoesOn
    <2>4. CASE \E r \in late : RunLate(r)
      <3>1. PICK r \in late : RunLate(r)
        BY Zenon, <2>4
      <3>2. RequestOK(r)
        BY Zenon DEF RequestOK, OfferInv, ServiceTypes, Offered
      <3>3. Executes(r)
        BY Zenon, <3>1, <3>2 DEF RunLate, Executes
      <3> QED
        BY Zenon, <3>3
    <2> QED
      BY Zenon, <2>1, <2>2, <2>3, <2>4

  \* Every step is one of these.
  <1>Step.
      ASSUME IInv, OfferInv, InSession, [Next]_vars
      PROVE  Steps
    <2> USE <1>Step
    <2>1. CASE \E p \in Participants : Enroll(p) \/ Deactivate(p) \/ Drop(p)
      BY Zenon, <2>1, <1>RunnerSteps DEF Steps
    <2>2. CASE \E a, b \in Participants, fresh, decrypt \in BOOLEAN :
                   StartPair(a, b, fresh, decrypt)
      BY Zenon, <2>2, <1>StartSteps DEF Steps
    <2>3. CASE Finish
      <3>1. cmd.actor \in Participants
        BY Zenon, <2>3 DEF IInv, CmdOK, Finish
      <3> QED
        BY Zenon, <2>3, <3>1, <1>RunnerSteps DEF Steps
    <2>4. CASE PublishPrekeyBundle \/ GeneratePrekeyBundle \/ UpdateOneTimePrekeys
      BY Zenon, <2>4, <1>PrepareSteps DEF Steps
    <2>5. CASE ResetSessions \/ EstablishSessions \/ EncryptMessage \/ DecryptMessage
      BY Zenon, <2>5, <1>ForgetSteps, <1>EstablishSteps, <1>EncryptSteps, <1>DecryptSteps DEF Steps
    <2>6. CASE Send \/ Lose \/ GiveUp \/ \E r \in late : RunLate(r)
      BY Zenon, <2>6, <1>RequestSteps DEF Steps
    <2>7. CASE UNCHANGED vars
      BY Zenon, <2>7 DEF Steps
    <2> QED
      BY Zenon, <2>1, <2>2, <2>3, <2>4, <2>5, <2>6, <2>7 DEF Next

<1> QED
    BY Zenon, <1>Step

-----------------------------------------------------------------------------
(* The stock of one-time prekeys.                                          *)

HasOneTime(queue) == \E i \in 1..Len(queue) : is_one_time(queue[i])

\* The batch that is made has a one-time prekey for every new identifier, and the
\* last resort.
LEMMA GeneratedBatch ==
    ASSUME IInv, NEW p \in Participants, NEW count \in Nat \ {0},
           Generate(p, count), cmd'.pc = "put", NEW first, first = next_one_time_prekey_id[p]
    PROVE  /\ Len(cmd'.batch) = count + 1 /\ cmd'.batch[count + 1] = LastResort
           /\ \A i \in 1..count : cmd'.batch[i] = OneTime(first + i - 1)
  <1> DEFINE ones == [i \in 1..count |-> OneTime(first + i - 1)]
             batch == ones \o <<LastResort>>
             n == IF count <= Available(p) THEN count ELSE Available(p)
  <1>1. cmd' = IF n = count
               THEN [cmd EXCEPT !.pc = "put", !.tried = FALSE, !.batch = batch]
               ELSE [cmd EXCEPT !.pc = "exhausted"]
    BY Zenon DEF Generate
  <1> HIDE DEF n, batch
  <1>2. cmd'.batch = batch
    <2>1. CASE cmd' = [cmd EXCEPT !.pc = "put", !.tried = FALSE, !.batch = batch]
      BY ZenonT(30), <2>1 DEF IInv, CmdOK
    <2>2. CASE cmd' = [cmd EXCEPT !.pc = "exhausted"]
      <3>1. cmd'.pc = "exhausted"
        BY ZenonT(30), <2>2 DEF IInv, CmdOK
      <3> QED
        BY Zenon, <3>1
    <2> QED
      BY Zenon, <1>1, <2>1, <2>2
  <1>3. PICK S : LastResort \in S /\ \A i \in 1..count : OneTime(first + i - 1) \in S
    <2> DEFINE S == {LastResort} \cup {OneTime(first + i - 1) : i \in 1..count}
    <2>1. LastResort \in S /\ \A i \in 1..count : OneTime(first + i - 1) \in S
      BY Zenon
    <2> QED
      BY Zenon, <2>1
  <1>4. ones \in Seq(S) /\ Len(ones) = count
    BY <1>3
  <1>5. \A i \in 1..count : ones[i] = OneTime(first + i - 1)
    BY Zenon
  <1> HIDE DEF ones
  <1>6. batch = Append(ones, LastResort)
    BY <1>3, <1>4 DEF batch
  <1>7. /\ Len(batch) = count + 1 /\ batch[count + 1] = LastResort
        /\ \A i \in 1..count : batch[i] = ones[i]
    BY <1>3, <1>4, <1>6
  <1> QED
    BY Zenon, <1>2, <1>5, <1>7

\* What a request does to the queues.
LEMMA ExecuteQueues ==
    ASSUME OfferInv, NEW r, RequestOK(r), Execute(r)
    PROVE  /\ r.at \in Participants /\ r.op \in {"put", "consume", "post"}
           /\ \A p \in Participants : p # r.at \/ r.op = "post" => prekey_bundles'[p] = prekey_bundles[p]
           /\ r.op = "put" => prekey_bundles'[r.at] = publish_prekey_bundles(prekey_bundles[r.at], r.batch)
           /\ r.op = "consume" => prekey_bundles'[r.at] = consume_one_time_prekey(prekey_bundles[r.at])
  <1>1. r.at \in Participants /\ r.op \in {"put", "consume", "post"}
    BY Zenon DEF RequestOK, Request
  <1>2. PICK new : /\ prekey_bundles' = [prekey_bundles EXCEPT ![r.at] = new]
                   /\ r.op = "put" => new = publish_prekey_bundles(prekey_bundles[r.at], r.batch)
                   /\ r.op = "consume" => new = consume_one_time_prekey(prekey_bundles[r.at])
                   /\ r.op = "post" => new = prekey_bundles[r.at]
    BY Zenon, <1>1 DEF Execute
  <1>3. \A p \in Participants : prekey_bundles'[p] = IF p = r.at THEN new ELSE prekey_bundles[p]
    BY Zenon, <1>1, <1>2 DEF OfferInv, ServiceTypes
  <1> QED
    BY Zenon, <1>1, <1>2, <1>3

\* A request is late, or has been repeated, only when one got no answer.
Unlost == (lost = 0 => late = {}) /\ (cmd.tried => lost # 0)

\* In a resource sweep the peer opens every first message.
Decrypting ==
    mode.sweep /\ cmd.pc \in {"reset_actor", "reset_peer", "establish", "consume", "encrypt",
                              "post", "decrypt"} => cmd.decrypt

\* Every request was answered, and every worker is there.
Served == lost = 0 /\ dropped = {} /\ mode.sweep

\* Who has no one-time prekey on offer is about to get some.
Stocked ==
    Served =>
        /\ \A s \in started : s.bundle # LastResort
        /\ \A p \in active :
             \/ HasOneTime(prekey_bundles[p])
             \/ /\ p = cmd.peer
                /\ cmd.pc \in {"consume", "encrypt", "post", "decrypt", "update", "put"} \cup Ended
        /\ cmd.pc = "put" => HasOneTime(cmd.batch)
        /\ cmd.pc = "done" => HasOneTime(prekey_bundles[cmd.peer])

StockInv == Unlost /\ Decrypting /\ Stocked

\* Requests are repeated and late only after one got no answer.
LEMMA NextUnlost ==
    ASSUME OfferInv, Unlost, Steps
    PROVE  Unlost'
  <1>1. CASE UNCHANGED <<late, lost>> /\ cmd'.tried \in {FALSE, cmd.tried}
    BY Zenon, <1>1 DEF Unlost
  <1>2. CASE Loses
    <2>1. lost \in Nat /\ lost' = lost + 1
      BY Zenon, <1>2 DEF Loses, OfferInv, ServiceTypes
    <2>2. lost' # 0
      BY <2>1
    <2> QED
      BY Zenon, <2>2 DEF Unlost
  <1>3. ASSUME NEW r, Executes(r) PROVE Unlost'
    BY Zenon, <1>3 DEF Executes, Unlost
  <1>4. ASSUME NEW e, Decrypts(e) PROVE UNCHANGED <<late, lost>> /\ cmd'.tried \in {FALSE, cmd.tried}
    BY Zenon, <1>4 DEF Decrypts
  <1>5. CASE Rests \/ Starts \/ Prepares \/ GoesOn \/ Forgets
    BY Zenon, <1>1, <1>5 DEF Rests, Starts, Prepares, GoesOn, Forgets, services
  <1>6. CASE Initiates \/ Encrypts \/ Fails \/ UNCHANGED vars
    BY Zenon, <1>1, <1>6 DEF Initiates, Encrypts, Fails, vars, services
  <1> QED
    BY Zenon, <1>1, <1>2, <1>3, <1>4, <1>5, <1>6 DEF Steps

\* The pairs of a resource sweep keep their setting.
LEMMA NextDecrypting ==
    ASSUME Decrypting, Steps
    PROVE  Decrypting'
  <1>1. CASE Rests \/ Starts
    BY Zenon, <1>1 DEF Rests, Starts, Decrypting
  <1>2. CASE Prepares \/ GoesOn \/ Forgets \/ Initiates
    BY Zenon, <1>2 DEF Prepares, GoesOn, Forgets, Initiates, Decrypting, runner, Moves
  <1>3. CASE Encrypts \/ Fails \/ Loses \/ UNCHANGED vars
    BY Zenon, <1>3 DEF Encrypts, Fails, Loses, Decrypting, runner, Moves, vars
  <1>4. ASSUME NEW e, Decrypts(e) PROVE Decrypting'
    BY Zenon, <1>4 DEF Decrypts, Decrypting, Moves
  <1>5. ASSUME NEW r, Executes(r) PROVE Decrypting'
    <2>1. Requesting => cmd.pc \in {"consume", "post"} \/ Answered = "done"
      BY Zenon DEF Requesting, Answered
    <2> QED
      BY Zenon, <1>5, <2>1 DEF Executes, Decrypting, Moves, runner
  <1> QED
    BY Zenon, <1>1, <1>2, <1>3, <1>4, <1>5 DEF Steps

\* Every step keeps the participants stocked.
LEMMA NextStocked == IInv /\ OfferInv /\ StockInv /\ Steps => Stocked'
  \* Publishing keeps every one-time prekey of the queue and of the batch.
  <1>PublishKeeps.
      ASSUME NEW queue \in Seq(Bundle), NEW batch \in Seq(Bundle),
             HasOneTime(queue) \/ HasOneTime(batch),
             NEW new, new = publish_prekey_bundles(queue, batch)
      PROVE  HasOneTime(new)
    <2> USE <1>PublishKeeps
    <2> DEFINE all == queue \o batch
               one_time == {i \in DOMAIN all : is_one_time(all[i])}
               first == Kept(all, one_time)
               fallbacks == Kept(all, DOMAIN all \ one_time)
               last == IF fallbacks = <<>> THEN <<>> ELSE <<fallbacks[Len(fallbacks)]>>
    <2>1. new = first \o last
      BY Zenon DEF publish_prekey_bundles
    <2>2. /\ all \in Seq(Bundle) /\ DOMAIN all = 1..Len(all)
          /\ \A j \in 1..Len(queue) : j \in 1..Len(all) /\ all[j] = queue[j]
          /\ \A j \in 1..Len(batch) : Len(queue) + j \in 1..Len(all) /\ all[Len(queue) + j] = batch[j]
      OBVIOUS
    <2> HIDE DEF all
    <2>3. PICK l \in 1..Len(all) : is_one_time(all[l])
      BY Zenon, <2>2 DEF HasOneTime
    <2>4. l \in one_time
      BY Zenon, <2>2, <2>3
    <2> HIDE DEF one_time
    <2>5. Selects(first, all, one_time, Bundle)
      BY Zenon, <2>2, KeptElements
    <2>6. first \in Seq(Bundle) /\ \E k \in 1..Len(first) : first[k] = all[l]
      BY Zenon, <2>4, <2>5 DEF Selects
    <2> HIDE DEF first, fallbacks
    <2>7. PICK S : last \in Seq(S) /\ Bundle \subseteq S
      <3>1. PICK x : last = <<>> \/ last = <<x>>
        BY Zenon
      <3>2. PICK T : T = Bundle \cup {x}
        BY Zenon
      <3>3. <<>> \in Seq(T) /\ <<x>> \in Seq(T)
        BY <3>2
      <3> QED
        BY Zenon, <3>1, <3>2, <3>3
    <2> HIDE DEF last
    <2>8. \A k \in 1..Len(first) : k \in 1..Len(new) /\ new[k] = first[k]
      <3>1. first \in Seq(S)
        BY <2>6, <2>7
      <3> QED
        BY <2>1, <2>7, <3>1
    <2> QED
      BY Zenon, <2>3, <2>6, <2>8 DEF HasOneTime

  \* The empty set has no elements.
  <1>EmptyCardinality. Cardinality({}) = 0
    <2> DEFINE Counts(f) == f = [T \in SUBSET {} |-> IF T = {} THEN 0
                                                     ELSE 1 + f[T \ {CHOOSE x : x \in T}]]
               count == CHOOSE f : Counts(f)
    <2>1. Counts([T \in SUBSET {} |-> 0])
      <3>1. \A T \in SUBSET {} : T = {}
        OBVIOUS
      <3> QED
        BY <3>1
    <2>2. Counts(count)
      <3> HIDE DEF Counts
      <3> QED
        BY Zenon, <2>1
    <2>3. {} \in SUBSET {}
      OBVIOUS
    <2>4. count[{}] = 0
      <3> HIDE DEF count
      <3> QED
        BY Zenon, <2>2, <2>3
    <2> QED
      BY Zenon, <2>4 DEF Cardinality

  \* A stock above the watermark is not empty.
  <1>StockHasOneTime.
      ASSUME NEW queue \in Seq(Bundle), AboveWatermark(prekey_stock(queue))
      PROVE  HasOneTime(queue)
    <2> USE <1>StockHasOneTime
    <2> DEFINE ones == {i \in DOMAIN queue : is_one_time(queue[i])}
    <2>1. LowWatermark \in Nat /\ Cardinality({}) = 0
      BY SettingsAssumption, <1>EmptyCardinality
    <2>2. Cardinality(ones) > LowWatermark
      BY Zenon DEF AboveWatermark, prekey_stock
    <2>3. ones # {}
      <3> SUFFICES ASSUME ones = {} PROVE FALSE
        OBVIOUS
      <3>1. Cardinality(ones) = 0
        BY Zenon, <2>1
      <3> HIDE DEF ones
      <3> QED
        BY <2>1, <2>2, <3>1
    <2>4. DOMAIN queue = 1..Len(queue)
      OBVIOUS
    <2> QED
      BY Zenon, <2>3, <2>4 DEF HasOneTime

  \* With a one-time prekey in it, a queue has one at its front.
  <1>FrontIsOneTime.
      ASSUME NEW queue \in Seq(Bundle), QueueShape(queue), HasOneTime(queue)
      PROVE  is_one_time(queue[1]) /\ queue[1] # LastResort
    <2> USE <1>FrontIsOneTime
    <2>1. ~is_one_time(LastResort)
      BY Zenon DEF is_one_time, LastResort
    <2>2. PICK i \in 1..Len(queue) : is_one_time(queue[i])
      BY Zenon DEF HasOneTime
    <2>3. queue # <<>> /\ Len(queue) \in Nat
      BY <2>2
    <2>4. i # Len(queue)
      BY Zenon, <2>1, <2>2, <2>3 DEF QueueShape
    <2>5. 1 \in 1..(Len(queue) - 1)
      BY <2>3, <2>4
    <2> QED
      BY Zenon, <2>1, <2>3, <2>5 DEF QueueShape

  \* A request that is answered: a PUT stocks the peer, and a consume is followed
  \* by one.
  <1>SendStocked.
      ASSUME IInv, OfferInv, StockInv, Served, NEW r, RequestOK(r), Execute(r), r = CurrentRequest,
             Requesting, Moves(Answered), UNCHANGED <<runner, ratchets>>
      PROVE  Stocked'
    <2> USE <1>SendStocked
    <2>1. /\ r.op = cmd.pc /\ r.at = cmd.peer /\ r.at \in Participants
          /\ r.op = "put" => r.batch = cmd.batch
      BY Zenon DEF CurrentRequest, RequestOK, Request
    <2>2. UNCHANGED <<active, started>>
      BY Zenon DEF runner, ratchets
    <2>3. /\ \A p \in Participants : p # cmd.peer \/ cmd.pc = "post" => prekey_bundles'[p] = prekey_bundles[p]
          /\ cmd.pc = "put" => prekey_bundles'[cmd.peer] =
                                  publish_prekey_bundles(prekey_bundles[cmd.peer], cmd.batch)
      BY Zenon, <2>1, ExecuteQueues
    <2>4. \A p \in active : p \in Participants
      BY Zenon DEF OfferInv, RunnerTypes
    <2>5. CASE cmd.pc = "put"
      <3>1. cmd.batch \in Seq(Bundle) /\ prekey_bundles[cmd.peer] \in Seq(Bundle)
        BY Zenon, <2>1 DEF OfferInv, CommandOK, Command, ServiceTypes
      <3>2. HasOneTime(cmd.batch)
        BY Zenon, <2>5 DEF StockInv, Stocked
      <3>3. HasOneTime(prekey_bundles'[cmd.peer])
        BY Zenon, <2>3, <2>5, <3>1, <3>2, <1>PublishKeeps
      <3>4. cmd'.pc = "done" /\ cmd'.peer = cmd.peer
        BY Zenon, <2>5 DEF Answered, Moves
      <3>5. \A p \in active : HasOneTime(prekey_bundles'[p])
        BY Zenon, <2>3, <2>4, <3>3 DEF StockInv, Stocked
      <3> QED
        BY Zenon, <2>2, <3>3, <3>4, <3>5 DEF StockInv, Stocked, HasOneTime
    <2>6. CASE cmd.pc \in {"consume", "post"}
      <3>1. cmd'.pc \in {"encrypt", "decrypt"} /\ cmd'.peer = cmd.peer
        BY Zenon, <2>6 DEF Answered, Moves, StockInv, Decrypting, Served
      <3>2. ASSUME NEW p \in active, p # cmd.peer PROVE HasOneTime(prekey_bundles[p])'
        <4>1. prekey_bundles'[p] = prekey_bundles[p] /\ HasOneTime(prekey_bundles[p])
          BY Zenon, <2>3, <2>4, <3>2 DEF StockInv, Stocked
        <4> QED
          BY Zenon, <4>1 DEF HasOneTime
      <3> QED
        BY Zenon, <2>2, <3>1, <3>2 DEF StockInv, Stocked
    <2> QED
      BY Zenon, <2>5, <2>6 DEF Requesting

  \* The queues stay, and so do the sessions started.
  <1>QuietStocked.
      ASSUME StockInv, Served, UNCHANGED <<prekey_bundles, started>>,
             \A p \in active' : \/ p \in active /\ p # cmd.peer
                                \/ HasOneTime(prekey_bundles[p])
                                \/ /\ p = cmd'.peer
                                   /\ cmd'.pc \in {"consume", "encrypt", "post", "decrypt", "update",
                                                   "put"} \cup Ended,
             cmd'.pc = "put" => HasOneTime(cmd'.batch),
             cmd'.pc = "done" => HasOneTime(prekey_bundles[cmd'.peer])
      PROVE  Stocked'
    <2> USE <1>QuietStocked
    <2>1. \A p \in active : p # cmd.peer => HasOneTime(prekey_bundles[p])
      BY Zenon DEF StockInv, Stocked
    <2>2. \A p \in active' : \/ HasOneTime(prekey_bundles'[p])
                             \/ /\ p = cmd'.peer
                                /\ cmd'.pc \in {"consume", "encrypt", "post", "decrypt", "update",
                                                "put"} \cup Ended
      BY Zenon, <2>1
    <2>3. \A s \in started' : s.bundle # LastResort
      BY Zenon DEF StockInv, Stocked
    <2> QED
      BY Zenon, <2>2, <2>3 DEF Stocked, HasOneTime

  \* Every step keeps the participants stocked.
  <1>Step.
      ASSUME IInv, OfferInv, StockInv, Steps
      PROVE  Stocked'
    <2> USE <1>Step
    <2> SUFFICES ASSUME Served' PROVE Stocked'
      BY Zenon DEF Stocked
    <2>0. \A p \in active : /\ p \in Participants
                           /\ prekey_bundles[p] \in Seq(Bundle) /\ QueueShape(prekey_bundles[p])
      BY Zenon DEF OfferInv, RunnerTypes, ServiceTypes, Offered
    <2>1. CASE Rests
      <3>1. UNCHANGED <<mode, lost, prekey_bundles, started>> /\ cmd'.pc \notin {"put", "done"}
        BY Zenon, <2>1 DEF Rests, services, ratchets
      <3>2. /\ cmd.pc \in {"idle", "done"} /\ dropped' = dropped
            /\ active' \subseteq active \cup (IF cmd.pc = "done" THEN {cmd.actor} ELSE {})
        BY Zenon, <2>1 DEF Rests, Served
      <3>3. Served
        BY Zenon, <3>1, <3>2 DEF Served
      <3>4. \A p \in active : HasOneTime(prekey_bundles[p])
        BY Zenon, <3>2, <3>3 DEF StockInv, Stocked, Ended
      <3>5. cmd.pc = "done" => HasOneTime(prekey_bundles[cmd.actor])
        BY Zenon, <3>3, <3>4 DEF StockInv, Stocked, OfferInv, CommandOK
      <3>6. \A p \in active' : HasOneTime(prekey_bundles[p])
        BY Zenon, <3>2, <3>4, <3>5
      <3> QED
        BY Zenon, <3>1, <3>3, <3>6, <1>QuietStocked
    <2>2. CASE Starts
      <3>1. /\ UNCHANGED <<mode, lost, dropped, active, prekey_bundles, started>>
            /\ cmd'.pc \notin {"put", "done"} /\ cmd.pc = "idle"
        BY Zenon, <2>2 DEF Starts, services, ratchets
      <3>2. Served
        BY Zenon, <3>1 DEF Served
      <3>3. \A p \in active : HasOneTime(prekey_bundles[p])
        BY Zenon, <3>1, <3>2 DEF StockInv, Stocked, Ended
      <3> QED
        BY Zenon, <3>1, <3>2, <3>3, <1>QuietStocked
    <2>3. CASE Prepares
      <3>1. /\ UNCHANGED <<mode, lost, dropped, active, prekey_bundles, started>> /\ cmd'.peer = cmd.peer
            /\ cmd.peer \in Participants
        BY Zenon, <2>3 DEF Prepares, runner, services, ratchets, Moves
      <3>2. Served
        BY Zenon, <3>1 DEF Served
      <3>3. CASE cmd.pc = "own" /\ cmd'.pc = "initial"
        <4>1. \A p \in active : HasOneTime(prekey_bundles[p])
          BY Zenon, <3>2, <3>3 DEF StockInv, Stocked, Ended
        <4> QED
          BY Zenon, <3>1, <3>2, <3>3, <4>1, <1>QuietStocked
      <3>4. CASE cmd'.pc = "done" /\ AboveWatermark(prekey_stock(prekey_bundles[cmd.peer]))
        <4>1. prekey_bundles[cmd.peer] \in Seq(Bundle)
          BY Zenon, <3>1 DEF OfferInv, ServiceTypes
        <4>2. HasOneTime(prekey_bundles[cmd.peer])
          BY Zenon, <3>4, <4>1, <1>StockHasOneTime
        <4> QED
          BY Zenon, <3>1, <3>2, <3>4, <4>2, <1>QuietStocked
      <3>5. CASE cmd'.pc = "put" /\ \E count \in Nat \ {0} : Generate(cmd.peer, count)
        <4>1. PICK count \in Nat \ {0} : Generate(cmd.peer, count)
          BY Zenon, <3>5
        <4>2. PICK first, b : first = next_one_time_prekey_id[cmd.peer] /\ b = cmd'.batch
          BY Zenon
        <4>3. /\ Len(b) = count + 1
              /\ \A i \in 1..count : b[i] = OneTime(first + i - 1)
          <5>1. /\ Len(cmd'.batch) = count + 1
                /\ \A i \in 1..count : cmd'.batch[i] = OneTime(first + i - 1)
            BY Zenon, <3>1, <3>5, <4>1, <4>2, GeneratedBatch
          <5> QED
            BY Zenon, <4>2, <5>1
        <4>4. 1 \in 1..count /\ 1 \in 1..Len(b)
          BY <4>3
        <4>5. is_one_time(b[1])
          <5>1. \A x : is_one_time(OneTime(x))
            BY Zenon DEF OneTime, is_one_time
          <5>2. \E x : b[1] = OneTime(x)
            BY Zenon, <4>3, <4>4
          <5> QED
            BY Zenon, <5>1, <5>2
        <4>6. HasOneTime(cmd'.batch)
          BY Zenon, <4>2, <4>4, <4>5 DEF HasOneTime
        <4> QED
          BY Zenon, <3>1, <3>2, <3>5, <4>6, <1>QuietStocked
      <3>6. CASE cmd'.pc = "exhausted"
        BY Zenon, <3>1, <3>2, <3>6, <1>QuietStocked DEF Ended
      <3> QED
        BY Zenon, <2>3, <3>3, <3>4, <3>5, <3>6 DEF Prepares
    <2>4. CASE GoesOn
      <3>1. UNCHANGED <<mode, lost, dropped, active, prekey_bundles, started>> /\ cmd'.peer = cmd.peer
        BY Zenon, <2>4 DEF GoesOn, runner, services, ratchets, Moves
      <3>2. Served
        BY Zenon, <3>1 DEF Served
      <3>3. cmd'.pc = "encrypt"
        BY Zenon, <2>4, <3>2 DEF GoesOn, StockInv, Unlost, Decrypting, Served
      <3> QED
        BY Zenon, <3>1, <3>2, <3>3, <1>QuietStocked
    <2>5. CASE Forgets
      <3>1. /\ UNCHANGED <<mode, lost, dropped, active, prekey_bundles, started>>
            /\ cmd.pc \in {"reset_actor", "reset_peer"} /\ cmd'.pc \notin {"put", "done"}
        BY Zenon, <2>5 DEF Forgets, runner, services
      <3>2. Served
        BY Zenon, <3>1 DEF Served
      <3>3. \A p \in active : HasOneTime(prekey_bundles[p])
        BY Zenon, <3>1, <3>2 DEF StockInv, Stocked, Ended
      <3> QED
        BY Zenon, <3>1, <3>2, <3>3, <1>QuietStocked
    <2>6. CASE Initiates
      <3>1. /\ UNCHANGED <<mode, lost, dropped, active, prekey_bundles>> /\ cmd.pc = "establish"
            /\ cmd'.pc = "consume" /\ cmd.actor # cmd.peer
            /\ started' = started \cup
                 {[owner |-> cmd.peer, bundle |-> prekey_bundles[cmd.peer][1], base |-> pairs]}
        BY Zenon, <2>6 DEF Initiates, runner, services, Moves, OfferInv, CommandOK
      <3>2. Served
        BY Zenon, <3>1 DEF Served
      <3>3. \A p \in active : HasOneTime(prekey_bundles[p])
        BY Zenon, <3>1, <3>2 DEF StockInv, Stocked, Ended
      <3>4. cmd.peer \in active
        BY Zenon, <3>1 DEF OfferInv, CommandOK
      <3>5. prekey_bundles[cmd.peer][1] # LastResort
        BY Zenon, <2>0, <3>3, <3>4, <1>FrontIsOneTime
      <3>6. \A s \in started' : s.bundle # LastResort
        <4>1. PICK new : new.bundle # LastResort /\ started' = started \cup {new}
          BY Zenon, <3>1, <3>5
        <4> QED
          BY Zenon, <3>2, <4>1 DEF StockInv, Stocked
      <3> QED
        BY Zenon, <3>1, <3>3, <3>6 DEF Stocked, HasOneTime
    <2>7. CASE Encrypts \/ Fails
      <3>1. /\ UNCHANGED <<mode, lost, dropped, active, prekey_bundles, started>> /\ cmd'.peer = cmd.peer
            /\ cmd'.pc \in {"post", "not_opened"}
        <4>1. CASE Encrypts
          BY Zenon, <4>1 DEF Encrypts, runner, services
        <4>2. CASE Fails
          BY Zenon, <4>2 DEF Fails, runner, services, ratchets
        <4> QED
          BY Zenon, <2>7, <4>1, <4>2
      <3>2. Served
        BY Zenon, <3>1 DEF Served
      <3> QED
        BY Zenon, <3>1, <3>2, <1>QuietStocked DEF Ended
    <2>8. ASSUME NEW e, Decrypts(e) PROVE Stocked'
      <3>1. /\ UNCHANGED <<mode, lost, dropped, active, prekey_bundles, started>> /\ cmd'.peer = cmd.peer
            /\ cmd'.pc = "update"
        BY Zenon, <2>8 DEF Decrypts, runner, message_decrypt, Moves
      <3>2. Served
        BY Zenon, <3>1 DEF Served
      <3> QED
        BY Zenon, <3>1, <3>2, <1>QuietStocked
    <2>9. CASE Loses
      <3>1. lost \in Nat /\ lost' = lost + 1 /\ lost' = 0
        BY Zenon, <2>9 DEF Loses, OfferInv, ServiceTypes, Served
      <3> QED
        BY <3>1
    <2>10. ASSUME NEW r, Executes(r) PROVE Stocked'
      <3>1. UNCHANGED <<mode, lost, dropped>> /\ RequestOK(r) /\ Execute(r)
        BY Zenon, <2>10 DEF Executes, runner
      <3>2. Served
        BY Zenon, <3>1 DEF Served
      <3>3. r = CurrentRequest /\ Requesting /\ Moves(Answered) /\ UNCHANGED <<runner, ratchets>>
        BY Zenon, <2>10, <3>2 DEF Executes, StockInv, Unlost, Served
      <3> QED
        BY Zenon, <3>1, <3>2, <3>3, <1>SendStocked
    <2>11. CASE UNCHANGED vars
      BY Zenon, <2>11 DEF vars, runner, services, ratchets, StockInv, Stocked, Served, HasOneTime
    <2> QED
      BY Zenon, <2>1, <2>2, <2>3, <2>4, <2>5, <2>6, <2>7, <2>8, <2>9, <2>10, <2>11 DEF Steps

<1> QED
    BY Zenon, <1>Step

\* All the invariants so far.
BaseInv == IInv /\ OfferInv /\ InSession /\ StockInv

\* The participants stay stocked in every run.
THEOREM BaseInvHolds == Spec => []BaseInv
  <1>1. Init => BaseInv
    <2> SUFFICES ASSUME Init PROVE BaseInv
      OBVIOUS
    <2>1. Idle.pc = "idle" /\ Idle.tried = FALSE
      BY Zenon DEF Idle
    <2>2. StockInv
      BY Zenon, <2>1 DEF Init, StockInv, Unlost, Decrypting, Stocked
    <2> QED
      BY Zenon, <2>2, InitIInv, InitOffer DEF BaseInv
  <1>2. BaseInv /\ [Next]_vars => BaseInv'
    <2> SUFFICES ASSUME BaseInv, [Next]_vars PROVE BaseInv'
      OBVIOUS
    <2>1. Steps
      BY Zenon, StepsHold DEF BaseInv
    <2>2. IInv' /\ OfferInv' /\ InSession'
      BY Zenon, NextIInv, NextOffer, NextInSession DEF BaseInv
    <2>3. StockInv'
      BY Zenon, <2>1, NextUnlost, NextDecrypting, NextStocked DEF BaseInv, StockInv
    <2> QED
      BY Zenon, <2>2, <2>3 DEF BaseInv
  <1> QED
    BY <1>1, <1>2, PTL DEF Spec

\* As long as all requests are answered, no worker is dropped and the peer opens
\* each first message, no session is set up with the last resort: whoever's
\* one-time prekey was consumed is refilled by UpdateOneTimePrekeys before the next
\* pair starts.
THEOREM LastResortUnusedHolds == Spec => []LastResortUnused
  <1>1. BaseInv => LastResortUnused
    BY Zenon DEF BaseInv, StockInv, Stocked, Served, LastResortUnused
  <1> QED
    BY <1>1, BaseInvHolds, PTL
-----------------------------------------------------------------------------
(* Session records.                                                        *)

\* A base key has one state in a record.
Distinct(record) ==
    \A i, j \in 1..Len(record) : record[i].base = record[j].base => i = j

\* A record after a message of that base key was opened: its state is the current
\* one, and acknowledged; the others stay.
Received(new, record, base) ==
    /\ new \in Seq(SessionState) /\ new # <<>>
    /\ new[1].base = base /\ new[1].bundle = NoBundle
    /\ Bases(new) = Bases(record) \cup {base}
    /\ Distinct(new)
    /\ \A i \in 1..Len(new) :
         \/ \E j \in 1..Len(record) : new[i].base = record[j].base /\ new[i].n = record[j].n
         \/ new[i].base = base /\ base \notin Bases(record)

\* The base keys of a record.
LEMMA BasesAre ==
    ASSUME NEW record \in Seq(SessionState)
    PROVE  /\ \A b : b \in Bases(record) <=> \E i \in 1..Len(record) : record[i].base = b
           /\ record # <<>> => 1 \in 1..Len(record) /\ record[1] \in SessionState
           /\ record # <<>> => record[1].base \in Bases(record)
  <1>1. DOMAIN record = 1..Len(record)
    OBVIOUS
  <1>2. \A b : b \in Bases(record) <=> \E i \in 1..Len(record) : record[i].base = b
    BY Zenon, <1>1 DEF Bases
  <1>3. record # <<>> => 1 \in 1..Len(record) /\ record[1] \in SessionState
    OBVIOUS
  <1> QED
    BY Zenon, <1>2, <1>3

\* The state before the others, which keep their base keys and their numbers.
Archives(new, record, state) ==
    /\ new \in Seq(SessionState) /\ Len(new) = Len(record) + 1 /\ new[1] = state
    /\ \A i \in 1..Len(record) : new[i + 1].base = record[i].base /\ new[i + 1].n = record[i].n

\* A record without one of its states.
Without(kept, record, i) ==
    /\ kept \in Seq(SessionState) /\ Distinct(kept)
    /\ \A k \in 1..Len(kept) : \E j \in 1..Len(record) : j # i /\ kept[k] = record[j]
    /\ \A j \in 1..Len(record) : j # i => \E k \in 1..Len(kept) : kept[k] = record[j]

\* What opening a message does to the ratchets.
Receives(p, m, new) ==
    /\ SetRecord(p, m.sender, new) /\ Received(new, sessions[p][m.sender], m.base)
    /\ \A q \in Participants : base_keys_seen'[q] = base_keys_seen[q] \cup
          (IF q = p /\ m.base \notin Bases(sessions[p][m.sender]) THEN {m.base} ELSE {})
    /\ \A q \in Participants : opened'[q] = opened[q] \cup (IF q = p THEN {m} ELSE {})
    /\ accepted' = accepted \cup
          (IF m.base \in Bases(sessions[p][m.sender]) THEN {}
           ELSE {[owner |-> p, bundle |-> m.bundle, base |-> m.base]})
    /\ started' = started

\* message_decrypt does that.
LEMMA DecryptReceives ==
    \A p \in Participants : \A m \in Message :
        RatchetTypes /\ message_decrypt(p, m) /\ Distinct(sessions[p][m.sender])
            => \E new : Receives(p, m, new)
  \* An archived state keeps its base key and its number of messages.
  <1>ForgetBundle.
      ASSUME NEW s \in SessionState
      PROVE  /\ [s EXCEPT !.bundle = NoBundle] \in SessionState
             /\ [s EXCEPT !.bundle = NoBundle].base = s.base
             /\ [s EXCEPT !.bundle = NoBundle].n = s.n
             /\ [s EXCEPT !.bundle = NoBundle].bundle = NoBundle
    BY Zenon, <1>ForgetBundle DEF SessionState

  \* promote_state puts the state before the others.
  <1>PromoteStates.
      ASSUME NEW record \in Seq(SessionState), NEW state \in SessionState
      PROVE  Archives(promote_state(record, state), record, state)
    <2> USE <1>PromoteStates
    <2> DEFINE archived == [i \in DOMAIN record |->
                              IF i = 1 THEN [record[1] EXCEPT !.bundle = NoBundle] ELSE record[i]]
    <2>1. DOMAIN record = 1..Len(record) /\ Len(record) \in Nat
      OBVIOUS
    <2>2. \A i \in 1..Len(record) : record[i] \in SessionState
      OBVIOUS
    <2>3. \A i \in 1..Len(record) : /\ archived[i] \in SessionState
                                    /\ archived[i].base = record[i].base
                                    /\ archived[i].n = record[i].n
      BY Zenon, <2>1, <2>2, <1>ForgetBundle
    <2>4. archived \in Seq(SessionState) /\ Len(archived) = Len(record)
      <3>1. \A i \in 1..Len(record) : archived[i] \in SessionState
        BY Zenon, <2>3
      <3> QED
        BY <2>1, <3>1
    <2>5. PICK new : new = promote_state(record, state) /\ new = <<state>> \o archived
      BY Zenon DEF promote_state
    <2> HIDE DEF archived
    <2>6. /\ new \in Seq(SessionState) /\ Len(new) = Len(record) + 1 /\ new[1] = state
          /\ \A i \in 1..Len(record) : new[i + 1] = archived[i]
      BY <2>1, <2>4, <2>5
    <2> QED
      BY Zenon, <2>3, <2>5, <2>6 DEF Archives

  \* A state that was not on record is received.
  <1>PromoteReceived.
      ASSUME NEW record \in Seq(SessionState), NEW state \in SessionState, NEW base,
             state.base = base, state.bundle = NoBundle, base \notin Bases(record), Distinct(record)
      PROVE  Received(promote_state(record, state), record, base)
    <2> USE <1>PromoteReceived
    <2>0. PICK new : new = promote_state(record, state)
      BY Zenon
    <2>1. /\ new \in Seq(SessionState) /\ Len(new) = Len(record) + 1 /\ new[1] = state
          /\ \A i \in 1..Len(record) :
               new[i + 1].base = record[i].base /\ new[i + 1].n = record[i].n
      BY Zenon, <2>0, <1>PromoteStates DEF Archives
    <2>2. Len(record) \in Nat /\ new # <<>>
      BY <2>1
    <2>3. \A i \in 1..Len(new) : i = 1 \/ \E j \in 1..Len(record) : i = j + 1
      <3> TAKE i \in 1..Len(new)
      <3>1. i # 1 => i - 1 \in 1..Len(record) /\ i = (i - 1) + 1
        BY <2>1, <2>2
      <3> QED
        BY Zenon, <3>1
    <2>4. /\ 1 \in 1..Len(new)
          /\ \A j \in 1..Len(record) : j + 1 \in 1..Len(new)
      BY <2>1, <2>2
    <2>5. /\ \A b : b \in Bases(record) <=> \E i \in 1..Len(record) : record[i].base = b
          /\ \A b : b \in Bases(new) <=> \E i \in 1..Len(new) : new[i].base = b
          /\ new[1].base = base
      <3>1. \A b : b \in Bases(record) <=> \E i \in 1..Len(record) : record[i].base = b
        BY Zenon, BasesAre
      <3>2. new \in Seq(SessionState)
        BY Zenon, <2>1
      <3>3. \A b : b \in Bases(new) <=> \E i \in 1..Len(new) : new[i].base = b
        BY Zenon, <3>2, BasesAre
      <3> QED
        BY Zenon, <2>1, <3>1, <3>3
    <2>6. Bases(new) = Bases(record) \cup {base}
      <3>1. ASSUME NEW b \in Bases(new), b # base PROVE b \in Bases(record)
        <4>1. PICK i \in 1..Len(new) : new[i].base = b
          BY Zenon, <2>5
        <4>2. PICK j \in 1..Len(record) : i = j + 1
          BY Zenon, <2>3, <2>5, <3>1, <4>1
        <4>3. record[j].base = b
          BY Zenon, <2>1, <4>1, <4>2
        <4> QED
          BY Zenon, <2>5, <4>3
      <3>2. \A b : b \in Bases(record) => b \in Bases(new)
        BY Zenon, <2>1, <2>4, <2>5
      <3>3. base \in Bases(new)
        BY Zenon, <2>4, <2>5
      <3> QED
        BY Zenon, <3>1, <3>2, <3>3
    <2>7. Distinct(new)
      <3> SUFFICES ASSUME NEW i \in 1..Len(new), NEW j \in 1..Len(new),
                          new[i].base = new[j].base
                   PROVE  i = j
        BY Zenon DEF Distinct
      <3>1. \A k \in 1..Len(record) : new[k + 1].base # base
        BY Zenon, <2>1, <2>5
      <3>2. CASE i = 1 \/ j = 1
        <4>1. new[i].base = base /\ new[j].base = base
          BY Zenon, <2>5, <3>2
        <4> QED
          BY Zenon, <2>3, <3>1, <4>1
      <3>3. CASE i # 1 /\ j # 1
        <4>1. PICK k \in 1..Len(record), l \in 1..Len(record) : i = k + 1 /\ j = l + 1
          BY Zenon, <2>3, <3>3
        <4>2. record[k].base = record[l].base
          BY Zenon, <2>1, <4>1
        <4> QED
          BY Zenon, <4>1, <4>2 DEF Distinct
      <3> QED
        BY Zenon, <3>2, <3>3
    <2>8. \A i \in 1..Len(new) :
           \/ \E j \in 1..Len(record) : new[i].base = record[j].base /\ new[i].n = record[j].n
           \/ new[i].base = base /\ base \notin Bases(record)
      BY Zenon, <2>1, <2>3
    <2> QED
      BY Zenon, <2>0, <2>1, <2>2, <2>5, <2>6, <2>7, <2>8 DEF Received

  \* Kept leaves the other states.
  <1>KeptStates.
      ASSUME NEW record \in Seq(SessionState), Distinct(record), NEW i \in 1..Len(record)
      PROVE  Without(Kept(record, DOMAIN record \ {i}), record, i)
    <2> USE <1>KeptStates
    <2>0. PICK kept : kept = Kept(record, DOMAIN record \ {i})
      BY Zenon
    <2>1. DOMAIN record = 1..Len(record)
      OBVIOUS
    <2>2. Selects(kept, record, DOMAIN record \ {i}, SessionState)
      BY Zenon, <2>0, KeptElements
    <2>3. /\ kept \in Seq(SessionState)
          /\ \A k \in 1..Len(kept) : \E j \in 1..Len(record) : j # i /\ kept[k] = record[j]
          /\ \A j \in 1..Len(record) : j # i => \E k \in 1..Len(kept) : kept[k] = record[j]
      BY Zenon, <2>1, <2>2 DEF Selects
    <2>4. IsInjective(record)
      BY Zenon, <2>1 DEF IsInjective, Distinct
    <2>5. IsInjective(kept)
      BY Zenon, <2>0, <2>4, KeptInjective
    <2>6. DOMAIN kept = 1..Len(kept)
      BY <2>3
    <2>7. Distinct(kept)
      <3> SUFFICES ASSUME NEW k \in 1..Len(kept), NEW l \in 1..Len(kept), kept[k].base = kept[l].base
                   PROVE  k = l
        BY Zenon DEF Distinct
      <3>1. PICK a \in 1..Len(record), b \in 1..Len(record) : kept[k] = record[a] /\ kept[l] = record[b]
        BY Zenon, <2>3
      <3>2. kept[k] = kept[l]
        BY Zenon, <3>1 DEF Distinct
      <3> QED
        BY Zenon, <2>5, <2>6, <3>2 DEF IsInjective
    <2> QED
      BY Zenon, <2>0, <2>3, <2>7 DEF Without

  \* A state on record is received.
  <1>PromotedReceived.
      ASSUME NEW record \in Seq(SessionState), NEW base, base \in Bases(record), Distinct(record)
      PROVE  Received(Promoted(record, base), record, base)
    <2> USE <1>PromotedReceived
    <2> DEFINE i == CHOOSE j \in DOMAIN record : record[j].base = base
               state == [record[i] EXCEPT !.bundle = NoBundle]
               kept == Kept(record, DOMAIN record \ {i})
    <2>1. DOMAIN record = 1..Len(record)
      OBVIOUS
    <2>2. i \in 1..Len(record) /\ record[i].base = base
      BY Zenon, <2>1 DEF Bases
    <2>3. record[i] \in SessionState
      BY <2>2
    <2>4. state \in SessionState /\ state.base = base /\ state.n = record[i].n /\ state.bundle = NoBundle
      BY Zenon, <2>2, <2>3, <1>ForgetBundle
    <2>5. Promoted(record, base) = IF i = 1 THEN [record EXCEPT ![1] = state] ELSE promote_state(kept, state)
      BY Zenon DEF Promoted
    <2>6. /\ kept \in Seq(SessionState) /\ Distinct(kept)
          /\ \A k \in 1..Len(kept) : \E j \in 1..Len(record) : j # i /\ kept[k] = record[j]
          /\ \A j \in 1..Len(record) : j # i => \E k \in 1..Len(kept) : kept[k] = record[j]
      BY Zenon, <2>2, <1>KeptStates DEF Without
    <2>7. \A b : b \in Bases(record) <=> \E j \in 1..Len(record) : record[j].base = b
      BY Zenon, BasesAre
    <2> HIDE DEF i, state, kept
    <2>8. PICK new : new = Promoted(record, base)
      BY Zenon
    <2>9. CASE i = 1
      <3>1. new = [record EXCEPT ![1] = state]
        BY Zenon, <2>5, <2>8, <2>9
      <3>2. new \in Seq(SessionState) /\ Len(new) = Len(record) /\ new # <<>>
        BY <2>2, <2>4, <2>9, <3>1
      <3>3. \A j \in 1..Len(record) : new[j] = IF j = 1 THEN state ELSE record[j]
        BY Zenon, <2>1, <3>1
      <3>4. \A j \in 1..Len(record) : new[j].base = record[j].base /\ new[j].n = record[j].n
        BY Zenon, <2>2, <2>4, <2>9, <3>3
      <3>5. \A b : b \in Bases(new) <=> \E j \in 1..Len(new) : new[j].base = b
        BY Zenon, <3>2, BasesAre
      <3>6. Bases(new) = Bases(record)
        BY ZenonT(30), <2>7, <3>2, <3>4, <3>5
      <3>7. Distinct(new)
        BY Zenon, <3>2, <3>4 DEF Distinct
      <3>8. new[1] = state
        BY Zenon, <2>2, <2>9, <3>3
      <3>9. Bases(new) = Bases(record) \cup {base}
        BY Zenon, <3>6
      <3> QED
        BY Zenon, <2>4, <2>8, <3>2, <3>4, <3>7, <3>8, <3>9 DEF Received
    <2>10. CASE i # 1
      <3>1. new = promote_state(kept, state)
        BY Zenon, <2>5, <2>8, <2>10
      <3>2. \A b : b \in Bases(kept) <=> \E k \in 1..Len(kept) : kept[k].base = b
        BY Zenon, <2>6, BasesAre
      <3>3. base \notin Bases(kept)
        <4> SUFFICES ASSUME base \in Bases(kept) PROVE FALSE
          OBVIOUS
        <4>1. PICK k \in 1..Len(kept) : kept[k].base = base
          BY Zenon, <3>2
        <4>2. PICK j \in 1..Len(record) : j # i /\ kept[k] = record[j]
          BY Zenon, <2>6
        <4> QED
          BY Zenon, <2>2, <4>1, <4>2 DEF Distinct
      <3>4. Received(new, kept, base)
        BY Zenon, <2>4, <2>6, <3>1, <3>3, <1>PromoteReceived
      <3>5. Archives(new, kept, state)
        BY Zenon, <2>4, <2>6, <3>1, <1>PromoteStates
      <3>6. Bases(kept) \cup {base} = Bases(record) \cup {base}
        <4>1. \A b : b \in Bases(kept) => b \in Bases(record)
          BY Zenon, <2>6, <2>7, <3>2
        <4>2. \A b : b \in Bases(record) => b \in Bases(kept) \/ b = base
          BY Zenon, <2>2, <2>6, <2>7, <3>2
        <4> QED
          BY Zenon, <4>1, <4>2
      <3>7. ASSUME NEW l \in 1..Len(new)
            PROVE  \E j \in 1..Len(record) : new[l].base = record[j].base /\ new[l].n = record[j].n
        <4>1. CASE l = 1
          BY Zenon, <2>2, <2>4, <3>5, <4>1 DEF Archives
        <4>2. CASE l # 1
          <5>0. Len(new) = Len(kept) + 1 /\ kept \in Seq(SessionState)
            BY Zenon, <2>6, <3>5 DEF Archives
          <5>1. l - 1 \in 1..Len(kept) /\ l = (l - 1) + 1
            BY <4>2, <5>0
          <5>2. PICK k \in 1..Len(kept) : l = k + 1
            BY Zenon, <5>1
          <5>3. new[l].base = kept[k].base /\ new[l].n = kept[k].n
            BY Zenon, <3>5, <5>2 DEF Archives
          <5>4. PICK j \in 1..Len(record) : kept[k] = record[j]
            BY Zenon, <2>6
          <5> QED
            BY Zenon, <5>3, <5>4
        <4> QED
          BY Zenon, <4>1, <4>2
      <3> QED
        BY Zenon, <2>8, <3>4, <3>6, <3>7 DEF Received
    <2> QED
      BY Zenon, <2>9, <2>10

  \* message_decrypt does that.
  <1>Step.
      ASSUME RatchetTypes, NEW p \in Participants, NEW m \in Message, message_decrypt(p, m),
             Distinct(sessions[p][m.sender])
      PROVE  \E new : Receives(p, m, new)
    <2> USE <1>Step
    <2> DEFINE record == sessions[p][m.sender]
               known == m.base \in Bases(record)
               state == [base |-> m.base, bundle |-> NoBundle, n |-> 0]
               new == IF known THEN Promoted(record, m.base) ELSE promote_state(record, state)
    <2>1. m.sender \in Participants /\ m.base \in Nat
      BY Zenon DEF Message
    <2>2. /\ sessions' = [sessions EXCEPT ![p] = [sessions[p] EXCEPT ![m.sender] = new]]
          /\ base_keys_seen' = [base_keys_seen EXCEPT ![p] = IF known THEN @ ELSE @ \cup {m.base}]
          /\ opened' = [opened EXCEPT ![p] = @ \cup {m}]
          /\ accepted' = accepted \cup
                 (IF known THEN {} ELSE {[owner |-> p, bundle |-> m.bundle, base |-> m.base]})
          /\ started' = started
      BY Zenon DEF message_decrypt
    <2>3. /\ record \in Seq(SessionState) /\ state \in SessionState
          /\ state.base = m.base /\ state.bundle = NoBundle
      BY Zenon, <2>1 DEF RatchetTypes, SessionState
    <2>4. Received(new, record, m.base)
      <3>1. CASE known
        <4>1. Received(Promoted(record, m.base), record, m.base)
          BY Zenon, <2>3, <3>1, <1>PromotedReceived
        <4> QED
          BY Zenon, <3>1, <4>1
      <3>2. CASE ~known
        <4>1. Received(promote_state(record, state), record, m.base)
          BY Zenon, <2>3, <3>2, <1>PromoteReceived
        <4> QED
          BY Zenon, <3>2, <4>1
      <3> QED
        BY Zenon, <3>1, <3>2
    <2> HIDE DEF new
    <2>5. SetRecord(p, m.sender, new)
      BY Zenon, <2>1, <2>2, RecordSet
    <2>6. \A q \in Participants : base_keys_seen'[q] = base_keys_seen[q] \cup
              (IF q = p /\ m.base \notin Bases(sessions[p][m.sender]) THEN {m.base} ELSE {})
      <3> TAKE q \in Participants
      <3>1. base_keys_seen'[q] = IF q = p /\ ~known THEN base_keys_seen[q] \cup {m.base}
                                                    ELSE base_keys_seen[q]
        BY Zenon, <2>2 DEF RatchetTypes
      <3> QED
        BY Zenon, <3>1
    <2>7. \A q \in Participants : opened'[q] = opened[q] \cup (IF q = p THEN {m} ELSE {})
      <3> TAKE q \in Participants
      <3>1. opened'[q] = IF q = p THEN opened[q] \cup {m} ELSE opened[q]
        BY Zenon, <2>2 DEF RatchetTypes
      <3> QED
        BY Zenon, <3>1
    <2>8. Receives(p, m, new)
      BY Zenon, <2>2, <2>4, <2>5, <2>6, <2>7 DEF Receives
    <2> QED
      BY Zenon, <2>8

<1> QED
    BY Zenon, <1>Step

-----------------------------------------------------------------------------
(* Both sides of a session.                                                *)

\* Who may still take part in a pair.
Alive == {p \in Participants : mode.sweep => p \notin dropped}

\* Runs in which no message waits for a later pair.
Careful == mode.sweep \/ mode.external

Known(p, q, base) == base \in Bases(sessions[p][q])

\* A message to q that is in its inbox, or may still come there.
InFlight(q, m) ==
    \/ \E i \in 1..Len(inboxes[q]) : inboxes[q][i].message = m
    \/ \E r \in late : r.op = "post" /\ r.at = q /\ r.message = m
    \/ cmd.pc = "post" /\ cmd.peer = q /\ cmd.message = m

\* Who was given up takes no part any more.
NotDropped ==
    /\ \A p \in active : p \notin dropped
    /\ cmd.pc # "idle" => cmd.actor \notin dropped

\* The base key of a pair is new when its session is set up.
Starting == {"reset_actor", "reset_peer", "establish"}
Old(b, points) == b \in 0..pairs /\ (cmd.pc \in points => b # pairs)
Fresh ==
    /\ \A p, q \in Participants : \A b : Known(p, q, b) => Old(b, Starting)
    /\ \A q \in Participants : \A b \in base_keys_seen[q] : Old(b, Starting \cup {"consume"})
    /\ \A q \in Participants : \A m : InFlight(q, m) \/ m \in opened[q] => Old(m.base, Starting)
    /\ \A s \in started : Old(s.base, Starting)

\* A base key belongs to one pair, and has one state at each side.
OnePair ==
    /\ \A p, q, x, y \in Participants : \A b :
          Known(p, q, b) /\ Known(x, y, b) => (x = p /\ y = q) \/ (x = q /\ y = p)
    /\ \A p, q \in Participants : Distinct(sessions[p][q])

\* A participant that has a session, of which the other side names a bundle, has
\* set it up by a message.
BundleSeen ==
    /\ \A p, q \in Participants :
          LET s == sessions[p][q][1]
          IN sessions[p][q] # <<>> /\ s.bundle # NoBundle /\ Known(q, p, s.base)
                => s.base \in base_keys_seen[q]
    /\ \A q \in Participants : \A m :
          /\ InFlight(q, m) /\ m.bundle # NoBundle /\ Known(q, m.sender, m.base)
                => m.base \in base_keys_seen[q]
          /\ m \in opened[q] /\ m.bundle # NoBundle => m.base \in base_keys_seen[q]

\* What a message or a state of p names is on record at q, or sets up the session.
Linked(p, q, x) ==
    \/ Known(q, p, x.base)
    \/ x.bundle # NoBundle /\ x.base \notin base_keys_seen[q]

\* The session with which one side would send is good at the other.
HalfReset(p, q) == cmd.pc = "reset_peer" /\ p = cmd.peer /\ q = cmd.actor
Heads ==
    \A p, q \in Alive :
        sessions[p][q] # <<>> => HalfReset(p, q) \/ Linked(p, q, sessions[p][q][1])

\* So is a message, unless it was opened before.
UnderWay(q, m) == cmd.pc \in {"post", "decrypt"} /\ cmd.peer = q /\ cmd.message = m
Flight ==
    \A q \in Alive : \A m : InFlight(q, m) /\ m.sender \in Alive =>
        \/ m \in opened[q]
        \/ /\ Known(m.sender, q, m.base) /\ Linked(m.sender, q, m)
           /\ Careful => UnderWay(q, m) \/ cmd.pc \in Ended

\* The relay knows the sender of a message, and none is for the sender itself.
Envelopes ==
    \A q \in Participants :
        /\ \A i \in 1..Len(inboxes[q]) : inboxes[q][i].sender = inboxes[q][i].message.sender
        /\ \A m : InFlight(q, m) => m \in Message /\ m.sender # q

\* The message of the command under way.
MessageOK ==
    /\ cmd.pc \in {"reset_actor", "reset_peer"} => mode.external
    /\ cmd.pc = "reset_peer" => sessions[cmd.actor][cmd.peer] = <<>>
    /\ cmd.pc = "post" /\ mode.external => cmd.decrypt
    /\ cmd.pc \in {"post", "decrypt"} =>
          /\ sessions[cmd.actor][cmd.peer] # <<>>
          /\ cmd.message.sender = cmd.actor
          /\ cmd.message.base = sessions[cmd.actor][cmd.peer][1].base
    /\ cmd.pc = "decrypt" =>
          \E i \in 1..Len(inboxes[cmd.peer]) : inboxes[cmd.peer][i].message = cmd.message

\* The bundles that states and messages name, and the sessions set up.
Entry(q, x) == [owner |-> q, bundle |-> x.bundle, base |-> x.base]
Named ==
    /\ \A p, q \in Participants :
          LET s == sessions[p][q][1]
          IN sessions[p][q] # <<>> /\ s.bundle # NoBundle => Entry(q, s) \in started
    /\ \A q \in Participants : \A m :
          InFlight(q, m) /\ m.bundle # NoBundle => Entry(q, m) \in started
    /\ accepted \subseteq started
    /\ \A s \in accepted : s.base \in base_keys_seen[s.owner]
    /\ \A s \in started : s.owner \in Participants /\ s.bundle \in Bundle /\ Stored(s.owner, s.bundle)

\* Two sides of a resource sweep have the same current session, except for the
\* pair under way.
Agree(p, q) ==
    sessions[p][q] # <<>> =>
        sessions[q][p] # <<>> /\ sessions[p][q][1].base = sessions[q][p][1].base
Handshaking == {"reset_peer", "consume", "encrypt", "post", "decrypt"}
Agreed ==
    mode.sweep => \A p, q \in Alive :
        \/ Agree(p, q) \/ cmd.pc \in Ended
        \/ cmd.pc \in Handshaking /\ p \in {cmd.actor, cmd.peer} /\ q \in {cmd.actor, cmd.peer}

\* Why the last message was not opened.
Explained ==
    cmd.pc = "not_opened" =>
        \/ cmd.message \in opened[cmd.peer]
        \/ \E s \in accepted :
             s.owner = cmd.peer /\ s.bundle = cmd.message.bundle /\ is_one_time(s.bundle)

SessionInv ==
    /\ NotDropped /\ Fresh /\ OnePair /\ BundleSeen /\ Heads /\ Flight /\ Envelopes /\ MessageOK
    /\ Named /\ Agreed /\ Explained

\* The steps that leave the sessions alone.
Quiet ==
    \/ Rests \/ Starts \/ Prepares \/ GoesOn \/ Fails \/ Loses
    \/ \E r : Executes(r)
    \/ UNCHANGED vars
-----------------------------------------------------------------------------
(* Messages in flight.                                                     *)

\* A request puts its message at the end of the inbox, or leaves the inbox as it is.
Delivered(r, q, new, old) ==
    \/ new = old /\ ~(r.op = "post" /\ r.at = q /\ r.message.sender # q)
    \/ /\ r.op = "post" /\ r.at = q
       /\ \E e \in Envelope : /\ new = Append(old, e)
                              /\ e.message = r.message /\ e.sender = r.message.sender

\* So does every request.
LEMMA ExecuteDelivers ==
    ASSUME ServiceTypes, NEW r, RequestOK(r), Execute(r), NEW q \in Participants
    PROVE  Delivered(r, q, inboxes'[q], inboxes[q])
  <1> DEFINE e == [id |-> next_message_id, sender |-> r.message.sender, message |-> r.message]
  <1>1. CASE r.op = "post"
    <2>1. inboxes' = [x \in DOMAIN inboxes |-> IF x \in {r.at} \ {e.sender}
                                                 THEN Append(inboxes[x], e) ELSE inboxes[x]]
      BY Zenon, <1>1 DEF Execute, publish_pairwise_message
    <2>2. DOMAIN inboxes = Participants /\ r.message \in Message /\ next_message_id \in Nat
      BY Zenon, <1>1 DEF ServiceTypes, RequestOK
    <2>3. e \in Envelope /\ e.message = r.message /\ e.sender = r.message.sender
      <3>1. r.message.sender \in Participants
        BY Zenon, <2>2 DEF Message
      <3> QED
        BY Zenon, <2>2, <3>1 DEF Envelope
    <2> HIDE DEF e
    <2>4. CASE q = r.at /\ e.sender # q
      <3>1. inboxes'[q] = Append(inboxes[q], e)
        BY Zenon, <2>1, <2>2, <2>4
      <3> QED
        BY Zenon, <1>1, <2>3, <2>4, <3>1 DEF Delivered
    <2>5. CASE ~(q = r.at /\ e.sender # q)
      <3>1. inboxes'[q] = inboxes[q]
        BY Zenon, <2>1, <2>2, <2>5
      <3> QED
        BY Zenon, <1>1, <2>3, <2>5, <3>1 DEF Delivered
    <2> QED
      BY Zenon, <2>4, <2>5
  <1>2. CASE r.op # "post"
    BY Zenon, <1>2 DEF Execute, Delivered
  <1> QED
    BY Zenon, <1>1, <1>2

\* What is in the inbox then.
Grown(r, q, new, old) ==
    /\ \A i \in 1..Len(new) :
          \/ \E j \in 1..Len(old) : new[i] = old[j]
          \/ /\ r.op = "post" /\ r.at = q
             /\ new[i].message = r.message /\ new[i].sender = r.message.sender
    /\ \A j \in 1..Len(old) : \E i \in 1..Len(new) : new[i] = old[j]
    /\ r.op = "post" /\ r.at = q /\ r.message.sender # q =>
          \E i \in 1..Len(new) : new[i].message = r.message

\* The old envelopes stay, and the new one is there.
LEMMA DeliveredElements ==
    ASSUME NEW r, NEW q, NEW old \in Seq(Envelope), NEW new, Delivered(r, q, new, old)
    PROVE  Grown(r, q, new, old)
  <1>1. CASE new = old /\ ~(r.op = "post" /\ r.at = q /\ r.message.sender # q)
    BY Zenon, <1>1 DEF Grown
  <1>2. CASE /\ r.op = "post" /\ r.at = q
             /\ \E e \in Envelope : /\ new = Append(old, e)
                                    /\ e.message = r.message /\ e.sender = r.message.sender
    <2>1. PICK e \in Envelope : /\ new = Append(old, e)
                                /\ e.message = r.message /\ e.sender = r.message.sender
      BY Zenon, <1>2
    <2>2. /\ \A i \in 1..Len(new) : (i \in 1..Len(old) /\ new[i] = old[i]) \/ new[i] = e
          /\ \A j \in 1..Len(old) : j \in 1..Len(new) /\ new[j] = old[j]
          /\ Len(old) + 1 \in 1..Len(new) /\ new[Len(old) + 1] = e
      BY <2>1
    <2> QED
      BY Zenon, <1>2, <2>1, <2>2 DEF Grown
  <1> QED
    BY Zenon, <1>1, <1>2 DEF Delivered

\* An ack leaves only what was there.
LEMMA AckLeaves ==
    ASSUME ServiceTypes, NEW p \in Participants, NEW e, inboxes' = ack_message(inboxes, p, e),
           NEW q \in Participants
    PROVE  \A i \in 1..Len(inboxes'[q]) :
              \E j \in 1..Len(inboxes[q]) :
                 inboxes'[q][i] = inboxes[q][j] /\ (q = p => inboxes[q][j].id # e.id)
  <1> DEFINE inbox == inboxes[p]
             I == {i \in DOMAIN inbox : inbox[i].id # e.id}
  <1>1. inboxes \in [Participants -> Seq(Envelope)] /\ inbox \in Seq(Envelope)
    BY Zenon DEF ServiceTypes
  <1>2. inboxes' = [inboxes EXCEPT ![p] = Kept(inbox, I)]
    BY Zenon DEF ack_message
  <1>3. Selects(Kept(inbox, I), inbox, I, Envelope)
    BY Zenon, <1>1, KeptElements
  <1>4. CASE q = p
    <2>1. inboxes'[q] = Kept(inbox, I)
      BY Zenon, <1>1, <1>2, <1>4
    <2>2. PICK kept : kept = inboxes'[q] /\ Selects(kept, inbox, I, Envelope)
      BY Zenon, <1>3, <2>1
    <2>3. \A j \in I : inbox[j].id # e.id
      BY Zenon
    <2> HIDE DEF I
    <2> QED
      BY Zenon, <1>4, <2>2, <2>3 DEF Selects
  <1>5. CASE q # p
    <2>1. inboxes'[q] = inboxes[q]
      BY Zenon, <1>1, <1>2, <1>5
    <2> QED
      BY Zenon, <1>5, <2>1
  <1> QED
    BY Zenon, <1>4, <1>5

\* What DecryptMessage gets is in the inbox, and from the actor when the run asks
\* for it; when there is such a message, it gets one.
LEMMA PendingElements ==
    ASSUME ServiceTypes, cmd.peer \in Participants
    PROVE  /\ Pending # <<>> => \E j \in 1..Len(inboxes[cmd.peer]) :
                 /\ Head(Pending) = inboxes[cmd.peer][j]
                 /\ Careful => inboxes[cmd.peer][j].sender = cmd.actor
           /\ \A i \in 1..Len(inboxes[cmd.peer]) :
                 inboxes[cmd.peer][i].sender = cmd.actor => Pending # <<>>
  <1> DEFINE inbox == inboxes[cmd.peer]
             I == {i \in DOMAIN inbox : inbox[i].sender = cmd.actor}
  <1>1. inbox \in Seq(Envelope) /\ Pending \in Seq(Envelope)
    BY Zenon, PendingTypes DEF ServiceTypes
  <1>2. Pending = IF Careful THEN Kept(inbox, I) ELSE inbox
    BY Zenon DEF Pending, PendingFrom, Careful
  <1>3. Selects(Kept(inbox, I), inbox, I, Envelope)
    BY Zenon, <1>1, KeptElements
  <1>4. DOMAIN inbox = 1..Len(inbox)
    BY <1>1
  <1> HIDE DEF inbox
  <1>5. /\ \A k \in 1..Len(Pending) : \E i \in 1..Len(inbox) :
              Pending[k] = inbox[i] /\ (Careful => inbox[i].sender = cmd.actor)
        /\ \A i \in 1..Len(inbox) : inbox[i].sender = cmd.actor =>
              \E k \in 1..Len(Pending) : Pending[k] = inbox[i]
    BY Zenon, <1>2, <1>3, <1>4 DEF Selects
  <1>6. Pending # <<>> => 1 \in 1..Len(Pending) /\ Head(Pending) = Pending[1]
    BY <1>1
  <1>7. Pending = <<>> => 1..Len(Pending) = {}
    BY <1>1
  <1>8. Pending # <<>> => \E j \in 1..Len(inbox) :
             Head(Pending) = inbox[j] /\ (Careful => inbox[j].sender = cmd.actor)
    <2> SUFFICES ASSUME Pending # <<>>
                 PROVE  \E j \in 1..Len(inbox) :
                           Head(Pending) = inbox[j] /\ (Careful => inbox[j].sender = cmd.actor)
      OBVIOUS
    <2>1. PICK j \in 1..Len(inbox) : Pending[1] = inbox[j] /\ (Careful => inbox[j].sender = cmd.actor)
      BY Zenon, <1>5, <1>6
    <2>2. Head(Pending) = inbox[j]
      BY Zenon, <1>6, <2>1
    <2> QED
      BY Zenon, <2>1, <2>2
  <1>9. \A i \in 1..Len(inbox) : inbox[i].sender = cmd.actor => Pending # <<>>
    BY Zenon, <1>5, <1>7
  <1> QED
    BY Zenon, <1>8, <1>9 DEF inbox

\* A quiet step adds no message to those in flight.
LEMMA FlightQuiet ==
    ASSUME BaseInv, Quiet, NEW q \in Participants, NEW m, InFlight(q, m)'
    PROVE  InFlight(q, m)
  <1> DEFINE Boxed == \E i \in 1..Len(inboxes[q]) : inboxes[q][i].message = m
             Late == \E r \in late : r.op = "post" /\ r.at = q /\ r.message = m
             Current == cmd.pc = "post" /\ cmd.peer = q /\ cmd.message = m
  <1>0. (Boxed \/ Late \/ Current => InFlight(q, m)) /\ (Boxed \/ Late \/ Current)'
    BY Zenon DEF InFlight
  <1>1. CASE UNCHANGED <<inboxes, late>> /\ cmd'.pc # "post"
    BY Zenon, <1>0, <1>1
  <1>2. CASE Rests \/ Starts \/ Prepares \/ GoesOn \/ Fails
    <2>1. UNCHANGED <<inboxes, late>>
      BY Zenon, <1>2 DEF Rests, Starts, Prepares, GoesOn, Fails, services
    <2>2. cmd'.pc # "post"
      BY <1>2 DEF Rests, Starts, Prepares, GoesOn, Fails
    <2> QED
      BY Zenon, <1>1, <2>1, <2>2
  <1>3. CASE Loses
    <2>1. Boxed' => Boxed
      BY Zenon, <1>3 DEF Loses
    <2>2. Current' => Current
      BY Zenon, <1>3 DEF Loses, Moves
    <2>3. CurrentRequest.op = "post" =>
             CurrentRequest.at = cmd.peer /\ CurrentRequest.message = cmd.message /\ cmd.pc = "post"
      BY Zenon DEF CurrentRequest
    <2>4. Late' => Late \/ Current
      BY Zenon, <1>3, <2>3 DEF Loses
    <2> QED
      BY Zenon, <1>0, <2>1, <2>2, <2>4
  <1>4. ASSUME NEW r, Executes(r)
        PROVE  InFlight(q, m)
    <2>1. RequestOK(r) /\ Execute(r) /\ ServiceTypes /\ inboxes[q] \in Seq(Envelope)
      BY Zenon, <1>4 DEF Executes, BaseInv, OfferInv, ServiceTypes
    <2>2. Delivered(r, q, inboxes'[q], inboxes[q])
      BY Zenon, <2>1, ExecuteDelivers
    <2>3. Boxed' => Boxed \/ (r.op = "post" /\ r.at = q /\ r.message = m)
      <3>1. Grown(r, q, inboxes'[q], inboxes[q])
        BY Zenon, <2>1, <2>2, DeliveredElements
      <3>2. PICK new, old : new = inboxes'[q] /\ old = inboxes[q] /\ Grown(r, q, new, old)
        BY Zenon, <3>1
      <3>3. ASSUME NEW i \in 1..Len(new), new[i].message = m
            PROVE  \/ \E j \in 1..Len(old) : old[j].message = m
                   \/ r.op = "post" /\ r.at = q /\ r.message = m
        BY Zenon, <3>2, <3>3 DEF Grown
      <3> QED
        BY Zenon, <3>2, <3>3
    <2>4. Late' => Late
      BY Zenon, <1>4 DEF Executes
    <2>5. Current' => Current
      <3>1. CASE cmd' = cmd
        BY Zenon, <3>1
      <3>2. CASE Requesting /\ Moves(Answered)
        <4>1. cmd'.pc # "post"
          BY <3>2 DEF Requesting, Moves, Answered
        <4> QED
          BY Zenon, <4>1
      <3> QED
        BY Zenon, <1>4, <3>1, <3>2 DEF Executes
    <2>6. r \in late \/ (r = CurrentRequest /\ Requesting)
      BY Zenon, <1>4 DEF Executes
    <2>7. r.op = "post" /\ r.at = q /\ r.message = m => Late \/ Current
      <3>1. CurrentRequest.op = "post" =>
               CurrentRequest.at = cmd.peer /\ CurrentRequest.message = cmd.message /\ cmd.pc = "post"
        BY Zenon DEF CurrentRequest
      <3> QED
        BY Zenon, <2>6, <3>1
    <2> QED
      BY Zenon, <1>0, <2>3, <2>4, <2>5, <2>7
  <1>5. CASE UNCHANGED vars
    BY Zenon, <1>0, <1>5 DEF vars, services
  <1> QED
    BY Zenon, <1>2, <1>3, <1>4, <1>5 DEF Quiet

\* A quiet step leaves the sessions alone.
LEMMA QuietState ==
    ASSUME Quiet
    PROVE  /\ UNCHANGED <<mode, base_keys_seen, sessions, opened, started, accepted>>
           /\ dropped \subseteq dropped' /\ Alive' \subseteq Alive /\ (Careful' <=> Careful)
  <1>1. UNCHANGED <<mode, base_keys_seen, sessions, opened, started, accepted>>
    BY Zenon DEF Quiet, Rests, Starts, Prepares, GoesOn, Fails, Loses, Executes, vars, runner, ratchets
  <1>2. dropped \subseteq dropped'
    BY Zenon DEF Quiet, Rests, Starts, Prepares, GoesOn, Fails, Loses, Executes, vars, runner
  <1> QED
    BY Zenon, <1>1, <1>2 DEF Alive, Careful

\* Where a quiet step takes the command.
Proceeds ==
    \/ cmd'.pc \in Ended
    \/ mode.sweep /\ (cmd.actor \in dropped' \/ cmd.peer \in dropped')
    \/ /\ cmd'.pc \in Handshaking /\ cmd'.actor = cmd.actor /\ cmd'.peer = cmd.peer
       /\ cmd.pc \in {"post", "decrypt"} =>
             cmd'.pc \in {"post", "decrypt"} /\ cmd'.message = cmd.message
QuietPoints ==
    /\ \/ pairs' = pairs + 1
       \/ pairs' = pairs /\ (cmd'.pc \in Starting \cup {"consume"} => cmd.pc = cmd'.pc)
    /\ cmd.pc \in Ended \cup {"reset_peer"} \/ cmd'.pc = "reset_peer" => cmd' = cmd
    /\ cmd.pc \in Handshaking /\ Careful /\ (cmd.pc \in {"post", "decrypt"} \/ mode.sweep)
          => Proceeds

\* All quiet steps do.
LEMMA QuietGoes ==
    ASSUME BaseInv, MessageOK, Quiet
    PROVE  QuietPoints
  <1> USE DEF Ended, Starting, Handshaking
  <1>0. /\ cmd.pc \in {"post", "decrypt", "encrypt", "consume", "reset_peer"} => cmd.actor # cmd.peer
        /\ cmd.pc \in {"post", "encrypt"} /\ mode.sweep => cmd.decrypt
        /\ cmd.pc = "post" /\ mode.external => cmd.decrypt
    BY Zenon DEF BaseInv, OfferInv, CommandOK, StockInv, Decrypting, MessageOK
  <1>1. CASE Rests
    <2>1. pairs' = pairs /\ cmd'.pc \in {"idle", "own"}
      BY Zenon, <1>1 DEF Rests
    <2>2. CASE cmd.pc \in {"idle", "done"}
      BY <2>1, <2>2 DEF QuietPoints
    <2>3. ASSUME NEW w \in Failing, dropped' = dropped \cup {w}, mode.sweep \/ cmd.actor = cmd.peer
          PROVE  QuietPoints
      <3>1. cmd.pc \notin Ended \cup {"reset_peer"} /\ w \in {cmd.actor, cmd.peer}
        BY DEF Failing
      <3>2. cmd.pc \in Handshaking => mode.sweep /\ (cmd.actor \in dropped' \/ cmd.peer \in dropped')
        BY Zenon, <1>0, <2>3, <3>1
      <3> QED
        BY <2>1, <3>1, <3>2 DEF QuietPoints, Proceeds
    <2> QED
      BY Zenon, <1>1, <2>2, <2>3 DEF Rests
  <1>2. CASE Starts
    BY <1>2 DEF Starts, QuietPoints
  <1>3. CASE Prepares
    BY <1>3 DEF Prepares, Moves, runner, QuietPoints
  <1>4. CASE GoesOn
    BY <1>0, <1>4 DEF GoesOn, Moves, runner, QuietPoints, Proceeds
  <1>5. CASE Fails
    BY <1>5 DEF Fails, runner, QuietPoints, Proceeds
  <1>6. CASE Loses
    BY <1>6 DEF Loses, Requesting, Moves, runner, QuietPoints, Proceeds
  <1>7. ASSUME NEW r, Executes(r)
        PROVE  QuietPoints
    <2>1. pairs' = pairs
      BY Zenon, <1>7 DEF Executes, runner
    <2>2. CASE cmd' = cmd
      BY Zenon, <2>1, <2>2 DEF QuietPoints, Proceeds
    <2>3. CASE Requesting /\ Moves(Answered)
      BY <1>0, <2>1, <2>3 DEF Requesting, Moves, Answered, QuietPoints, Proceeds, Careful
    <2> QED
      BY Zenon, <1>7, <2>2, <2>3 DEF Executes
  <1>8. CASE UNCHANGED vars
    BY Zenon, <1>8 DEF vars, runner, QuietPoints, Proceeds
  <1> QED
    BY Zenon, <1>1, <1>2, <1>3, <1>4, <1>5, <1>6, <1>7, <1>8 DEF Quiet
-----------------------------------------------------------------------------
(* The steps that change a session.                                        *)

\* The current state of p with q becomes one with that base key and that bundle;
\* no other base key comes or goes.
Sets(p, q, base, bundle) ==
    /\ \A x, y \in Participants : (x = p /\ y = q) \/ sessions'[x][y] = sessions[x][y]
    /\ sessions'[p][q] # <<>> /\ Distinct(sessions'[p][q])
    /\ sessions'[p][q][1].base = base /\ sessions'[p][q][1].bundle = bundle
    /\ \A b : b \in Bases(sessions'[p][q]) <=> b \in Bases(sessions[p][q]) \/ b = base

\* A new session has one state.
LEMMA InitiateSets ==
    ASSUME BaseInv, Initiates
    PROVE  /\ Sets(cmd.actor, cmd.peer, pairs, prekey_bundles[cmd.peer][1])
           /\ prekey_bundles[cmd.peer][1] \in Bundle /\ prekey_bundles[cmd.peer][1] # NoBundle
           /\ Stored(cmd.peer, prekey_bundles[cmd.peer][1])
           /\ cmd.actor \in Participants /\ cmd.peer \in Participants /\ cmd.actor # cmd.peer
           /\ \A b : ~Known(cmd.actor, cmd.peer, b)
  <1> DEFINE queue == prekey_bundles[cmd.peer]
  <1>1. PICK bundle : bundle = queue[1]
    BY Zenon
  <1>2. PICK s : s = [base |-> pairs, bundle |-> bundle, n |-> 0]
    BY Zenon
  <1>3. /\ cmd.pc = "establish" /\ cmd.actor \in Participants /\ cmd.peer \in Participants
        /\ SetRecord(cmd.actor, cmd.peer, <<s>>) /\ sessions[cmd.actor][cmd.peer] = <<>>
    BY Zenon, <1>1, <1>2 DEF Initiates, Moves
  <1>4. cmd.actor # cmd.peer /\ queue \in Seq(Bundle) /\ queue # <<>>
    BY Zenon, <1>3 DEF BaseInv, OfferInv, CommandOK, Prepared, ServiceTypes
  <1>5. bundle \in Bundle /\ 1 \in 1..Len(queue)
    BY <1>1, <1>4
  <1>6. bundle # NoBundle
    BY <1>5, SettingsAssumption DEF Bundle, NoBundle, Ids
  <1>7. Stored(cmd.peer, bundle)
    BY Zenon, <1>1, <1>3, <1>5 DEF BaseInv, OfferInv, Offered
  <1>8. PICK record : record = <<s>> /\ sessions'[cmd.actor][cmd.peer] = record
    BY Zenon, <1>3 DEF SetRecord
  <1>9. s.base = pairs /\ s.bundle = bundle
    BY Zenon, <1>2
  <1>10. record # <<>> /\ record[1] = s /\ DOMAIN record = {1} /\ 1..Len(record) = {1}
    BY <1>8
  <1>11. \A b : b \in Bases(record) <=> b = pairs
    BY Zenon, <1>9, <1>10 DEF Bases
  <1>12. \A b : b \notin Bases(<<>>)
    <2>1. DOMAIN <<>> = {}
      OBVIOUS
    <2> QED
      BY Zenon, <2>1 DEF Bases
  <1>13. \A b : ~Known(cmd.actor, cmd.peer, b)
    BY Zenon, <1>3, <1>12 DEF Known
  <1>14. Distinct(record)
    BY Zenon, <1>10 DEF Distinct
  <1>15. Sets(cmd.actor, cmd.peer, pairs, bundle)
    BY Zenon, <1>3, <1>8, <1>9, <1>10, <1>11, <1>13, <1>14 DEF Sets, SetRecord, Known
  <1>16. prekey_bundles[cmd.peer][1] = bundle
    BY Zenon, <1>1
  <1> QED
    BY Zenon, <1>3, <1>4, <1>5, <1>6, <1>7, <1>13, <1>15, <1>16

\* The number of messages is counted in the current state.
LEMMA EncryptSets ==
    ASSUME BaseInv, OnePair, Encrypts
    PROVE  \E s : /\ s = sessions[cmd.actor][cmd.peer][1] /\ sessions[cmd.actor][cmd.peer] # <<>>
                  /\ Sets(cmd.actor, cmd.peer, s.base, s.bundle)
                  /\ cmd.actor \in Participants /\ cmd.peer \in Participants
                  /\ cmd.actor # cmd.peer /\ Known(cmd.actor, cmd.peer, s.base)
                  /\ cmd'.message \in Message /\ cmd'.message.sender = cmd.actor
                  /\ cmd'.message.base = s.base /\ cmd'.message.bundle = s.bundle
                  /\ cmd'.message.n = s.n
  <1>0. PICK record, s : record = sessions[cmd.actor][cmd.peer] /\ s = record[1]
    BY Zenon
  <1>1. /\ cmd.pc = "encrypt" /\ cmd.actor \in Participants /\ cmd.peer \in Participants
        /\ record # <<>> /\ SetRecord(cmd.actor, cmd.peer, [record EXCEPT ![1] = [s EXCEPT !.n = s.n + 1]])
        /\ cmd'.message = [sender |-> cmd.actor, base |-> s.base, bundle |-> s.bundle, n |-> s.n]
    BY Zenon, <1>0 DEF Encrypts
  <1>2. cmd.actor # cmd.peer /\ record \in Seq(SessionState) /\ Distinct(record)
    BY Zenon, <1>0, <1>1 DEF BaseInv, OfferInv, CommandOK, RatchetTypes, OnePair
  <1>3. /\ s \in SessionState /\ s.base \in Bases(record) /\ 1 \in 1..Len(record)
        /\ \A b : b \in Bases(record) <=> \E i \in 1..Len(record) : record[i].base = b
    BY Zenon, <1>0, <1>1, <1>2, BasesAre
  <1>4. s.base \in Nat /\ s.n \in Nat /\ s.bundle \in Bundle \cup {NoBundle}
    BY Zenon, <1>3 DEF SessionState
  <1>5. PICK t : t = [s EXCEPT !.n = s.n + 1]
    BY Zenon
  <1>6. t.base = s.base /\ t.bundle = s.bundle /\ t \in SessionState
    <2>1. s.n + 1 \in Nat
      BY <1>4
    <2> QED
      BY Zenon, <1>3, <1>5, <2>1 DEF SessionState
  <1>7. PICK new : new = [record EXCEPT ![1] = t] /\ sessions'[cmd.actor][cmd.peer] = new
    BY Zenon, <1>1, <1>5 DEF SetRecord
  <1>8. new \in Seq(SessionState) /\ Len(new) = Len(record) /\ new # <<>>
    BY <1>1, <1>2, <1>6, <1>7
  <1>9. \A i \in 1..Len(record) : new[i] = IF i = 1 THEN t ELSE record[i]
    <2>1. DOMAIN record = 1..Len(record)
      BY <1>2
    <2> QED
      BY Zenon, <1>7, <2>1
  <1>10. \A i \in 1..Len(record) : new[i].base = record[i].base
    BY Zenon, <1>0, <1>6, <1>9
  <1>11. new[1] = t
    BY Zenon, <1>3, <1>9
  <1>12. \A b : b \in Bases(new) <=> \E i \in 1..Len(new) : new[i].base = b
    BY Zenon, <1>8, BasesAre
  <1>13. \A b : b \in Bases(new) <=> b \in Bases(record)
    BY Zenon, <1>3, <1>8, <1>10, <1>12
  <1>14. Distinct(new)
    BY Zenon, <1>2, <1>8, <1>10 DEF Distinct
  <1>15. \A b : b \in Bases(new) <=> b \in Bases(record) \/ b = s.base
    BY Zenon, <1>3, <1>13
  <1>16. Sets(cmd.actor, cmd.peer, s.base, s.bundle)
    BY ZenonT(30), <1>0, <1>1, <1>6, <1>7, <1>8, <1>11, <1>14, <1>15 DEF Sets, SetRecord
  <1>17. cmd'.message \in Message
    BY SMT, <1>1, <1>4 DEF Message
  <1>18. Known(cmd.actor, cmd.peer, s.base)
    BY Zenon, <1>0, <1>3 DEF Known
  <1>19. /\ cmd'.message.sender = cmd.actor /\ cmd'.message.base = s.base
         /\ cmd'.message.bundle = s.bundle /\ cmd'.message.n = s.n
    BY SMT, <1>1
  <1>20. s = sessions[cmd.actor][cmd.peer][1] /\ sessions[cmd.actor][cmd.peer] # <<>>
    BY Zenon, <1>0, <1>1
  <1> QED
    BY Zenon, <1>1, <1>2, <1>16, <1>17, <1>18, <1>19, <1>20

\* Who opens which message, and that the sender has the session on record.
Opening(p, m) ==
    /\ p = cmd.peer /\ p \in Alive /\ m.sender \in Alive /\ m.sender # p /\ m \in Message
    /\ InFlight(p, m) /\ m \notin opened[p] /\ Opens(p, m)
    /\ Known(m.sender, p, m.base) /\ Linked(m.sender, p, m)
    /\ Careful => m = cmd.message /\ m.sender = cmd.actor

\* What that changes.
Opened(p, m) ==
    /\ Sets(p, m.sender, m.base, NoBundle)
    /\ \A q \in Participants : base_keys_seen'[q] = base_keys_seen[q] \cup
          (IF q = p /\ ~Known(p, m.sender, m.base) THEN {m.base} ELSE {})
    /\ \A q \in Participants : opened'[q] = opened[q] \cup (IF q = p THEN {m} ELSE {})
    /\ accepted' = accepted \cup
          (IF Known(p, m.sender, m.base) THEN {} ELSE {Entry(p, m)})
    /\ started' = started

\* The participants of a pair are alive.
LEMMA PairAlive ==
    ASSUME BaseInv, NotDropped, cmd.pc \in Handshaking \cup Starting
    PROVE  /\ cmd.actor \in Alive /\ cmd.peer \in Alive /\ cmd.actor # cmd.peer
           /\ cmd.actor \in Participants /\ cmd.peer \in Participants
  <1>1. cmd.actor # cmd.peer /\ cmd.pc # "idle"
    BY Zenon DEF BaseInv, OfferInv, CommandOK, Handshaking, Starting
  <1>2. cmd.actor \in active /\ cmd.peer \in active /\ active \subseteq Participants
    BY Zenon, <1>1 DEF BaseInv, OfferInv, CommandOK, RunnerTypes
  <1> QED
    BY Zenon, <1>1, <1>2 DEF NotDropped, Alive

\* What DecryptMessage gets: an envelope of the inbox, whose message was sent by a
\* participant that is alive.
LEMMA HeadOfPending ==
    ASSUME BaseInv, NotDropped, Envelopes, cmd.pc = "decrypt", Pending # <<>>,
           NEW m, m = Head(Pending).message
    PROVE  /\ InFlight(cmd.peer, m) /\ m \in Message /\ m.sender \in Alive /\ m.sender # cmd.peer
           /\ Careful => m.sender = cmd.actor
  <1>1. /\ cmd.actor \in Alive /\ cmd.peer \in Alive /\ cmd.actor # cmd.peer
        /\ cmd.actor \in Participants /\ cmd.peer \in Participants
    BY Zenon, PairAlive DEF Handshaking
  <1>2. ServiceTypes
    BY Zenon DEF BaseInv, OfferInv
  <1>3. PICK j \in 1..Len(inboxes[cmd.peer]) :
            /\ Head(Pending) = inboxes[cmd.peer][j]
            /\ Careful => inboxes[cmd.peer][j].sender = cmd.actor
    BY Zenon, <1>1, <1>2, PendingElements
  <1>4. InFlight(cmd.peer, m)
    BY Zenon, <1>3 DEF InFlight
  <1>5. m \in Message /\ m.sender # cmd.peer
    BY Zenon, <1>1, <1>4 DEF Envelopes
  <1>6. Careful => m.sender = cmd.actor
    BY Zenon, <1>1, <1>3 DEF Envelopes
  <1>7. m.sender \in Participants
    BY Zenon, <1>5 DEF Message
  <1>8. m.sender \in Alive
    BY Zenon, <1>1, <1>6, <1>7 DEF Alive, Careful
  <1> QED
    BY Zenon, <1>4, <1>5, <1>6, <1>8

\* A message is opened once.
LEMMA OpensOnce ==
    ASSUME BundleSeen, NEW p \in Participants, NEW m, Opens(p, m)
    PROVE  m \notin opened[p]
  BY Zenon DEF Opens, BundleSeen

\* DecryptMessage opens a message of a session that both sides share.
LEMMA DecryptOpens ==
    ASSUME BaseInv, SessionInv, NEW e, Decrypts(e)
    PROVE  Opening(cmd.peer, e.message) /\ Opened(cmd.peer, e.message)
  <1>1. PICK p, m : p = cmd.peer /\ m = e.message
    BY Zenon
  <1>2. /\ cmd.pc = "decrypt" /\ Pending # <<>> /\ m = Head(Pending).message
        /\ Opens(p, m) /\ message_decrypt(p, m)
    BY Zenon, <1>1 DEF Decrypts
  <1>3. InFlight(p, m) /\ m \in Message /\ m.sender \in Alive /\ m.sender # p
    BY Zenon, <1>1, <1>2, HeadOfPending DEF SessionInv
  <1>4. Careful => m.sender = cmd.actor
    BY Zenon, <1>1, <1>2, HeadOfPending DEF SessionInv
  <1>5. p \in Alive /\ p \in Participants
    BY Zenon, <1>1, <1>2, PairAlive DEF SessionInv, Handshaking
  <1>6. m \notin opened[p]
    BY Zenon, <1>2, <1>5, OpensOnce DEF SessionInv
  <1>7. /\ Known(m.sender, p, m.base) /\ Linked(m.sender, p, m)
        /\ Careful => UnderWay(p, m) \/ cmd.pc \in Ended
    BY Zenon, <1>3, <1>5, <1>6 DEF SessionInv, Flight
  <1>8. cmd.pc \notin Ended
    BY <1>2 DEF Ended
  <1>9. Opening(p, m)
    BY Zenon, <1>1, <1>2, <1>3, <1>4, <1>5, <1>6, <1>7, <1>8 DEF Opening, UnderWay
  <1>10. RatchetTypes /\ m.sender \in Participants
    BY Zenon, <1>3 DEF BaseInv, OfferInv, Message
  <1>11. Distinct(sessions[p][m.sender])
    BY Zenon, <1>5, <1>10 DEF SessionInv, OnePair
  <1>12. PICK new : Receives(p, m, new)
    BY Zenon, <1>2, <1>3, <1>5, <1>10, <1>11, DecryptReceives
  <1>13. SetRecord(p, m.sender, new) /\ Received(new, sessions[p][m.sender], m.base)
    BY Zenon, <1>12 DEF Receives
  <1>14. sessions'[p][m.sender] = new
    BY Zenon, <1>5, <1>10, <1>13 DEF SetRecord
  <1>15. Sets(p, m.sender, m.base, NoBundle)
    BY Zenon, <1>13, <1>14 DEF Sets, SetRecord, Received
  <1>16. Opened(p, m)
    BY Zenon, <1>12, <1>15 DEF Opened, Receives, Known, Entry
  <1> QED
    BY Zenon, <1>1, <1>9, <1>16

\* A step that changes sessions puts a message in flight only when it makes one.
LEMMA FlightStep ==
    ASSUME BaseInv, Steps, NEW q \in Participants, NEW m, InFlight(q, m)'
    PROVE  InFlight(q, m) \/ (Encrypts /\ q = cmd.peer /\ m = cmd'.message)
  <1>1. CASE Quiet
    BY Zenon, <1>1, FlightQuiet
  <1>2. CASE Forgets \/ Initiates
    <2>1. UNCHANGED <<inboxes, late>> /\ cmd'.pc # "post"
      BY <1>2 DEF Forgets, Initiates, Moves, services
    <2> QED
      BY Zenon, <2>1 DEF InFlight
  <1>3. CASE Encrypts
    <2>1. UNCHANGED <<inboxes, late>> /\ cmd'.peer = cmd.peer
      BY Zenon, <1>3 DEF Encrypts, services
    <2> QED
      BY Zenon, <1>3, <2>1 DEF InFlight
  <1>4. ASSUME NEW e, Decrypts(e)
        PROVE  InFlight(q, m)
    <2>1. /\ late' = late /\ cmd'.pc = "update" /\ cmd.peer \in Participants
          /\ inboxes' = ack_message(inboxes, cmd.peer, e) /\ ServiceTypes
      BY Zenon, <1>4 DEF Decrypts, Moves, BaseInv, OfferInv
    <2>2. \A i \in 1..Len(inboxes'[q]) : \E j \in 1..Len(inboxes[q]) : inboxes'[q][i] = inboxes[q][j]
      <3>1. \A i \in 1..Len(inboxes'[q]) : \E j \in 1..Len(inboxes[q]) :
               inboxes'[q][i] = inboxes[q][j] /\ (q = cmd.peer => inboxes[q][j].id # e.id)
        BY ZenonT(30), <2>1, AckLeaves
      <3> QED
        BY Zenon, <3>1
    <2>3. cmd'.pc # "post"
      BY <2>1
    <2>4. CASE \E r \in late : r.op = "post" /\ r.at = q /\ r.message = m
      BY Zenon, <2>4 DEF InFlight
    <2>5. CASE \E i \in 1..Len(inboxes'[q]) : inboxes'[q][i].message = m
      <3>1. PICK i \in 1..Len(inboxes'[q]) : inboxes'[q][i].message = m
        BY Zenon, <2>5
      <3>2. PICK j \in 1..Len(inboxes[q]) : inboxes'[q][i] = inboxes[q][j]
        BY Zenon, <2>2
      <3> QED
        BY Zenon, <3>1, <3>2 DEF InFlight
    <2> QED
      BY Zenon, <2>1, <2>3, <2>4, <2>5 DEF InFlight
  <1> QED
    BY Zenon, <1>1, <1>2, <1>3, <1>4 DEF Steps, Quiet

\* The participants that are dropped take no part any more.
LEMMA NextNotDropped ==
    ASSUME BaseInv, NotDropped, Steps
    PROVE  NotDropped'
  <1>1. CASE Rests
    BY Zenon, <1>1 DEF Rests, NotDropped
  <1>2. CASE Starts
    BY Zenon, <1>2 DEF Starts, NotDropped
  <1>3. CASE UNCHANGED <<active, dropped>> /\ cmd.pc # "idle" /\ cmd'.actor = cmd.actor
    BY Zenon, <1>3 DEF NotDropped
  <1>4. CASE UNCHANGED <<active, dropped, cmd>>
    BY Zenon, <1>4 DEF NotDropped
  <1>5. CASE Prepares \/ GoesOn \/ Forgets \/ Initiates \/ Encrypts \/ Fails \/ Loses
    <2>1. UNCHANGED <<active, dropped>> /\ cmd'.actor = cmd.actor
      BY ZenonT(30), <1>5
      DEF Prepares, GoesOn, Forgets, Initiates, Encrypts, Fails, Loses, Moves, runner
    <2>2. cmd.pc # "idle"
      BY <1>5 DEF Prepares, GoesOn, Forgets, Initiates, Encrypts, Fails, Loses, Requesting
    <2> QED
      BY Zenon, <1>3, <2>1, <2>2
  <1>6. CASE \E e : Decrypts(e)
    <2>1. UNCHANGED <<active, dropped>> /\ cmd'.actor = cmd.actor /\ cmd.pc = "decrypt"
      BY Zenon, <1>6 DEF Decrypts, Moves, runner
    <2> QED
      BY <1>3, <2>1
  <1>7. CASE \E r : Executes(r)
    <2>1. UNCHANGED <<active, dropped>>
      BY Zenon, <1>7 DEF Executes, runner
    <2>2. cmd' = cmd \/ (Requesting /\ Moves(Answered))
      BY Zenon, <1>7 DEF Executes
    <2>3. Requesting => cmd.pc # "idle"
      BY DEF Requesting
    <2> QED
      BY Zenon, <1>3, <1>4, <2>1, <2>2, <2>3 DEF Moves
  <1>8. CASE UNCHANGED vars
    BY Zenon, <1>4, <1>8 DEF vars, runner
  <1> QED
    BY Zenon, <1>1, <1>2, <1>5, <1>6, <1>7, <1>8 DEF Steps

\* The number of pairs counts up before a pair is at one of the points, or the
\* pair was at one of them before.
Paced(points) ==
    \/ pairs' = pairs + 1
    \/ pairs' = pairs /\ (cmd'.pc \in points => cmd.pc \in points)

\* The base keys that a step adds to a record.
AddsBase(p, q, b) ==
    \/ Initiates /\ p = cmd.actor /\ q = cmd.peer /\ b = pairs
    \/ \E e : Decrypts(e) /\ p = cmd.peer /\ q = e.message.sender /\ b = e.message.base

\* There are no others.
LEMMA StepKnown ==
    ASSUME BaseInv, SessionInv, Steps, NEW p \in Participants, NEW q \in Participants, NEW b,
           Known(p, q, b)'
    PROVE  Known(p, q, b) \/ AddsBase(p, q, b)
  <1> SUFFICES ASSUME ~Known(p, q, b) PROVE AddsBase(p, q, b)
    OBVIOUS
  <1>1. CASE Quiet
    BY Zenon, <1>1, QuietState DEF Known
  <1>2. CASE Forgets
    <2>1. \A x : x \notin Bases(<<>>)
      <3>1. DOMAIN <<>> = {}
        OBVIOUS
      <3> QED
        BY Zenon, <3>1 DEF Bases
    <2> QED
      BY Zenon, <1>2, <2>1 DEF Forgets, SetRecord, Known
  <1>3. CASE Initiates
    <2>1. Sets(cmd.actor, cmd.peer, pairs, prekey_bundles[cmd.peer][1])
      BY Zenon, <1>3, InitiateSets
    <2> QED
      BY Zenon, <1>3, <2>1 DEF Sets, Known, AddsBase
  <1>4. CASE Encrypts
    <2>1. PICK s : /\ Sets(cmd.actor, cmd.peer, s.base, s.bundle)
                   /\ Known(cmd.actor, cmd.peer, s.base)
      BY Zenon, <1>4, EncryptSets DEF SessionInv
    <2> QED
      BY Zenon, <2>1 DEF Sets, Known
  <1>5. ASSUME NEW e, Decrypts(e)
        PROVE  p = cmd.peer /\ q = e.message.sender /\ b = e.message.base
    <2>1. Sets(cmd.peer, e.message.sender, e.message.base, NoBundle)
      BY Zenon, <1>5, DecryptOpens DEF Opened
    <2> QED
      BY Zenon, <2>1 DEF Sets, Known
  <1> QED
    BY Zenon, <1>1, <1>2, <1>3, <1>4, <1>5 DEF Steps, Quiet, AddsBase

\* What a step adds to the base keys that were seen, and to the messages opened.
LEMMA StepOpened ==
    ASSUME BaseInv, SessionInv, Steps, NEW q \in Participants
    PROVE  \/ base_keys_seen'[q] = base_keys_seen[q] /\ opened'[q] = opened[q]
           \/ \E e : Decrypts(e) /\ q = cmd.peer
  <1>1. CASE Quiet
    BY Zenon, <1>1, QuietState
  <1>2. CASE Forgets \/ Initiates \/ Encrypts
    BY Zenon, <1>2 DEF Forgets, Initiates, Encrypts
  <1>3. ASSUME NEW e, Decrypts(e), q # cmd.peer
        PROVE  base_keys_seen'[q] = base_keys_seen[q] /\ opened'[q] = opened[q]
    <2>1. Opened(cmd.peer, e.message)
      BY Zenon, <1>3, DecryptOpens
    <2> QED
      BY ZenonT(30), <1>3, <2>1 DEF Opened
  <1> QED
    BY Zenon, <1>1, <1>2, <1>3 DEF Steps, Quiet

\* The base key of a pair stays new until its session is set up.
LEMMA NextFresh == BaseInv /\ SessionInv /\ Steps => Fresh'
  \* What was made before a pair is still older than it.
  <1>OldStays.
      ASSUME pairs \in Nat, NEW points, Paced(points), NEW b, Old(b, points)
      PROVE  Old(b, points)'
    BY <1>OldStays DEF Paced, Old

  \* Every step is paced.
  <1>StepPaced.
      ASSUME BaseInv, MessageOK, Steps
      PROVE  Paced(Starting) /\ Paced(Starting \cup {"consume"})
    <2> USE <1>StepPaced
    <2>1. CASE Quiet
      <3>1. QuietPoints
        BY ZenonT(30), <2>1, QuietGoes
      <3> QED
        BY Zenon, <3>1 DEF QuietPoints, Paced, Starting
    <2>2. CASE Forgets \/ Initiates
      BY <2>2 DEF Forgets, Initiates, Moves, runner, Paced, Starting
    <2>3. CASE Encrypts
      <3>1. pairs' = pairs /\ cmd'.pc = "post"
        BY Zenon, <2>3 DEF Encrypts, runner
      <3> QED
        BY <3>1 DEF Paced, Starting
    <2>4. CASE \E e : Decrypts(e)
      <3>1. pairs' = pairs /\ cmd'.pc = "update"
        BY Zenon, <2>4 DEF Decrypts, runner, Moves
      <3> QED
        BY <3>1 DEF Paced, Starting
    <2> QED
      BY Zenon, <2>1, <2>2, <2>3, <2>4 DEF Steps, Quiet

  \* The base key of a pair stays new until its session is set up.
  <1>Step.
      ASSUME BaseInv, SessionInv, Steps
      PROVE  Fresh'
    <2> USE <1>Step
    <2>0. pairs \in Nat /\ Fresh /\ MessageOK
      BY Zenon DEF BaseInv, OfferInv, RunnerTypes, SessionInv
    <2>1. \A b : Old(b, Starting) => Old(b, Starting)'
      BY Zenon, <2>0, <1>StepPaced, <1>OldStays
    <2>2. \A b : Old(b, Starting \cup {"consume"}) => Old(b, Starting \cup {"consume"})'
      BY ZenonT(30), <2>0, <1>StepPaced, <1>OldStays
    <2>3. ASSUME Initiates, NEW b, b = pairs
          PROVE  Old(b, Starting)'
      BY <2>0, <2>3 DEF Initiates, Moves, runner, Old, Starting
    <2>4. ASSUME NEW e, Decrypts(e)
          PROVE  /\ Old(e.message.base, Starting)'
                 /\ Old(e.message.base, Starting \cup {"consume"})'
                 /\ Opened(cmd.peer, e.message) /\ cmd.peer \in Participants
      <3>1. Opening(cmd.peer, e.message) /\ Opened(cmd.peer, e.message)
        BY Zenon, <2>4, DecryptOpens
      <3>2. Old(e.message.base, Starting) /\ cmd.peer \in Participants
        BY Zenon, <2>0, <3>1 DEF Fresh, Opening, Alive
      <3>3. cmd'.pc = "update" /\ pairs' = pairs
        BY Zenon, <2>4 DEF Decrypts, Moves, runner
      <3>4. Old(e.message.base, Starting \cup {"consume"})'
        BY <3>2, <3>3 DEF Old, Starting
      <3> QED
        BY Zenon, <2>1, <3>1, <3>2, <3>4
    <2>5. ASSUME NEW p \in Participants, NEW q \in Participants, NEW b, Known(p, q, b)'
          PROVE  Old(b, Starting)'
      <3>1. Known(p, q, b) => Old(b, Starting)
        BY Zenon, <2>0 DEF Fresh
      <3>2. \/ Known(p, q, b) \/ (Initiates /\ b = pairs)
            \/ \E e : Decrypts(e) /\ b = e.message.base
        <4>1. Known(p, q, b) \/ AddsBase(p, q, b)
          BY Zenon, <2>5, StepKnown
        <4> QED
          BY Zenon, <4>1 DEF AddsBase
      <3> QED
        BY Zenon, <2>1, <2>3, <2>4, <3>1, <3>2
    <2>6. ASSUME NEW q \in Participants, NEW b, b \in base_keys_seen'[q]
          PROVE  Old(b, Starting \cup {"consume"})'
      <3>1. b \in base_keys_seen[q] \/ \E e : Decrypts(e) /\ b = e.message.base
        <4>1. ASSUME NEW e, Decrypts(e) PROVE b \in base_keys_seen[q] \/ b = e.message.base
          <5>1. PICK p, x : x = e.message /\ Opened(p, x)
            BY Zenon, <2>4, <4>1
          <5> QED
            BY Zenon, <2>6, <5>1 DEF Opened
        <4> QED
          BY Zenon, <2>6, <4>1, StepOpened
      <3> QED
        BY Zenon, <2>0, <2>2, <2>4, <3>1 DEF Fresh
    <2>7. ASSUME NEW q \in Participants, NEW m, InFlight(q, m)'
          PROVE  Old(m.base, Starting)'
      <3>1. CASE InFlight(q, m)
        BY Zenon, <2>0, <2>1, <3>1 DEF Fresh
      <3>2. CASE Encrypts /\ m = cmd'.message
        <4>1. PICK s : /\ cmd.actor \in Participants /\ cmd.peer \in Participants
                       /\ Known(cmd.actor, cmd.peer, s.base) /\ cmd'.message.base = s.base
          BY Zenon, <3>2, EncryptSets DEF SessionInv
        <4> QED
          BY Zenon, <2>0, <2>1, <3>2, <4>1 DEF Fresh
      <3> QED
        <4>1. InFlight(q, m) \/ (Encrypts /\ q = cmd.peer /\ m = cmd'.message)
          BY Zenon, <2>7, FlightStep
        <4> QED
          BY Zenon, <3>1, <3>2, <4>1
    <2>8. ASSUME NEW q \in Participants, NEW m, m \in opened'[q]
          PROVE  Old(m.base, Starting)'
      <3>1. m \in opened[q] \/ \E e : Decrypts(e) /\ m = e.message
        <4>1. ASSUME NEW e, Decrypts(e) PROVE m \in opened[q] \/ m = e.message
          <5>1. PICK p, x : x = e.message /\ Opened(p, x)
            BY Zenon, <2>4, <4>1
          <5> QED
            BY Zenon, <2>8, <5>1 DEF Opened
        <4> QED
          BY Zenon, <2>8, <4>1, StepOpened
      <3> QED
        BY Zenon, <2>0, <2>1, <2>4, <3>1 DEF Fresh
    <2>9. ASSUME NEW s \in started'
          PROVE  Old(s.base, Starting)'
      <3>1. s \in started \/ (Initiates /\ s.base = pairs)
        <4>1. CASE Quiet
          BY Zenon, <4>1, QuietState
        <4>2. CASE Forgets \/ Encrypts
          BY Zenon, <4>2 DEF Forgets, Encrypts
        <4>3. CASE Initiates
          <5>1. PICK new : new.base = pairs /\ started' = started \cup {new}
            BY Zenon, <4>3 DEF Initiates
          <5> QED
            BY Zenon, <4>3, <5>1
        <4>4. CASE \E e : Decrypts(e)
          BY Zenon, <2>4, <4>4 DEF Opened
        <4> QED
          BY Zenon, <4>1, <4>2, <4>3, <4>4 DEF Steps, Quiet
      <3>2. CASE s \in started
        BY Zenon, <2>0, <2>1, <3>2 DEF Fresh
      <3>3. CASE Initiates /\ s.base = pairs
        BY Zenon, <2>3, <3>3
      <3> QED
        BY Zenon, <3>1, <3>2, <3>3
    <2> QED
      BY Zenon, <2>5, <2>6, <2>7, <2>8, <2>9 DEF Fresh

<1> QED
    BY Zenon, <1>Step

\* A base key stays with its pair.
LEMMA NextOnePair ==
    ASSUME BaseInv, SessionInv, Steps
    PROVE  OnePair'
  <1>0. OnePair /\ Fresh
    BY Zenon DEF SessionInv
  <1>1. ASSUME NEW p \in Participants, NEW q \in Participants, NEW x \in Participants,
               NEW y \in Participants, NEW b, AddsBase(p, q, b), Known(x, y, b)
        PROVE  (x = p /\ y = q) \/ (x = q /\ y = p)
    <2>1. CASE Initiates /\ b = pairs
      <3>1. Old(b, Starting) /\ cmd.pc = "establish"
        BY Zenon, <1>0, <1>1, <2>1 DEF Fresh, Initiates
      <3> QED
        BY Zenon, <2>1, <3>1 DEF Old, Starting
    <2>2. ASSUME NEW e, Decrypts(e), p = cmd.peer, q = e.message.sender, b = e.message.base
          PROVE  (x = p /\ y = q) \/ (x = q /\ y = p)
      <3>1. Opening(cmd.peer, e.message)
        BY Zenon, <2>2, DecryptOpens
      <3>2. Known(q, p, b)
        BY Zenon, <2>2, <3>1 DEF Opening
      <3> QED
        BY Zenon, <1>0, <1>1, <3>2 DEF OnePair
    <2> QED
      BY Zenon, <1>1, <2>1, <2>2 DEF AddsBase
  <1>2. ASSUME NEW p \in Participants, NEW q \in Participants, NEW x \in Participants,
               NEW y \in Participants, NEW b, AddsBase(p, q, b), AddsBase(x, y, b)
        PROVE  x = p /\ y = q
    <2>1. Initiates => cmd.pc = "establish"
      BY Zenon DEF Initiates
    <2>2. \A e : Decrypts(e) => cmd.pc = "decrypt" /\ e = Head(Pending)
      BY Zenon DEF Decrypts
    <2>3. CASE Initiates
      <3>1. \A e : ~Decrypts(e)
        BY <2>1, <2>2, <2>3
      <3> QED
        BY Zenon, <1>2, <3>1 DEF AddsBase
    <2>4. CASE ~Initiates
      <3>1. PICK e : Decrypts(e) /\ p = cmd.peer /\ q = e.message.sender
        BY Zenon, <1>2, <2>4 DEF AddsBase
      <3>2. PICK f : Decrypts(f) /\ x = cmd.peer /\ y = f.message.sender
        BY Zenon, <1>2, <2>4 DEF AddsBase
      <3>3. e = Head(Pending) /\ f = Head(Pending)
        BY Zenon, <2>2, <3>1, <3>2
      <3>4. e = f
        BY Zenon, <3>3
      <3> QED
        BY Zenon, <3>1, <3>2, <3>4
    <2> QED
      BY Zenon, <2>3, <2>4
  <1>3. ASSUME NEW p \in Participants, NEW q \in Participants, NEW x \in Participants,
               NEW y \in Participants, NEW b, Known(p, q, b)', Known(x, y, b)'
        PROVE  (x = p /\ y = q) \/ (x = q /\ y = p)
    <2>1. Known(p, q, b) \/ AddsBase(p, q, b)
      BY Zenon, <1>3, StepKnown
    <2>2. Known(x, y, b) \/ AddsBase(x, y, b)
      BY Zenon, <1>3, StepKnown
    <2>3. Known(p, q, b) /\ Known(x, y, b) => (x = p /\ y = q) \/ (x = q /\ y = p)
      BY Zenon, <1>0 DEF OnePair
    <2> QED
      BY Zenon, <1>1, <1>2, <2>1, <2>2, <2>3
  <1>4. ASSUME NEW p \in Participants, NEW q \in Participants
        PROVE  Distinct(sessions'[p][q])
    <2>0. Distinct(sessions[p][q])
      BY Zenon, <1>0 DEF OnePair
    <2>1. CASE Quiet
      BY Zenon, <2>0, <2>1, QuietState
    <2>2. CASE Forgets
      <3>1. Distinct(<<>>)
        BY DEF Distinct
      <3> QED
        BY Zenon, <2>0, <2>2, <3>1 DEF Forgets, SetRecord
    <2>3. CASE Initiates
      <3>1. Sets(cmd.actor, cmd.peer, pairs, prekey_bundles[cmd.peer][1])
        BY Zenon, <2>3, InitiateSets
      <3> QED
        BY Zenon, <2>0, <3>1 DEF Sets
    <2>4. CASE Encrypts
      <3>1. PICK s : Sets(cmd.actor, cmd.peer, s.base, s.bundle)
        BY Zenon, <1>0, <2>4, EncryptSets
      <3> QED
        BY Zenon, <2>0, <3>1 DEF Sets
    <2>5. CASE \E e : Decrypts(e)
      <3>1. PICK e : Sets(cmd.peer, e.message.sender, e.message.base, NoBundle)
        BY Zenon, <2>5, DecryptOpens DEF Opened
      <3> QED
        BY Zenon, <2>0, <3>1 DEF Sets
    <2> QED
      BY Zenon, <2>1, <2>2, <2>3, <2>4, <2>5 DEF Steps, Quiet
  <1> QED
    BY Zenon, <1>3, <1>4 DEF OnePair

\* No step brings a participant back.
LEMMA StepAlive ==
    ASSUME Steps
    PROVE  mode' = mode /\ Alive' \subseteq Alive /\ (Careful' <=> Careful)
  <1>1. CASE Quiet
    BY Zenon, <1>1, QuietState
  <1>2. CASE UNCHANGED runner
    BY Zenon, <1>2 DEF runner, Alive, Careful
  <1> QED
    BY Zenon, <1>1, <1>2 DEF Steps, Quiet, Forgets, Initiates, Encrypts, Decrypts

\* The state is that of a current one of before, of a new session, or of the message
\* opened.
HeadFrom(p, q, x) ==
    \/ /\ sessions[p][q] # <<>> /\ x.bundle = sessions[p][q][1].bundle
       /\ x.base = sessions[p][q][1].base
    \/ /\ Initiates /\ p = cmd.actor /\ q = cmd.peer /\ x.base = pairs
       /\ x.bundle = prekey_bundles[cmd.peer][1]
    \/ \E e : /\ Decrypts(e) /\ p = cmd.peer /\ q = e.message.sender
              /\ x.base = e.message.base /\ x.bundle = NoBundle

\* So is every current state.
LEMMA StepHead ==
    ASSUME BaseInv, SessionInv, Steps, NEW p \in Participants, NEW q \in Participants,
           sessions'[p][q] # <<>>, NEW x, x = sessions'[p][q][1]
    PROVE  HeadFrom(p, q, x)
  <1>0. sessions'[p][q] = sessions[p][q] => HeadFrom(p, q, x)
    BY Zenon DEF HeadFrom
  <1>1. CASE Quiet
    BY Zenon, <1>0, <1>1, QuietState
  <1>2. CASE Forgets
    BY Zenon, <1>0, <1>2 DEF Forgets, SetRecord
  <1>3. CASE Initiates
    <2>1. Sets(cmd.actor, cmd.peer, pairs, prekey_bundles[cmd.peer][1])
      BY Zenon, <1>3, InitiateSets
    <2>2. CASE p = cmd.actor /\ q = cmd.peer
      BY Zenon, <1>3, <2>1, <2>2 DEF Sets, HeadFrom
    <2> QED
      BY Zenon, <1>0, <2>1, <2>2 DEF Sets
  <1>4. CASE Encrypts
    <2>1. PICK s : /\ s = sessions[cmd.actor][cmd.peer][1] /\ sessions[cmd.actor][cmd.peer] # <<>>
                   /\ Sets(cmd.actor, cmd.peer, s.base, s.bundle)
      BY Zenon, <1>4, EncryptSets DEF SessionInv
    <2>2. CASE p = cmd.actor /\ q = cmd.peer
      BY Zenon, <2>1, <2>2 DEF Sets, HeadFrom
    <2> QED
      BY Zenon, <1>0, <2>1, <2>2 DEF Sets
  <1>5. ASSUME NEW e, Decrypts(e)
        PROVE  HeadFrom(p, q, x)
    <2>1. Sets(cmd.peer, e.message.sender, e.message.base, NoBundle)
      BY Zenon, <1>5, DecryptOpens DEF Opened
    <2>2. CASE p = cmd.peer /\ q = e.message.sender
      <3>1. x.base = e.message.base /\ x.bundle = NoBundle
        BY Zenon, <2>1, <2>2 DEF Sets
      <3> QED
        BY Zenon, <1>5, <2>2, <3>1 DEF HeadFrom
    <2> QED
      BY Zenon, <1>0, <2>1, <2>2 DEF Sets
  <1> QED
    BY Zenon, <1>1, <1>2, <1>3, <1>4, <1>5 DEF Steps, Quiet

\* The base key of a current state is on record.
LEMMA HeadKnown ==
    ASSUME BaseInv, NEW p \in Participants, NEW q \in Participants, sessions[p][q] # <<>>
    PROVE  Known(p, q, sessions[p][q][1].base)
  <1>1. sessions[p][q] \in Seq(SessionState)
    BY Zenon DEF BaseInv, OfferInv, RatchetTypes
  <1> QED
    BY Zenon, <1>1, BasesAre DEF Known

\* What was seen, opened, started and accepted stays so.
LEMMA StepGrows ==
    ASSUME BaseInv, SessionInv, Steps
    PROVE  /\ \A q \in Participants : /\ base_keys_seen[q] \subseteq base_keys_seen'[q]
                                      /\ opened[q] \subseteq opened'[q]
           /\ started \subseteq started' /\ accepted \subseteq accepted'
  <1>1. CASE Quiet
    BY Zenon, <1>1, QuietState
  <1>2. CASE Forgets \/ Initiates \/ Encrypts
    BY Zenon, <1>2 DEF Forgets, Initiates, Encrypts
  <1>3. ASSUME NEW e, Decrypts(e)
        PROVE  /\ \A q \in Participants : /\ base_keys_seen[q] \subseteq base_keys_seen'[q]
                                          /\ opened[q] \subseteq opened'[q]
               /\ started \subseteq started' /\ accepted \subseteq accepted'
    <2>1. PICK p, m : Opened(p, m)
      BY Zenon, <1>3, DecryptOpens
    <2> QED
      BY Zenon, <2>1 DEF Opened
  <1> QED
    BY Zenon, <1>1, <1>2, <1>3 DEF Steps, Quiet

\* A base key that is not on record is seen by the one who opens the message.
LEMMA OpenedSeen ==
    ASSUME BaseInv, SessionInv, NEW e, Decrypts(e), NEW p, p = cmd.peer, NEW m, m = e.message
    PROVE  /\ Opening(p, m) /\ Opened(p, m) /\ p \in Participants /\ m.sender \in Participants
           /\ Known(p, m.sender, m.base) \/ m.base \in base_keys_seen'[p]
  <1>1. Opening(p, m) /\ Opened(p, m)
    BY Zenon, DecryptOpens
  <1>2. p \in Participants /\ m.sender \in Participants
    BY Zenon, <1>1 DEF Opening, Alive
  <1> QED
    BY Zenon, <1>1, <1>2 DEF Opened

\* Who has a session whose bundle the other side names has set it up by a message.
LEMMA NextBundleSeen ==
    ASSUME BaseInv, SessionInv, Steps
    PROVE  BundleSeen'
  <1>0. BundleSeen /\ Fresh
    BY Zenon DEF SessionInv
  <1>1. ASSUME NEW q \in Participants, NEW b, b \in base_keys_seen[q]
        PROVE  b \in base_keys_seen'[q]
    BY Zenon, <1>1, StepGrows
  <1>2. ASSUME NEW p \in Participants, NEW q \in Participants, NEW b, AddsBase(q, p, b),
               Old(b, Starting), ~Known(q, p, b)
        PROVE  b \in base_keys_seen'[q]
    <2>1. CASE Initiates /\ b = pairs
      <3>1. cmd.pc \in Starting
        BY Zenon, <2>1 DEF Initiates, Starting
      <3> QED
        BY Zenon, <1>2, <2>1, <3>1 DEF Old
    <2>2. ASSUME NEW e, Decrypts(e), q = cmd.peer, p = e.message.sender, b = e.message.base
          PROVE  b \in base_keys_seen'[q]
      <3>1. Known(q, p, b) \/ b \in base_keys_seen'[q]
        BY Zenon, <2>2, OpenedSeen
      <3> QED
        BY Zenon, <1>2, <3>1
    <2> QED
      BY Zenon, <1>2, <2>1, <2>2 DEF AddsBase
  <1>3. ASSUME NEW p \in Participants, NEW q \in Participants, sessions'[p][q] # <<>>,
               NEW x, x = sessions'[p][q][1], x.bundle # NoBundle, Known(q, p, x.base)'
        PROVE  x.base \in base_keys_seen'[q]
    <2>1. Known(q, p, x.base) \/ AddsBase(q, p, x.base)
      BY Zenon, <1>3, StepKnown
    <2>2. CASE /\ sessions[p][q] # <<>> /\ x.bundle = sessions[p][q][1].bundle
               /\ x.base = sessions[p][q][1].base
      <3>1. Old(x.base, Starting)
        BY Zenon, <1>0, <2>2, HeadKnown DEF Fresh
      <3>2. Known(q, p, x.base) => x.base \in base_keys_seen[q]
        BY Zenon, <1>0, <1>3, <2>2 DEF BundleSeen
      <3> QED
        BY Zenon, <1>1, <1>2, <2>1, <3>1, <3>2
    <2>3. CASE Initiates /\ p = cmd.actor /\ q = cmd.peer /\ x.base = pairs
      <3>1. cmd.pc = "establish" /\ cmd.actor # cmd.peer
        BY Zenon, <2>3, InitiateSets DEF Initiates
      <3>2. ~Known(q, p, x.base)
        BY Zenon, <1>0, <2>3, <3>1 DEF Fresh, Old, Starting
      <3>3. \A e : ~Decrypts(e)
        BY <3>1 DEF Decrypts
      <3> QED
        BY Zenon, <2>1, <2>3, <3>1, <3>2, <3>3 DEF AddsBase
    <2>4. HeadFrom(p, q, x)
      BY Zenon, <1>3, StepHead
    <2> QED
      BY Zenon, <1>3, <2>2, <2>3, <2>4 DEF HeadFrom
  <1>4. ASSUME NEW q \in Participants, NEW m, InFlight(q, m)', m.bundle # NoBundle,
               Known(q, m.sender, m.base)'
        PROVE  m.base \in base_keys_seen'[q]
    <2>1. CASE InFlight(q, m)
      <3>1. m.sender \in Participants
        <4>1. m \in Message
          BY Zenon, <2>1 DEF SessionInv, Envelopes
        <4> QED
          BY Zenon, <4>1 DEF Message
      <3>2. Known(q, m.sender, m.base) \/ AddsBase(q, m.sender, m.base)
        BY Zenon, <1>4, <3>1, StepKnown
      <3>3. Old(m.base, Starting)
        BY Zenon, <1>0, <2>1 DEF Fresh
      <3>4. Known(q, m.sender, m.base) => m.base \in base_keys_seen[q]
        BY Zenon, <1>0, <1>4, <2>1 DEF BundleSeen
      <3> QED
        BY Zenon, <1>1, <1>2, <3>1, <3>2, <3>3, <3>4
    <2>2. CASE Encrypts /\ q = cmd.peer /\ m = cmd'.message
      <3>1. PICK s : /\ s = sessions[cmd.actor][cmd.peer][1] /\ sessions[cmd.actor][cmd.peer] # <<>>
                     /\ cmd.actor \in Participants
                     /\ m.sender = cmd.actor /\ m.base = s.base /\ m.bundle = s.bundle
        BY Zenon, <2>2, EncryptSets DEF SessionInv
      <3>2. Known(q, m.sender, m.base) \/ AddsBase(q, m.sender, m.base)
        BY ZenonT(30), <1>4, <3>1, StepKnown
      <3>3. ~AddsBase(q, m.sender, m.base)
        BY <2>2 DEF AddsBase, Encrypts, Initiates, Decrypts
      <3>4. m.base \in base_keys_seen[q]
        BY Zenon, <1>0, <1>4, <2>2, <3>1, <3>2, <3>3 DEF BundleSeen
      <3> QED
        BY Zenon, <1>1, <3>4
    <2>3. InFlight(q, m) \/ (Encrypts /\ q = cmd.peer /\ m = cmd'.message)
      BY Zenon, <1>4, FlightStep
    <2> QED
      BY Zenon, <2>1, <2>2, <2>3
  <1>5. ASSUME NEW q \in Participants, NEW m, m \in opened'[q], m.bundle # NoBundle
        PROVE  m.base \in base_keys_seen'[q]
    <2>1. CASE m \in opened[q]
      BY Zenon, <1>0, <1>1, <1>5, <2>1 DEF BundleSeen
    <2>2. ASSUME NEW e, Decrypts(e), q = cmd.peer, m \notin opened[q]
          PROVE  m.base \in base_keys_seen'[q]
      <3>0. PICK x : x = e.message
        BY Zenon
      <3>1. /\ Opening(q, x) /\ Opened(q, x)
            /\ Known(q, x.sender, x.base) \/ x.base \in base_keys_seen'[q]
        BY Zenon, <2>2, <3>0, OpenedSeen
      <3>2. m = x
        BY ZenonT(30), <1>5, <2>2, <3>1 DEF Opened
      <3>3. Known(q, m.sender, m.base) => m.base \in base_keys_seen[q]
        BY Zenon, <1>0, <1>5, <3>1, <3>2 DEF BundleSeen, Opening
      <3> QED
        BY Zenon, <1>1, <3>1, <3>2, <3>3
    <2> QED
      BY Zenon, <1>5, <2>1, <2>2, StepOpened
  <1> QED
    BY Zenon, <1>3, <1>4, <1>5 DEF BundleSeen

\* Only a reset takes a base key from a record.
LEMMA KnownStays ==
    ASSUME BaseInv, SessionInv, Steps, ~Forgets, NEW p \in Participants, NEW q \in Participants,
           NEW b, Known(p, q, b)
    PROVE  Known(p, q, b)'
  <1>0. sessions'[p][q] = sessions[p][q] => Known(p, q, b)'
    BY Zenon DEF Known
  <1>1. CASE Quiet
    BY Zenon, <1>0, <1>1, QuietState
  <1>2. ASSUME NEW x, NEW y, NEW base, NEW bundle, Sets(x, y, base, bundle)
        PROVE  Known(p, q, b)'
    BY Zenon, <1>0, <1>2 DEF Sets, Known
  <1>3. CASE Initiates
    BY Zenon, <1>2, <1>3, InitiateSets
  <1>4. CASE Encrypts
    <2>1. PICK s : Sets(cmd.actor, cmd.peer, s.base, s.bundle)
      BY Zenon, <1>4, EncryptSets DEF SessionInv
    <2> QED
      BY Zenon, <1>2, <2>1
  <1>5. CASE \E e : Decrypts(e)
    <2>1. PICK e : Sets(cmd.peer, e.message.sender, e.message.base, NoBundle)
      BY Zenon, <1>5, DecryptOpens DEF Opened
    <2> QED
      BY Zenon, <1>2, <2>1
  <1> QED
    BY Zenon, <1>1, <1>3, <1>4, <1>5 DEF Steps, Quiet

\* Then what is good at the other side stays so.
LEMMA LinkedStays ==
    ASSUME BaseInv, SessionInv, Steps, ~Forgets, NEW p \in Participants, NEW q \in Participants,
           NEW x, Known(p, q, x.base), Linked(p, q, x)
    PROVE  Linked(p, q, x)'
  <1>1. CASE Known(q, p, x.base)
    <2>1. Known(q, p, x.base)'
      BY Zenon, <1>1, KnownStays
    <2> QED
      BY Zenon, <2>1 DEF Linked
  <1>2. CASE base_keys_seen'[q] = base_keys_seen[q] /\ ~Known(q, p, x.base)
    BY Zenon, <1>2 DEF Linked
  <1>3. ASSUME NEW e, Decrypts(e), q = cmd.peer, ~Known(q, p, x.base)
        PROVE  Linked(p, q, x)'
    <2>1. PICK m : m = e.message
      BY Zenon
    <2>2. Opening(q, m) /\ Opened(q, m) /\ m.sender \in Participants
      BY Zenon, <1>3, <2>1, OpenedSeen
    <2>3. CASE x.base = m.base
      <3>1. Known(m.sender, q, x.base) /\ m.sender # q
        BY Zenon, <2>2, <2>3 DEF Opening
      <3>2. p = m.sender
        BY Zenon, <2>2, <3>1 DEF SessionInv, OnePair
      <3>3. x.base \in Bases(sessions'[q][p])
        BY Zenon, <2>2, <2>3, <3>2 DEF Opened, Sets
      <3>4. Known(q, p, x.base)'
        BY Zenon, <3>3 DEF Known
      <3> QED
        BY Zenon, <3>4 DEF Linked
    <2>4. CASE x.base # m.base
      <3>1. x.bundle # NoBundle /\ x.base \notin base_keys_seen[q]
        BY Zenon, <1>3 DEF Linked
      <3>2. x.base \notin base_keys_seen'[q]
        BY Zenon, <2>2, <2>4, <3>1 DEF Opened
      <3> QED
        BY Zenon, <3>1, <3>2 DEF Linked
    <2> QED
      BY Zenon, <2>3, <2>4
  <1>4. base_keys_seen'[q] = base_keys_seen[q] \/ \E e : Decrypts(e) /\ q = cmd.peer
    BY Zenon, StepOpened
  <1> QED
    BY Zenon, <1>1, <1>2, <1>3, <1>4

\* At the points of a reset, or of the end of a run, other steps leave the command.
LEMMA PointStays ==
    ASSUME BaseInv, SessionInv, Steps, ~Forgets, cmd.pc \in Ended \cup {"reset_peer"}
    PROVE  cmd' = cmd
  <1>1. ~Initiates /\ ~Encrypts /\ \A e : ~Decrypts(e)
    BY DEF Initiates, Encrypts, Decrypts, Ended
  <1>2. Quiet
    BY Zenon, <1>1 DEF Steps, Quiet
  <1>3. QuietPoints
    BY Zenon, <1>2, QuietGoes DEF SessionInv
  <1> QED
    BY ZenonT(30), <1>3 DEF QuietPoints

\* A reset leaves the sessions of other pairs.
LEMMA ForgetHeads ==
    ASSUME BaseInv, SessionInv, Forgets, NEW p \in Participants, NEW q \in Participants,
           sessions'[p][q] # <<>>, ~HalfReset(p, q)'
    PROVE  /\ ~HalfReset(p, q) /\ sessions'[p][q] = sessions[p][q]
           /\ sessions'[q][p] = sessions[q][p] /\ base_keys_seen' = base_keys_seen
  <1>1. /\ base_keys_seen' = base_keys_seen /\ cmd'.actor = cmd.actor /\ cmd'.peer = cmd.peer
        /\ cmd.actor \in Participants /\ cmd.peer \in Participants
    BY Zenon DEF Forgets, Moves
  <1>2. cmd.actor # cmd.peer
    BY Zenon DEF Forgets, BaseInv, OfferInv, CommandOK
  <1>3. CASE /\ cmd.pc = "reset_actor" /\ cmd'.pc = "reset_peer"
             /\ SetRecord(cmd.actor, cmd.peer, <<>>)
    <2>1. ~HalfReset(p, q)
      BY <1>3 DEF HalfReset
    <2>2. ~(p = cmd.peer /\ q = cmd.actor)
      BY Zenon, <1>1, <1>3 DEF HalfReset
    <2>3. ~(p = cmd.actor /\ q = cmd.peer)
      BY Zenon, <1>3 DEF SetRecord
    <2>4. sessions'[p][q] = sessions[p][q] /\ sessions'[q][p] = sessions[q][p]
      BY Zenon, <1>3, <2>2, <2>3 DEF SetRecord
    <2> QED
      BY Zenon, <1>1, <2>1, <2>4
  <1>4. CASE /\ cmd.pc = "reset_peer" /\ cmd'.pc = "establish"
             /\ SetRecord(cmd.peer, cmd.actor, <<>>)
    <2>1. ~(p = cmd.peer /\ q = cmd.actor)
      BY Zenon, <1>4 DEF SetRecord
    <2>2. sessions[cmd.actor][cmd.peer] = <<>>
      BY Zenon, <1>4 DEF SessionInv, MessageOK
    <2>3. ~(p = cmd.actor /\ q = cmd.peer)
      <3>1. sessions'[cmd.actor][cmd.peer] = sessions[cmd.actor][cmd.peer]
        BY Zenon, <1>1, <1>2, <1>4 DEF SetRecord
      <3> QED
        BY Zenon, <2>2, <3>1
    <2> QED
      BY Zenon, <1>1, <1>4, <2>1, <2>3 DEF SetRecord, HalfReset
  <1> QED
    BY Zenon, <1>3, <1>4 DEF Forgets

\* The session with which one side would send stays good at the other.
LEMMA NextHeads ==
    ASSUME BaseInv, SessionInv, Steps
    PROVE  Heads'
  <1> SUFFICES ASSUME NEW p \in Alive', NEW q \in Alive', sessions'[p][q] # <<>>,
                      ~HalfReset(p, q)', NEW x, x = sessions'[p][q][1]
               PROVE  Linked(p, q, x)'
    BY Zenon DEF Heads
  <1>1. p \in Alive /\ q \in Alive /\ p \in Participants /\ q \in Participants
    BY Zenon, StepAlive DEF Alive
  <1>2. CASE Forgets
    <2>1. /\ ~HalfReset(p, q) /\ sessions'[p][q] = sessions[p][q]
          /\ sessions'[q][p] = sessions[q][p] /\ base_keys_seen' = base_keys_seen
      BY Zenon, <1>1, <1>2, ForgetHeads
    <2>2. Linked(p, q, x)
      BY Zenon, <1>1, <2>1 DEF SessionInv, Heads
    <2> QED
      BY Zenon, <2>1, <2>2 DEF Linked, Known
  <1>3. CASE ~Forgets
    <2>1. CASE /\ sessions[p][q] # <<>> /\ x.bundle = sessions[p][q][1].bundle
               /\ x.base = sessions[p][q][1].base
      <3>1. ~HalfReset(p, q)
        BY Zenon, <1>3, PointStays DEF HalfReset
      <3>2. Linked(p, q, x)
        BY Zenon, <1>1, <2>1, <3>1 DEF SessionInv, Heads, Linked
      <3>3. Known(p, q, x.base)
        BY Zenon, <1>1, <2>1, HeadKnown
      <3> QED
        BY Zenon, <1>1, <1>3, <3>2, <3>3, LinkedStays
    <2>2. CASE /\ Initiates /\ p = cmd.actor /\ q = cmd.peer /\ x.base = pairs
               /\ x.bundle = prekey_bundles[cmd.peer][1]
      <3>1. x.bundle # NoBundle /\ base_keys_seen' = base_keys_seen /\ cmd.pc = "establish"
        BY Zenon, <2>2, InitiateSets DEF Initiates
      <3>2. x.base \notin base_keys_seen[q]
        BY Zenon, <1>1, <2>2, <3>1 DEF SessionInv, Fresh, Old, Starting
      <3> QED
        BY Zenon, <3>1, <3>2 DEF Linked
    <2>3. ASSUME NEW e, Decrypts(e), p = cmd.peer, q = e.message.sender, x.base = e.message.base
          PROVE  Linked(p, q, x)'
      <3>1. Opening(cmd.peer, e.message)
        BY Zenon, <2>3, DecryptOpens
      <3>2. Known(q, p, x.base)
        BY Zenon, <2>3, <3>1 DEF Opening
      <3>3. Known(q, p, x.base)'
        BY Zenon, <1>1, <1>3, <3>2, KnownStays
      <3> QED
        BY Zenon, <3>3 DEF Linked
    <2>4. HeadFrom(p, q, x)
      BY Zenon, <1>1, StepHead
    <2> QED
      BY Zenon, <2>1, <2>2, <2>3, <2>4 DEF HeadFrom
  <1> QED
    BY Zenon, <1>2, <1>3

\* A message in flight stays good, until it is opened.
LEMMA NextFlight ==
    ASSUME BaseInv, SessionInv, Steps
    PROVE  Flight'
  <1> SUFFICES ASSUME NEW q \in Alive', NEW m, InFlight(q, m)', m.sender \in Alive',
                      m \notin opened'[q]
               PROVE  /\ Known(m.sender, q, m.base)' /\ Linked(m.sender, q, m)'
                      /\ Careful' => UnderWay(q, m)' \/ cmd'.pc \in Ended
    BY Zenon DEF Flight
  <1>0. PICK p : p = m.sender
    BY Zenon
  <1>1. /\ p \in Alive /\ q \in Alive /\ p \in Participants /\ q \in Participants
        /\ Careful' <=> Careful
    BY Zenon, <1>0, StepAlive DEF Alive
  <1>2. m \notin opened[q]
    BY Zenon, <1>1, StepGrows
  <1>3. CASE InFlight(q, m)
    <2>1. /\ Known(p, q, m.base) /\ Linked(p, q, m)
          /\ Careful => UnderWay(q, m) \/ cmd.pc \in Ended
      BY Zenon, <1>0, <1>1, <1>2, <1>3 DEF SessionInv, Flight
    <2>2. ~Forgets
      <3> SUFFICES ASSUME Forgets PROVE FALSE
        OBVIOUS
      <3>1. cmd.pc \in {"reset_actor", "reset_peer"}
        BY Zenon DEF Forgets
      <3>2. Careful
        BY Zenon, <3>1 DEF SessionInv, MessageOK, Careful
      <3> QED
        BY <2>1, <3>1, <3>2 DEF UnderWay, Ended
    <2>3. Known(p, q, m.base)' /\ Linked(p, q, m)'
      BY Zenon, <1>1, <2>1, <2>2, KnownStays, LinkedStays
    <2>4. CASE cmd.pc \in Ended
      BY Zenon, <1>0, <2>2, <2>3, <2>4, PointStays
    <2>5. CASE UnderWay(q, m) /\ Careful
      <3>1. cmd.pc \in {"post", "decrypt"} /\ cmd.peer = q /\ cmd.message = m /\ p = cmd.actor
        BY Zenon, <1>0, <2>5 DEF UnderWay, SessionInv, MessageOK
      <3>2. \A e : ~Decrypts(e)
        <4> SUFFICES ASSUME NEW e, Decrypts(e) PROVE FALSE
          OBVIOUS
        <4>1. PICK x : x = e.message /\ Opening(q, x) /\ Opened(q, x)
          BY Zenon, <3>1, DecryptOpens
        <4>2. x = m
          BY Zenon, <2>5, <3>1, <4>1 DEF Opening
        <4> QED
          BY Zenon, <1>1, <4>1, <4>2 DEF Opened
      <3>3. ~Initiates /\ ~Encrypts
        BY <3>1 DEF Initiates, Encrypts
      <3>4. Quiet
        BY Zenon, <2>2, <3>2, <3>3 DEF Steps, Quiet
      <3>5. QuietPoints
        BY Zenon, <3>4, QuietGoes DEF SessionInv
      <3>6. Proceeds
        BY Zenon, <2>5, <3>1, <3>5 DEF QuietPoints, Handshaking
      <3>7. ~(mode.sweep /\ (cmd.actor \in dropped' \/ cmd.peer \in dropped'))
        BY Zenon, <1>0, <3>1, StepAlive DEF Alive
      <3>8. UnderWay(q, m)' \/ cmd'.pc \in Ended
        BY Zenon, <3>1, <3>6, <3>7 DEF Proceeds, UnderWay
      <3> QED
        BY Zenon, <1>0, <2>3, <3>8
    <2> QED
      BY Zenon, <1>0, <1>1, <2>1, <2>3, <2>4, <2>5
  <1>4. CASE Encrypts /\ q = cmd.peer /\ m = cmd'.message
    <2>1. PICK s : /\ s = sessions[cmd.actor][cmd.peer][1] /\ sessions[cmd.actor][cmd.peer] # <<>>
                   /\ p = cmd.actor /\ Known(p, q, s.base)
                   /\ m.base = s.base /\ m.bundle = s.bundle
      BY Zenon, <1>0, <1>4, EncryptSets DEF SessionInv
    <2>2. cmd.pc = "encrypt" /\ cmd'.pc = "post" /\ cmd'.peer = cmd.peer
      BY Zenon, <1>4 DEF Encrypts
    <2>3. ~HalfReset(p, q) /\ ~Forgets
      BY <2>2 DEF HalfReset, Forgets
    <2>4. Linked(p, q, m) /\ Known(p, q, m.base)
      BY Zenon, <1>1, <1>4, <2>1, <2>3 DEF SessionInv, Heads, Linked
    <2>5. Known(p, q, m.base)' /\ Linked(p, q, m)'
      BY Zenon, <1>1, <2>3, <2>4, KnownStays, LinkedStays
    <2>6. UnderWay(q, m)'
      BY Zenon, <1>4, <2>2 DEF UnderWay
    <2> QED
      BY Zenon, <1>0, <2>5, <2>6
  <1>5. InFlight(q, m) \/ (Encrypts /\ q = cmd.peer /\ m = cmd'.message)
    BY Zenon, <1>1, FlightStep
  <1> QED
    BY Zenon, <1>3, <1>4, <1>5

\* The relay goes on to know the sender of a message.
LEMMA NextEnvelopes == BaseInv /\ SessionInv /\ Steps => Envelopes'
  \* An envelope of an inbox was there before, or names the sender of its message.
  <1>StepInbox.
      ASSUME BaseInv, Steps, NEW q \in Participants, NEW i \in 1..Len(inboxes'[q])
      PROVE  \/ \E j \in 1..Len(inboxes[q]) : inboxes'[q][i] = inboxes[q][j]
             \/ inboxes'[q][i].sender = inboxes'[q][i].message.sender
    <2> USE <1>StepInbox
    <2>1. CASE inboxes' = inboxes
      BY Zenon, <2>1
    <2>2. ASSUME NEW r, Executes(r)
          PROVE  \/ \E j \in 1..Len(inboxes[q]) : inboxes'[q][i] = inboxes[q][j]
                 \/ inboxes'[q][i].sender = inboxes'[q][i].message.sender
      <3>1. RequestOK(r) /\ Execute(r) /\ ServiceTypes /\ inboxes[q] \in Seq(Envelope)
        BY Zenon, <2>2 DEF Executes, BaseInv, OfferInv, ServiceTypes
      <3>2. Delivered(r, q, inboxes'[q], inboxes[q])
        BY Zenon, <3>1, ExecuteDelivers
      <3>3. Grown(r, q, inboxes'[q], inboxes[q])
        BY Zenon, <3>1, <3>2, DeliveredElements
      <3>4. PICK new, old : new = inboxes'[q] /\ old = inboxes[q] /\ Grown(r, q, new, old)
        BY Zenon, <3>3
      <3>5. \/ \E j \in 1..Len(old) : new[i] = old[j]
            \/ new[i].message = r.message /\ new[i].sender = r.message.sender
        BY Zenon, <3>4 DEF Grown
      <3> QED
        BY Zenon, <3>4, <3>5
    <2>3. ASSUME NEW e, Decrypts(e)
          PROVE  \E j \in 1..Len(inboxes[q]) : inboxes'[q][i] = inboxes[q][j]
      <3>1. /\ cmd.peer \in Participants /\ ServiceTypes
            /\ inboxes' = ack_message(inboxes, cmd.peer, e)
        BY Zenon, <2>3 DEF Decrypts, Moves, BaseInv, OfferInv
      <3>2. \A k \in 1..Len(inboxes'[q]) : \E j \in 1..Len(inboxes[q]) :
               inboxes'[q][k] = inboxes[q][j] /\ (q = cmd.peer => inboxes[q][j].id # e.id)
        BY ZenonT(30), <3>1, AckLeaves
      <3> QED
        BY Zenon, <3>2
    <2>4. CASE \/ Rests \/ Starts \/ Prepares \/ GoesOn \/ Forgets \/ Initiates \/ Encrypts
               \/ Fails \/ Loses \/ UNCHANGED vars
      <3>1. inboxes' = inboxes
        BY Zenon, <2>4 DEF Rests, Starts, Prepares, GoesOn, Forgets, Initiates, Encrypts, Fails,
           Loses, vars, services
      <3> QED
        BY Zenon, <2>1, <3>1
    <2> QED
      BY Zenon, <2>2, <2>3, <2>4 DEF Steps

  \* The relay goes on to know the sender of a message.
  <1>Step.
      ASSUME BaseInv, SessionInv, Steps
      PROVE  Envelopes'
    <2> USE <1>Step
    <2>1. ASSUME NEW q \in Participants, NEW i \in 1..Len(inboxes'[q])
          PROVE  inboxes'[q][i].sender = inboxes'[q][i].message.sender
      <3>1. \/ \E j \in 1..Len(inboxes[q]) : inboxes'[q][i] = inboxes[q][j]
            \/ inboxes'[q][i].sender = inboxes'[q][i].message.sender
        BY Zenon, <1>StepInbox
      <3>2. \A j \in 1..Len(inboxes[q]) : inboxes[q][j].sender = inboxes[q][j].message.sender
        BY Zenon DEF SessionInv, Envelopes
      <3>3. PICK e : e = inboxes'[q][i]
        BY Zenon
      <3>4. e.sender = e.message.sender
        BY Zenon, <3>1, <3>2, <3>3
      <3> QED
        BY Zenon, <3>3, <3>4
    <2>2. ASSUME NEW q \in Participants, NEW m, InFlight(q, m)'
          PROVE  m \in Message /\ m.sender # q
      <3>1. CASE InFlight(q, m)
        BY Zenon, <3>1 DEF SessionInv, Envelopes
      <3>2. CASE Encrypts /\ q = cmd.peer /\ m = cmd'.message
        BY Zenon, <3>2, EncryptSets DEF SessionInv
      <3>3. InFlight(q, m) \/ (Encrypts /\ q = cmd.peer /\ m = cmd'.message)
        BY Zenon, <2>2, FlightStep
      <3> QED
        BY Zenon, <3>1, <3>2, <3>3
    <2> QED
      BY Zenon, <2>1, <2>2 DEF Envelopes

<1> QED
    BY Zenon, <1>Step

\* A message waits in an inbox.
Waiting(q, m) == \E i \in 1..Len(inboxes[q]) : inboxes[q][i].message = m

\* The message of the command under way stays that of its actor's current session.
LEMMA NextMessageOK == BaseInv /\ SessionInv /\ Steps => MessageOK'
  \* A quiet step makes no message, and resets a session only for external devices.
  <1>QuietMessage.
      ASSUME Quiet
      PROVE  /\ cmd'.pc \in {"post", "decrypt"} =>
                   /\ cmd.pc \in {"post", "decrypt"} /\ cmd'.actor = cmd.actor
                   /\ cmd'.peer = cmd.peer /\ cmd'.message = cmd.message /\ cmd'.decrypt = cmd.decrypt
                   /\ cmd'.pc = "post" => cmd.pc = "post"
             /\ cmd'.pc \in {"reset_actor", "reset_peer"} =>
                   cmd' = cmd \/ (mode.external /\ cmd'.pc = "reset_actor")
    <2> USE <1>QuietMessage
    <2>1. CASE Rests \/ Starts \/ Prepares \/ GoesOn \/ Fails
      BY <2>1 DEF Rests, Starts, Prepares, GoesOn, Fails
    <2>2. CASE Loses
      BY <2>2 DEF Loses, Requesting, Moves
    <2>3. CASE \E r : Executes(r)
      <3>1. cmd' = cmd \/ (Requesting /\ Moves(Answered))
        BY Zenon, <2>3 DEF Executes
      <3> QED
        BY <3>1 DEF Requesting, Moves, Answered
    <2>4. CASE UNCHANGED vars
      BY Zenon, <2>4 DEF vars
    <2> QED
      BY ZenonT(30), <2>1, <2>2, <2>3, <2>4 DEF Quiet

  \* The message that the peer is to open waits for it from its POST on.
  <1>WaitingStays.
      ASSUME BaseInv, SessionInv, Quiet, cmd'.pc = "decrypt"
      PROVE  Waiting(cmd.peer, cmd.message)'
    <2> USE <1>WaitingStays
    <2>1. /\ cmd.pc \in {"post", "decrypt"} /\ cmd'.actor = cmd.actor
          /\ cmd'.peer = cmd.peer /\ cmd'.message = cmd.message
      BY Zenon, <1>QuietMessage
    <2>2. PICK q, m : q = cmd.peer /\ m = cmd.message
      BY Zenon
    <2>3. /\ q \in Participants /\ m.sender # q
          /\ cmd.pc = "decrypt" => Waiting(q, m)
      BY Zenon, <2>1, <2>2, PairAlive DEF SessionInv, MessageOK, Waiting, Handshaking
    <2>4. ASSUME NEW r, Executes(r)
          PROVE  \E i \in 1..Len(inboxes'[q]) : inboxes'[q][i].message = m
      <3>1. RequestOK(r) /\ Execute(r) /\ ServiceTypes /\ inboxes[q] \in Seq(Envelope)
        BY Zenon, <2>3, <2>4 DEF Executes, BaseInv, OfferInv, ServiceTypes
      <3>2. Delivered(r, q, inboxes'[q], inboxes[q])
        BY Zenon, <2>3, <3>1, ExecuteDelivers
      <3>3. Grown(r, q, inboxes'[q], inboxes[q])
        BY Zenon, <3>1, <3>2, DeliveredElements
      <3>4. CASE cmd.pc = "decrypt"
        <4>1. PICK j \in 1..Len(inboxes[q]) : inboxes[q][j].message = m
          BY Zenon, <2>3, <3>4 DEF Waiting
        <4>2. PICK i \in 1..Len(inboxes'[q]) : inboxes'[q][i] = inboxes[q][j]
          BY Zenon, <3>3, <4>1 DEF Grown
        <4> QED
          BY Zenon, <4>1, <4>2
      <3>5. CASE cmd.pc = "post"
        <4>1. r = CurrentRequest
          BY <2>4, <3>5 DEF Executes
        <4>2. r.op = "post" /\ r.at = q /\ r.message = m
          BY <2>2, <3>5, <4>1 DEF CurrentRequest
        <4> QED
          BY Zenon, <2>3, <3>3, <4>2 DEF Grown
      <3> QED
        BY Zenon, <2>1, <3>4, <3>5
    <2>5. ASSUME inboxes' = inboxes, cmd.pc = "decrypt"
          PROVE  \E i \in 1..Len(inboxes'[q]) : inboxes'[q][i].message = m
      BY Zenon, <2>3, <2>5 DEF Waiting
    <2>6. ASSUME ~(\E r : Executes(r))
          PROVE  \E i \in 1..Len(inboxes'[q]) : inboxes'[q][i].message = m
      <3>1. CASE Loses
        <4>1. inboxes' = inboxes /\ cmd'.pc = cmd.pc
          BY Zenon, <3>1 DEF Loses, Moves
        <4> QED
          BY Zenon, <2>5, <4>1
      <3>2. CASE UNCHANGED vars
        BY ZenonT(30), <2>5, <3>2 DEF vars, services
      <3>3. CASE Rests \/ Starts \/ Prepares \/ GoesOn \/ Fails
        BY <3>3 DEF Rests, Starts, Prepares, GoesOn, Fails
      <3> QED
        BY Zenon, <2>6, <3>1, <3>2, <3>3 DEF Quiet
    <2>7. \E i \in 1..Len(inboxes'[q]) : inboxes'[q][i].message = m
      BY Zenon, <2>4, <2>6
    <2> QED
      BY Zenon, <2>1, <2>2, <2>7 DEF Waiting

  \* The message of the command under way stays that of its actor's current session.
  <1>Step.
      ASSUME BaseInv, SessionInv, Steps
      PROVE  MessageOK'
    <2> USE <1>Step
    <2>0. mode' = mode
      BY Zenon, StepAlive
    <2>1. CASE Quiet
      <3>1. sessions' = sessions
        BY Zenon, <2>1, QuietState
      <3>2. /\ cmd'.pc \in {"reset_actor", "reset_peer"} => mode'.external
            /\ cmd'.pc = "reset_peer" => sessions'[cmd'.actor][cmd'.peer] = <<>>
        <4>1. ASSUME cmd'.pc \in {"reset_actor", "reset_peer"}
              PROVE  cmd' = cmd \/ (mode.external /\ cmd'.pc = "reset_actor")
          BY Zenon, <2>1, <4>1, <1>QuietMessage
        <4>2. CASE cmd' = cmd
          BY Zenon, <2>0, <3>1, <4>2 DEF SessionInv, MessageOK
        <4> QED
          BY <2>0, <4>1, <4>2
      <3>3. ASSUME cmd'.pc \in {"post", "decrypt"}
            PROVE  /\ cmd.pc \in {"post", "decrypt"} /\ cmd'.actor = cmd.actor
                   /\ cmd'.peer = cmd.peer /\ cmd'.message = cmd.message /\ cmd'.decrypt = cmd.decrypt
                   /\ cmd'.pc = "post" => cmd.pc = "post"
        BY Zenon, <2>1, <3>3, <1>QuietMessage
      <3>4. cmd'.pc = "post" /\ mode'.external => cmd'.decrypt
        BY Zenon, <2>0, <3>3 DEF SessionInv, MessageOK
      <3>5. cmd'.pc \in {"post", "decrypt"} =>
            /\ sessions'[cmd'.actor][cmd'.peer] # <<>>
            /\ cmd'.message.sender = cmd'.actor
            /\ cmd'.message.base = sessions'[cmd'.actor][cmd'.peer][1].base
        BY Zenon, <3>1, <3>3 DEF SessionInv, MessageOK
      <3>6. cmd'.pc = "decrypt" => \E i \in 1..Len(inboxes'[cmd'.peer]) :
                inboxes'[cmd'.peer][i].message = cmd'.message
        BY Zenon, <2>1, <1>WaitingStays DEF Waiting
      <3> QED
        BY Zenon, <3>2, <3>4, <3>5, <3>6 DEF MessageOK
    <2>2. CASE Forgets
      <3>1. /\ cmd'.pc \in {"reset_peer", "establish"}
            /\ cmd.pc \in {"reset_actor", "reset_peer"}
        BY Zenon, <2>2 DEF Forgets
      <3>2. mode'.external
        BY Zenon, <2>0, <3>1 DEF SessionInv, MessageOK
      <3>3. cmd'.pc = "reset_peer" => sessions'[cmd'.actor][cmd'.peer] = <<>>
        BY <2>2 DEF Forgets, Moves, SetRecord
      <3> QED
        BY <3>1, <3>2, <3>3 DEF MessageOK
    <2>3. CASE Initiates
      <3>1. cmd'.pc = "consume"
        BY Zenon, <2>3 DEF Initiates, Moves
      <3> QED
        BY <3>1 DEF MessageOK
    <2>4. CASE Encrypts
      <3>1. PICK s : /\ Sets(cmd.actor, cmd.peer, s.base, s.bundle)
                     /\ cmd'.message.sender = cmd.actor /\ cmd'.message.base = s.base
        BY Zenon, <2>4, EncryptSets DEF SessionInv
      <3>2. /\ cmd'.pc = "post" /\ cmd'.actor = cmd.actor /\ cmd'.peer = cmd.peer
            /\ cmd'.decrypt = cmd.decrypt /\ (cmd.decrypt \/ ~mode.external)
        BY Zenon, <2>4 DEF Encrypts
      <3>3. /\ sessions'[cmd'.actor][cmd'.peer] # <<>> /\ cmd'.message.sender = cmd'.actor
            /\ cmd'.message.base = sessions'[cmd'.actor][cmd'.peer][1].base
        BY Zenon, <3>1, <3>2 DEF Sets
      <3>4. mode'.external => cmd'.decrypt
        BY Zenon, <2>0, <3>2
      <3>5. cmd'.pc \notin {"reset_actor", "reset_peer", "decrypt"}
        BY <3>2
      <3> QED
        BY Zenon, <3>3, <3>4, <3>5 DEF MessageOK
    <2>5. CASE \E e : Decrypts(e)
      <3>1. cmd'.pc = "update"
        BY Zenon, <2>5 DEF Decrypts, Moves
      <3> QED
        BY <3>1 DEF MessageOK
    <2> QED
      BY Zenon, <2>1, <2>2, <2>3, <2>4, <2>5 DEF Steps, Quiet

<1> QED
    BY Zenon, <1>Step

\* What states and messages name goes on to be the bundle of a session set up, and
\* the keys of such a bundle go on to be stored.
LEMMA NextNamed == BaseInv /\ SessionInv /\ Steps => Named'
  \* The keys of a bundle stay, or have set up a session.
  <1>StepKeys.
      ASSUME BaseInv, Steps
      PROVE  KeysKept
    <2> USE <1>StepKeys
    <2>0. IInv
      BY Zenon DEF BaseInv
    <2>1. CASE Prepares
      <3>1. cmd.actor \in Participants /\ cmd.peer \in Participants /\ accepted' = accepted
        BY Zenon, <2>1 DEF Prepares, Moves, ratchets
      <3>2. CASE store_own_prekeys(cmd.actor)
        BY Zenon, <2>0, <3>1, <3>2, StoreOwnKeys
      <3>3. CASE \E count \in Nat \ {0} : Generate(cmd.peer, count)
        BY Zenon, <2>0, <3>1, <3>3, GenerateKeys
      <3>4. CASE UNCHANGED prekeys
        BY Zenon, <3>1, <3>4, QuietKeys DEF stores
      <3> QED
        BY Zenon, <2>1, <3>2, <3>3, <3>4 DEF Prepares
    <2>2. ASSUME NEW e, Decrypts(e)
          PROVE  KeysKept
      <3>1. PICK m : m = e.message
        BY Zenon
      <3>2. /\ cmd.peer \in Participants /\ e \in Envelope
            /\ Opens(cmd.peer, m) /\ message_decrypt(cmd.peer, m)
        BY Zenon, <2>2, <3>1 DEF Decrypts, Moves
      <3>3. m.bundle \in Bundle \cup {NoBundle}
        BY Zenon, <3>1, <3>2 DEF Envelope, Message
      <3> QED
        BY Zenon, <2>0, <3>2, <3>3, DecryptKeys
    <2>3. CASE \/ Rests \/ Starts \/ GoesOn \/ Forgets \/ Initiates \/ Encrypts \/ Fails \/ Loses
               \/ (\E r : Executes(r)) \/ UNCHANGED vars
      <3>1. UNCHANGED prekeys /\ accepted' = accepted
        BY Zenon, <2>3 DEF Rests, Starts, GoesOn, Forgets, Initiates, Encrypts, Fails, Loses,
           Executes, vars, ratchets
      <3> QED
        BY Zenon, <3>1, QuietKeys DEF stores
    <2> QED
      BY Zenon, <2>1, <2>2, <2>3 DEF Steps

  \* What states and messages name goes on to be the bundle of a session set up, and
  \* the keys of such a bundle go on to be stored.
  <1>Step.
      ASSUME BaseInv, SessionInv, Steps
      PROVE  Named'
    <2> USE <1>Step
    <2>0. /\ \A q \in Participants : base_keys_seen[q] \subseteq base_keys_seen'[q]
          /\ started \subseteq started'
      BY Zenon, StepGrows
    <2>1. ASSUME NEW p \in Participants, NEW q \in Participants, sessions'[p][q] # <<>>,
                 NEW x, x = sessions'[p][q][1], x.bundle # NoBundle
          PROVE  Entry(q, x) \in started'
      <3>1. CASE /\ sessions[p][q] # <<>> /\ x.bundle = sessions[p][q][1].bundle
                 /\ x.base = sessions[p][q][1].base
        <4>1. Entry(q, sessions[p][q][1]) \in started
          BY Zenon, <2>1, <3>1 DEF SessionInv, Named
        <4>2. Entry(q, sessions[p][q][1]) = Entry(q, x)
          BY Zenon, <3>1 DEF Entry
        <4> QED
          BY Zenon, <2>0, <4>1, <4>2
      <3>2. CASE /\ Initiates /\ p = cmd.actor /\ q = cmd.peer /\ x.base = pairs
                 /\ x.bundle = prekey_bundles[cmd.peer][1]
        BY Zenon, <3>2 DEF Initiates, Entry
      <3>3. HeadFrom(p, q, x)
        BY Zenon, <2>1, StepHead
      <3> QED
        BY Zenon, <2>1, <3>1, <3>2, <3>3 DEF HeadFrom
    <2>2. ASSUME NEW q \in Participants, NEW m, InFlight(q, m)', m.bundle # NoBundle
          PROVE  Entry(q, m) \in started'
      <3>1. CASE InFlight(q, m)
        <4>1. Entry(q, m) \in started
          BY Zenon, <2>2, <3>1 DEF SessionInv, Named
        <4> QED
          BY Zenon, <2>0, <4>1
      <3>2. CASE Encrypts /\ q = cmd.peer /\ m = cmd'.message
        <4>1. PICK s : /\ s = sessions[cmd.actor][q][1] /\ sessions[cmd.actor][q] # <<>>
                       /\ cmd.actor \in Participants /\ m.base = s.base /\ m.bundle = s.bundle
          BY Zenon, <3>2, EncryptSets DEF SessionInv
        <4>2. Entry(q, s) \in started
          BY Zenon, <2>2, <4>1 DEF SessionInv, Named
        <4>3. Entry(q, s) = Entry(q, m)
          BY Zenon, <4>1 DEF Entry
        <4> QED
          BY Zenon, <2>0, <4>2, <4>3
      <3>3. InFlight(q, m) \/ (Encrypts /\ q = cmd.peer /\ m = cmd'.message)
        BY Zenon, <2>2, FlightStep
      <3> QED
        BY Zenon, <3>1, <3>2, <3>3
    <2>3. ASSUME NEW t \in accepted'
          PROVE  t \in started' /\ t.base \in base_keys_seen'[t.owner]
      <3>1. CASE t \in accepted
        <4>1. t \in started /\ t.base \in base_keys_seen[t.owner]
          BY Zenon, <3>1 DEF SessionInv, Named
        <4>2. t.owner \in Participants
          BY Zenon, <4>1 DEF SessionInv, Named
        <4> QED
          BY Zenon, <2>0, <4>1, <4>2
      <3>2. ASSUME NEW e, Decrypts(e), t \notin accepted
            PROVE  t \in started' /\ t.base \in base_keys_seen'[t.owner]
        <4>1. PICK p, m : p = cmd.peer /\ m = e.message
          BY Zenon
        <4>2. /\ Opening(p, m) /\ Opened(p, m) /\ p \in Participants
              /\ Known(p, m.sender, m.base) \/ m.base \in base_keys_seen'[p]
          BY Zenon, <3>2, <4>1, OpenedSeen
        <4>3. t = Entry(p, m) /\ ~Known(p, m.sender, m.base)
          BY Zenon, <2>3, <3>2, <4>2 DEF Opened
        <4>4. InFlight(p, m) /\ m.bundle # NoBundle
          BY Zenon, <4>2, <4>3 DEF Opening, Opens, Known
        <4>5. t \in started
          BY Zenon, <4>2, <4>3, <4>4 DEF SessionInv, Named
        <4>6. t.owner = p /\ t.base = m.base
          BY Zenon, <4>3 DEF Entry
        <4> QED
          BY Zenon, <2>0, <4>2, <4>3, <4>5, <4>6
      <3>3. accepted' = accepted \/ \E e : Decrypts(e)
        BY Zenon, QuietState DEF Steps, Quiet, Forgets, Initiates, Encrypts
      <3> QED
        BY Zenon, <3>1, <3>2, <3>3
    <2>4. ASSUME NEW t \in started'
          PROVE  t.owner \in Participants /\ t.bundle \in Bundle /\ Stored(t.owner, t.bundle)'
      <3>0. KeysKept
        BY Zenon, <1>StepKeys
      <3>1. /\ t.owner \in Participants /\ t.bundle \in Bundle /\ Stored(t.owner, t.bundle)
        <4>1. CASE t \in started
          BY Zenon, <4>1 DEF SessionInv, Named
        <4>2. CASE Initiates /\ t = [owner |-> cmd.peer, bundle |-> prekey_bundles[cmd.peer][1],
                                     base |-> pairs]
          <5>1. PICK b : b = prekey_bundles[cmd.peer][1]
            BY Zenon
          <5>2. b \in Bundle /\ Stored(cmd.peer, b) /\ cmd.peer \in Participants
            BY Zenon, <4>2, <5>1, InitiateSets
          <5>3. t.owner = cmd.peer /\ t.bundle = b
            BY Zenon, <4>2, <5>1
          <5> QED
            BY Zenon, <5>2, <5>3
        <4>3. CASE started' = started
          BY Zenon, <2>4, <4>1, <4>3
        <4>4. CASE Initiates
          BY Zenon, <2>4, <4>1, <4>2, <4>4 DEF Initiates
        <4>5. ASSUME NEW e, Decrypts(e) PROVE started' = started
          BY Zenon, <4>5, DecryptOpens DEF Opened
        <4> QED
          BY Zenon, <4>3, <4>4, <4>5, QuietState DEF Steps, Quiet, Forgets, Encrypts
      <3> QED
        BY Zenon, <3>0, <3>1 DEF KeysKept
    <2> QED
      BY Zenon, <2>1, <2>2, <2>3, <2>4 DEF Named

<1> QED
    BY Zenon, <1>Step

\* A pair that need not agree on its session: it is under way, or the run has ended.
Exempt(p, q) ==
    \/ cmd.pc \in Ended
    \/ cmd.pc \in Handshaking /\ p \in {cmd.actor, cmd.peer} /\ q \in {cmd.actor, cmd.peer}

\* In a resource sweep, two participants that are not the pair under way go on to
\* agree on their session, and the pair agrees once its message is opened.
LEMMA NextAgreed == BaseInv /\ SessionInv /\ Steps => Agreed'
  \* A change of one record leaves the pairs it does not belong to in agreement.
  <1>SetsAgreed.
      ASSUME NEW x \in Participants, NEW y \in Participants, NEW base, NEW bundle,
             Sets(x, y, base, bundle), NEW p \in Participants, NEW q \in Participants,
             ~Agree(p, q)', ~(p \in {x, y} /\ q \in {x, y})
      PROVE  ~Agree(p, q)
    <2> USE <1>SetsAgreed
    <2>1. sessions'[p][q] = sessions[p][q] /\ sessions'[q][p] = sessions[q][p]
      BY Zenon DEF Sets
    <2> QED
      BY Zenon, <2>1 DEF Agree

  \* In a resource sweep, two participants that are not the pair under way go on to
  \* agree on their session, and the pair agrees once its message is opened.
  <1>Step.
      ASSUME BaseInv, SessionInv, Steps
      PROVE  Agreed'
    <2> USE <1>Step
    <2> SUFFICES ASSUME mode'.sweep, NEW p \in Alive', NEW q \in Alive', ~Agree(p, q)',
                        cmd'.pc \notin Ended
                 PROVE  /\ cmd'.pc \in Handshaking
                        /\ p \in {cmd'.actor, cmd'.peer} /\ q \in {cmd'.actor, cmd'.peer}
      BY Zenon DEF Agreed
    <2>1. /\ p \in Alive /\ q \in Alive /\ p \in Participants /\ q \in Participants
          /\ mode.sweep /\ Careful
      BY Zenon, StepAlive DEF Alive, Careful
    <2>2. p # q /\ sessions'[p][q] # <<>>
      BY Zenon DEF Agree
    <2>3. ~Agree(p, q) => Exempt(p, q)
      BY Zenon, <2>1 DEF SessionInv, Agreed, Exempt
    <2>4. CASE Quiet
      <3>1. sessions' = sessions
        BY Zenon, <2>4, QuietState
      <3>2. Exempt(p, q)
        BY Zenon, <2>3, <3>1 DEF Agree
      <3>3. QuietPoints
        BY Zenon, <2>4, QuietGoes DEF SessionInv
      <3>4. cmd.pc \notin Ended
        BY Zenon, <3>3 DEF QuietPoints
      <3>5. /\ cmd.pc \in Handshaking /\ p \in {cmd.actor, cmd.peer} /\ q \in {cmd.actor, cmd.peer}
        BY Zenon, <3>2, <3>4 DEF Exempt
      <3>6. Proceeds
        BY Zenon, <2>1, <3>3, <3>5 DEF QuietPoints
      <3>7. cmd.actor \notin dropped' /\ cmd.peer \notin dropped'
        <4>1. p \notin dropped' /\ q \notin dropped'
          BY Zenon DEF Alive
        <4>2. (p = cmd.actor /\ q = cmd.peer) \/ (p = cmd.peer /\ q = cmd.actor)
          BY SMT, <2>2, <3>5
        <4> QED
          BY Zenon, <4>1, <4>2
      <3> QED
        BY Zenon, <3>5, <3>6, <3>7 DEF Proceeds
    <2>5. CASE Forgets
      <3>1. CASE HalfReset(p, q)'
        BY Zenon, <3>1 DEF HalfReset, Handshaking
      <3>2. CASE ~HalfReset(p, q)'
        <4>1. /\ ~HalfReset(p, q) /\ sessions'[p][q] = sessions[p][q]
              /\ sessions'[q][p] = sessions[q][p]
          BY Zenon, <2>1, <2>2, <2>5, <3>2, ForgetHeads
        <4>2. Exempt(p, q)
          BY Zenon, <2>3, <4>1 DEF Agree
        <4>3. /\ cmd.pc = "reset_peer" /\ p \in {cmd.actor, cmd.peer} /\ q \in {cmd.actor, cmd.peer}
          BY <2>5, <4>2 DEF Exempt, Forgets, Ended, Handshaking
        <4>4. p = cmd.actor /\ q = cmd.peer
          BY SMT, <2>2, <4>1, <4>3 DEF HalfReset
        <4>5. sessions[p][q] = <<>>
          BY Zenon, <4>3, <4>4 DEF SessionInv, MessageOK
        <4> QED
          BY Zenon, <2>2, <4>1, <4>5
      <3> QED
        BY Zenon, <3>1, <3>2
    <2>6. ASSUME NEW x \in Participants, NEW y \in Participants, NEW base, NEW bundle,
                 Sets(x, y, base, bundle), {x, y} = {cmd.actor, cmd.peer}, cmd.pc \notin Ended
          PROVE  p \in {cmd.actor, cmd.peer} /\ q \in {cmd.actor, cmd.peer}
      <3> SUFFICES ASSUME ~(p \in {x, y} /\ q \in {x, y}) PROVE FALSE
        BY Zenon, <2>6
      <3>1. ~Agree(p, q)
        BY Zenon, <2>1, <2>6, <1>SetsAgreed
      <3> QED
        BY Zenon, <2>3, <2>6, <3>1 DEF Exempt
    <2>7. CASE Initiates
      <3>1. /\ Sets(cmd.actor, cmd.peer, pairs, prekey_bundles[cmd.peer][1])
            /\ cmd.actor \in Participants /\ cmd.peer \in Participants
        BY Zenon, <2>7, InitiateSets
      <3>2. /\ cmd.pc = "establish" /\ cmd'.pc = "consume" /\ cmd'.actor = cmd.actor
            /\ cmd'.peer = cmd.peer
        BY Zenon, <2>7 DEF Initiates, Moves
      <3>3. cmd.pc \notin Ended /\ cmd'.pc \in Handshaking
        BY <3>2 DEF Ended, Handshaking
      <3> QED
        BY Zenon, <2>6, <3>1, <3>2, <3>3
    <2>8. CASE Encrypts
      <3>1. PICK s : /\ Sets(cmd.actor, cmd.peer, s.base, s.bundle)
                     /\ cmd.actor \in Participants /\ cmd.peer \in Participants
        BY Zenon, <2>8, EncryptSets DEF SessionInv
      <3>2. /\ cmd.pc = "encrypt" /\ cmd'.pc = "post" /\ cmd'.actor = cmd.actor
            /\ cmd'.peer = cmd.peer
        BY Zenon, <2>8 DEF Encrypts
      <3>3. cmd.pc \notin Ended /\ cmd'.pc \in Handshaking
        BY <3>2 DEF Ended, Handshaking
      <3> QED
        BY Zenon, <2>6, <3>1, <3>2, <3>3
    <2>9. ASSUME NEW e, Decrypts(e) PROVE FALSE
      <3>1. PICK a, b, m : a = cmd.actor /\ b = cmd.peer /\ m = e.message
        BY Zenon
      <3>2. Opening(b, m) /\ Opened(b, m)
        BY Zenon, <2>9, <3>1, DecryptOpens
      <3>3. m = cmd.message /\ m.sender = a
        BY Zenon, <2>1, <3>1, <3>2 DEF Opening
      <3>4. Sets(b, a, m.base, NoBundle)
        BY Zenon, <3>2, <3>3 DEF Opened
      <3>5. cmd.pc = "decrypt"
        BY Zenon, <2>9 DEF Decrypts
      <3>6. cmd.pc \notin Ended
        BY <3>5 DEF Ended
      <3>7. a \in Participants /\ b \in Participants /\ a # b
        BY Zenon, <3>1, <3>5, PairAlive DEF SessionInv, Handshaking
      <3>8. p \in {a, b} /\ q \in {a, b}
        BY Zenon, <2>6, <3>1, <3>4, <3>6, <3>7
      <3>9. sessions[a][b] # <<>> /\ m.base = sessions[a][b][1].base
        BY Zenon, <3>1, <3>3, <3>5 DEF SessionInv, MessageOK
      <3>10. /\ sessions'[a][b] # <<>> /\ sessions'[b][a] # <<>>
             /\ sessions'[a][b][1].base = m.base /\ sessions'[b][a][1].base = m.base
        BY Zenon, <3>4, <3>7, <3>9 DEF Sets
      <3>11. Agree(a, b)' /\ Agree(b, a)'
        BY Zenon, <3>10 DEF Agree
      <3>12. (p = a /\ q = b) \/ (p = b /\ q = a)
        BY SMT, <2>2, <3>8
      <3> QED
        BY Zenon, <3>11, <3>12
    <2> QED
      BY Zenon, <2>4, <2>5, <2>7, <2>8, <2>9 DEF Steps, Quiet

<1> QED
    BY Zenon, <1>Step

\* A message that is not opened goes on to have a reason.
LEMMA NextExplained ==
    ASSUME BaseInv, SessionInv, Steps
    PROVE  Explained'
  <1> SUFFICES ASSUME cmd'.pc = "not_opened"
               PROVE  \/ cmd'.message \in opened'[cmd'.peer]
                      \/ \E s \in accepted' : /\ s.owner = cmd'.peer /\ s.bundle = cmd'.message.bundle
                                              /\ is_one_time(s.bundle)
    BY Zenon DEF Explained
  <1>1. CASE cmd' = cmd
    <2>1. cmd.peer \in Participants
      BY <1>1 DEF BaseInv, IInv, CmdOK
    <2>2. opened[cmd.peer] \subseteq opened'[cmd.peer] /\ accepted \subseteq accepted'
      BY Zenon, <2>1, StepGrows
    <2> QED
      BY Zenon, <1>1, <2>2 DEF SessionInv, Explained
  <1>2. CASE Fails
    <2>1. PICK q, m : q = cmd.peer /\ m = Head(Pending).message
      BY Zenon
    <2>2. cmd.pc = "decrypt" /\ cmd'.peer = q
      BY Zenon, <1>2, <2>1 DEF Fails
    <2>3. q \in Alive /\ q \in Participants /\ ServiceTypes
      BY Zenon, <2>1, <2>2, PairAlive DEF SessionInv, Handshaking, BaseInv, OfferInv
    <2>4. PICK i \in 1..Len(inboxes[q]) : inboxes[q][i].message = cmd.message
      BY Zenon, <2>1, <2>2 DEF SessionInv, MessageOK
    <2>5. inboxes[q][i].sender = cmd.actor
      BY ZenonT(30), <2>2, <2>3, <2>4 DEF SessionInv, MessageOK, Envelopes
    <2>6. Pending # <<>>
      BY Zenon, <2>1, <2>3, <2>5, PendingElements
    <2>7. cmd'.message = m /\ ~Opens(q, m)
      BY Zenon, <1>2, <2>1, <2>6 DEF Fails
    <2>8. InFlight(q, m) /\ m \in Message /\ m.sender \in Alive
      BY Zenon, <2>1, <2>2, <2>6, HeadOfPending DEF SessionInv
    <2>9. opened' = opened /\ accepted' = accepted
      BY Zenon, <1>2, QuietState DEF Quiet
    <2>10. CASE m \in opened[q]
      BY Zenon, <2>2, <2>7, <2>9, <2>10
    <2>11. CASE m \notin opened[q]
      <3>1. Linked(m.sender, q, m)
        BY Zenon, <2>3, <2>8, <2>11 DEF SessionInv, Flight
      <3>2. ~Known(q, m.sender, m.base)
        BY Zenon, <2>7, <2>11 DEF Opens, Known
      <3>3. m.bundle # NoBundle /\ ~HasKeysFor(q, m.bundle)
        BY Zenon, <2>7, <3>1, <3>2 DEF Opens, Known, Linked
      <3>4. Entry(q, m) \in started
        BY Zenon, <2>3, <2>8, <3>3 DEF SessionInv, Named
      <3>5. Entry(q, m).owner = q /\ Entry(q, m).bundle = m.bundle
        BY Zenon DEF Entry
      <3>6. Stored(q, m.bundle)
        BY Zenon, <3>4, <3>5 DEF SessionInv, Named
      <3>7. is_one_time(m.bundle) /\ \E s \in accepted : s.owner = q /\ s.bundle = m.bundle
        BY Zenon, <3>3, <3>6 DEF Stored, HasKeysFor
      <3> QED
        BY Zenon, <2>2, <2>7, <2>9, <3>7
    <2> QED
      BY Zenon, <2>10, <2>11
  <1>3. CASE Quiet
    <2>1. CASE Rests \/ Starts \/ Prepares \/ GoesOn
      BY <2>1 DEF Rests, Starts, Prepares, GoesOn
    <2>2. CASE Loses
      BY <2>2 DEF Loses, Requesting, Moves
    <2>3. ASSUME NEW r, Executes(r), cmd' # cmd PROVE FALSE
      BY <2>3 DEF Executes, Requesting, Moves, Answered
    <2>4. CASE UNCHANGED vars
      BY Zenon, <1>1, <2>4 DEF vars
    <2> QED
      BY ZenonT(30), <1>1, <1>2, <1>3, <2>1, <2>2, <2>3, <2>4 DEF Quiet
  <1>4. ~Forgets /\ ~Initiates /\ ~Encrypts /\ \A e : ~Decrypts(e)
    BY DEF Forgets, Initiates, Encrypts, Decrypts, Moves
  <1> QED
    BY Zenon, <1>3, <1>4 DEF Steps, Quiet

\* There is no session at first.
LEMMA InitSession == Init => SessionInv
  <1> SUFFICES ASSUME Init PROVE SessionInv
    OBVIOUS
  <1>1. /\ cmd.pc = "idle" /\ active = {} /\ dropped = {} /\ late = {} /\ pairs = 0
        /\ started = {} /\ accepted = {}
        /\ \A p \in Participants : base_keys_seen[p] = {} /\ opened[p] = {} /\ inboxes[p] = <<>>
        /\ \A p, q \in Participants : sessions[p][q] = <<>>
    BY Zenon DEF Init, Idle
  <1>2. 1..Len(<<>>) = {} /\ DOMAIN <<>> = {}
    OBVIOUS
  <1>3. \A p, q \in Participants : \A b : ~Known(p, q, b)
    BY Zenon, <1>1, <1>2 DEF Known, Bases
  <1>4. \A q \in Participants : \A m : ~InFlight(q, m)
    <2>1. cmd.pc # "post"
      BY <1>1
    <2> QED
      BY Zenon, <1>1, <1>2, <2>1 DEF InFlight
  <1>5. NotDropped
    BY Zenon, <1>1 DEF NotDropped
  <1>6. Fresh
    BY Zenon, <1>1, <1>3, <1>4 DEF Fresh
  <1>7. OnePair
    BY Zenon, <1>1, <1>2, <1>3 DEF OnePair, Distinct
  <1>8. BundleSeen
    BY Zenon, <1>1, <1>3, <1>4 DEF BundleSeen
  <1>9. Heads /\ Flight
    BY Zenon, <1>1, <1>4 DEF Heads, Flight, Alive
  <1>10. Envelopes
    BY Zenon, <1>1, <1>2, <1>4 DEF Envelopes
  <1>11. MessageOK /\ Explained
    BY <1>1 DEF MessageOK, Explained
  <1>12. Named
    BY Zenon, <1>1, <1>4 DEF Named
  <1>13. Agreed
    BY Zenon, <1>1 DEF Agreed, Agree, Alive
  <1> QED
    BY ZenonT(30), <1>5, <1>6, <1>7, <1>8, <1>9, <1>10, <1>11, <1>12, <1>13 DEF SessionInv

\* Every step keeps the facts about both sides of a session.
LEMMA NextSession ==
    ASSUME BaseInv, SessionInv, [Next]_vars
    PROVE  SessionInv'
  <1>1. Steps
    BY Zenon, StepsHold DEF BaseInv
  <1>2. NotDropped'
    BY Zenon, <1>1, NextNotDropped DEF SessionInv
  <1>3. Fresh'
    BY Zenon, <1>1, NextFresh
  <1>4. OnePair'
    BY Zenon, <1>1, NextOnePair
  <1>5. BundleSeen'
    BY ZenonT(30), <1>1, NextBundleSeen
  <1>6. Heads'
    BY Zenon, <1>1, NextHeads
  <1>7. Flight'
    BY Zenon, <1>1, NextFlight
  <1>8. Envelopes'
    BY Zenon, <1>1, NextEnvelopes
  <1>9. MessageOK'
    BY Zenon, <1>1, NextMessageOK
  <1>10. Named'
    BY Zenon, <1>1, NextNamed
  <1>11. Agreed'
    BY Zenon, <1>1, NextAgreed
  <1>12. Explained'
    BY Zenon, <1>1, NextExplained
  <1> QED
    BY ZenonT(30), <1>2, <1>3, <1>4, <1>5, <1>6, <1>7, <1>8, <1>9, <1>10, <1>11, <1>12 DEF SessionInv

\* What the two sides of a session have on record fits together in every state.
THEOREM SessionInvHolds == Spec => []SessionInv
  <1>1. Init => SessionInv
    BY InitSession
  <1>2. BaseInv /\ SessionInv /\ [Next]_vars => SessionInv'
    BY Zenon, NextSession
  <1> QED
    BY <1>1, <1>2, BaseInvHolds, PTL DEF Spec

\* Two active participants of a resource sweep have, between its operations, no
\* session or the same current one.
THEOREM SessionsAgreeHolds == Spec => []SessionsAgree
  <1>1. BaseInv /\ SessionInv => SessionsAgree
    <2> SUFFICES ASSUME BaseInv, SessionInv, mode.sweep, cmd.pc = "idle",
                        NEW p \in active, NEW q \in active
                 PROVE  Agree(p, q)
      BY Zenon DEF SessionsAgree, Agree
    <2>1. p \in Alive /\ q \in Alive
      BY Zenon DEF BaseInv, OfferInv, RunnerTypes, SessionInv, NotDropped, Alive
    <2>2. cmd.pc \notin Ended /\ cmd.pc \notin Handshaking
      BY DEF Ended, Handshaking
    <2> QED
      BY Zenon, <2>1, <2>2 DEF SessionInv, Agreed
  <1> QED
    BY <1>1, BaseInvHolds, SessionInvHolds, PTL
=============================================================================
