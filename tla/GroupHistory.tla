---------------------------- MODULE GroupHistory ----------------------------
(***************************************************************************)
(* What the benchmark needs of an MLS group, without saying how: the group *)
(* has one history of states, one per epoch.  A new state is appended only *)
(* by a client that has seen all of the history, and every client walks    *)
(* along the history one state at a time.  A client enters at a state that *)
(* adds it, and may lose its state at any time (it is removed, or a        *)
(* welcome that it cannot open makes it drop the state it had).            *)
(***************************************************************************)
EXTENDS Integers, Sequences

CONSTANTS Clients, None

VARIABLES history,  \* sequence of the states of epochs 1, 2, ...
          view      \* client -> None or the state it is in

HistoryVars == <<history, view>>

HistoryInit ==
    /\ history = <<>>
    /\ view = [c \in Clients |-> None]

\* The founder is alone in epoch 0.
Found(c) ==
    /\ history = <<>>
    /\ \A o \in Clients : view[o] = None
    /\ \A o \in Clients \ {c} : view'[o] = None
    /\ view'[c] # None
    /\ view'[c].epoch = 0
    /\ view'[c].members = {c}
    /\ UNCHANGED history

AtEnd(c) ==
    /\ view[c] # None
    /\ view[c].epoch = Len(history)
    /\ history # <<>> => view[c] = history[Len(history)]

Extend(c) ==
    /\ AtEnd(c)
    /\ Len(history') = Len(history) + 1
    /\ SubSeq(history', 1, Len(history)) = history
    /\ history'[Len(history')].epoch = Len(history')
    /\ c \in history'[Len(history')].members
    /\ UNCHANGED view

\* The next state, for a client that is still a member of it.
Advance(c) ==
    /\ view[c] # None
    /\ view[c].epoch < Len(history)
    /\ c \in history[view[c].epoch + 1].members
    /\ view' = [view EXCEPT ![c] = history[view[c].epoch + 1]]
    /\ UNCHANGED history

\* A state whose predecessor, if it is in the history, did not have c.
Enter(c) ==
    /\ \E e \in 1..Len(history) :
         /\ c \in history[e].members
         /\ e > 1 => c \notin history[e - 1].members
         /\ view' = [view EXCEPT ![c] = history[e]]
    /\ UNCHANGED history

Leave(c) ==
    /\ view[c] # None
    /\ view' = [view EXCEPT ![c] = None]
    /\ UNCHANGED history

HistoryNext ==
    \E c \in Clients : Found(c) \/ Extend(c) \/ Advance(c) \/ Enter(c) \/ Leave(c)

HistorySpec == HistoryInit /\ [][HistoryNext]_HistoryVars
=============================================================================
