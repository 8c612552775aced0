---------------------------- MODULE MessageRelay ----------------------------
(***************************************************************************)
(* The inboxes of the message relay (message_relay.rs).  Every operation   *)
(* takes the inboxes and yields the inboxes or the envelope it answers;    *)
(* the modules of the relay's clients say when it is called, and which     *)
(* calls are repeated or late.                                             *)
(***************************************************************************)
EXTENDS Naturals, Sequences

\* The elements of a queue at the positions in I, in their order.
Kept(queue, I) ==
    LET kept[n \in 0..Len(queue)] ==
            IF n = 0 THEN <<>>
            ELSE IF n \in I THEN Append(kept[n - 1], queue[n]) ELSE kept[n - 1]
    IN kept[Len(queue)]

\* publish_pairwise_message: the copy for the sender itself is skipped.  The
\* recipients' queues are locked one after the other; no request of the model
\* looks at two inboxes, and repeated posts are delivered one recipient at a time.
publish_pairwise_message(inboxes, recipients, envelope) ==
    [r \in DOMAIN inboxes |->
        IF r \in recipients \ {envelope.sender} THEN Append(inboxes[r], envelope)
                                                ELSE inboxes[r]]

\* What waits in an inbox from one sender, oldest first.
PendingFrom(inboxes, recipient, sender) ==
    LET inbox == inboxes[recipient]
    IN Kept(inbox, {i \in DOMAIN inbox : inbox[i].sender = sender})

\* Mutant: an acked envelope stays.
AckKeeps(inboxes, recipient, envelope) == inboxes

\* ack_message: an id is used once per post, so a repeated post is kept.
ack_message(inboxes, recipient, envelope) ==
    LET inbox == inboxes[recipient]
    IN [inboxes EXCEPT ![recipient] =
           Kept(inbox, {i \in DOMAIN inbox : inbox[i].id # envelope.id})]
=============================================================================
