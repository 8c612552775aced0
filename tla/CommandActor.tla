---------------------------- MODULE CommandActor ----------------------------
(***************************************************************************)
(* One command channel: the runner posts commands for one client to its    *)
(* worker and repeats a post under the same request id when the answer     *)
(* does not come; the worker's HTTP handlers put the posts in the bounded  *)
(* queue of the client's actor, which executes them one by one and replays *)
(* the answer of a request id it still remembers (CompletedCommandCache).  *)
(*                                                                         *)
(* The runner may have several commands under way.  A post that it has     *)
(* given up may still be on the network, waiting for a place in the queue, *)
(* queued or being executed; the first two may also vanish, because axum   *)
(* drops the handler of a closed connection.                               *)
(***************************************************************************)
EXTENDS Integers, Sequences, FiniteSets

CONSTANTS Requests,      \* request ids, one per command
          MaxAttempts,   \* WORKER_COMMAND_MAX_ATTEMPTS
          Capacity,      \* of the actor's queue
          MaxEntries,    \* bound: the largest limit a cache is configured with
          Ttl,           \* of a cache entry
          MaxTime,       \* bound: the clock stops here
          None

ASSUME RequestsAssumption == IsFiniteSet(Requests) /\ None \notin Requests
ASSUME LimitsAssumption ==
    {MaxAttempts, Capacity, MaxEntries, Ttl, MaxTime} \subseteq Nat

Post == [request_id : Requests, attempt : Nat]

\* What the runner can tell apart: the status, and the execution it is from.
CommandResponse == [status : {"ok", "error"}, nth : Nat]

CachedCommandResponse == [response : CommandResponse, completed_at : Nat]

ASSUME NoneAssumption ==
    None \notin CommandResponse /\ None \notin Post /\ None \notin CachedCommandResponse

VARIABLES
    calls,      \* request id -> send_command_with_context: [state, attempt, answer]
    posted,     \* posts on the network or in a handler that waits for the queue
    queue,      \* the actor's mpsc channel
    running,    \* None or the post whose command the actor executes
    entries,    \* request id -> None or [response, completed_at]
    order,      \* request ids in the order they were inserted
    max_entries, \* the limit of the cache, set when the actor starts
    answers,    \* [post, response] on their way back
    now,        \* the clock
    executed,   \* history: request id -> number of executions begun
    forgotten   \* history: request ids ever dropped from the cache

cacheVars == <<entries, order, max_entries, forgotten>>
actorVars == <<running, executed>>
vars == <<calls, posted, queue, actorVars, cacheVars, answers, now>>

CallState == {"new", "waiting", "backoff", "done", "failed"}

Init ==
    /\ calls = [r \in Requests |-> [state |-> "new", attempt |-> 0, answer |-> None]]
    /\ posted = {}
    /\ queue = <<>>
    /\ running = None
    /\ entries = [r \in Requests |-> None]
    /\ order = <<>>
    /\ max_entries \in 0..MaxEntries
    /\ answers = {}
    /\ now = 0
    /\ executed = [r \in Requests |-> 0]
    /\ forgotten = {}

----------------------------------------------------------------------------
(* The runner: send_command_with_context *)

PostOf(r) == [request_id |-> r, attempt |-> calls[r].attempt]

Send(r) ==
    /\ calls[r].state \in {"new", "backoff"}
    /\ calls' = [calls EXCEPT ![r] = [state |-> "waiting", attempt |-> calls[r].attempt + 1,
                                      answer |-> None]]
    /\ posted' = posted \cup {[request_id |-> r, attempt |-> calls[r].attempt + 1]}
    /\ UNCHANGED <<queue, actorVars, cacheVars, answers, now>>

\* A timeout or a broken connection, before or after the command was executed.
TransportError(r) ==
    /\ calls[r].state = "waiting"
    /\ calls' = [calls EXCEPT ![r].state =
                   IF calls[r].attempt >= MaxAttempts THEN "failed" ELSE "backoff"]
    /\ UNCHANGED <<posted, queue, actorVars, cacheVars, answers, now>>

\* Any response that can be parsed ends the call, also one with status error.
ReceiveAnswer(r) ==
    /\ calls[r].state = "waiting"
    /\ \E a \in answers :
         /\ a.post = PostOf(r)
         /\ calls' = [calls EXCEPT ![r] = [state |-> "done", attempt |-> calls[r].attempt,
                                           answer |-> a.response]]
    /\ UNCHANGED <<posted, queue, actorVars, cacheVars, answers, now>>

----------------------------------------------------------------------------
(* The worker's handlers: send_to_client_actor *)

Enqueue(p) ==
    /\ p \in posted
    /\ Len(queue) < Capacity
    /\ queue' = Append(queue, p)
    /\ posted' = posted \ {p}
    /\ UNCHANGED <<calls, actorVars, cacheVars, answers, now>>

\* The handler of a post nobody waits for is dropped before it has queued it.
Disconnect(p) ==
    /\ p \in posted
    /\ ~(calls[p.request_id].state = "waiting" /\ p = PostOf(p.request_id))
    /\ posted' = posted \ {p}
    /\ UNCHANGED <<calls, queue, actorVars, cacheVars, answers, now>>

----------------------------------------------------------------------------
(* CompletedCommandCache *)

Fresh(i) == entries[order[i]] # None /\ now - entries[order[i]].completed_at <= Ttl

\* prune_expired pops the front while it is expired: it keeps what follows
\* the first fresh entry.
PrunedLen ==
    IF Ttl = 0 \/ \A i \in 1..Len(order) : ~Fresh(i) THEN Len(order)
    ELSE CHOOSE k \in 0..(Len(order) - 1) : Fresh(k + 1) /\ \A i \in 1..k : ~Fresh(i)

\* The first n request ids of a queue, and their removal from a map.
Front(o, n) == {o[i] : i \in {i \in 1..Len(o) : i <= n}}
Without(m, ids) == [r \in Requests |-> IF r \in ids THEN None ELSE m[r]]

PrunedOrder == SubSeq(order, PrunedLen + 1, Len(order))
PrunedEntries == Without(entries, Front(order, PrunedLen))

\* The first pop that fits the map back into its limit ends the loop.
Excess(m) ==
    LET size == Cardinality({r \in Requests : m[r] # None})
    IN  IF size > max_entries THEN size - max_entries ELSE 0

Get ==
    /\ order' = PrunedOrder
    /\ entries' = PrunedEntries
    /\ forgotten' = forgotten \cup Front(order, PrunedLen)
    /\ UNCHANGED max_entries

\* Mutant: the request id is not pushed to the order.
InsertUnordered(r, response) ==
    /\ entries' = [entries EXCEPT ![r] = [response |-> response, completed_at |-> now]]
    /\ UNCHANGED <<order, max_entries, forgotten>>

\* Mutant: the request id is pushed to the front of the order.
InsertInFront(r, response) ==
    LET o == IF PrunedEntries[r] # None THEN PrunedOrder ELSE <<r>> \o PrunedOrder
        m == [PrunedEntries EXCEPT ![r] = [response |-> response, completed_at |-> now]]
    IN  /\ order' = IF max_entries = 0 THEN order ELSE SubSeq(o, Excess(m) + 1, Len(o))
        /\ entries' = IF max_entries = 0 THEN entries ELSE Without(m, Front(o, Excess(m)))
        /\ forgotten' = forgotten \cup Front(order, PrunedLen) \cup Front(o, Excess(m))
        /\ UNCHANGED max_entries

Insert(r, response) ==
    /\ IF max_entries = 0 THEN /\ forgotten' = forgotten \cup {r}
                               /\ UNCHANGED <<entries, order>>
       ELSE LET o == IF PrunedEntries[r] # None THEN PrunedOrder ELSE Append(PrunedOrder, r)
                m == [PrunedEntries EXCEPT ![r] = [response |-> response, completed_at |-> now]]
            IN  /\ order' = SubSeq(o, Excess(m) + 1, Len(o))
                /\ entries' = Without(m, Front(o, Excess(m)))
                /\ forgotten' = forgotten \cup Front(order, PrunedLen) \cup Front(o, Excess(m))
    /\ UNCHANGED max_entries

----------------------------------------------------------------------------
(* The actor: client_command_actor *)

\* Mutants: a repeated post is told that all is well; it is not answered.
ReplayOk ==
    /\ running = None
    /\ queue # <<>>
    /\ PrunedEntries[Head(queue).request_id] # None
    /\ answers' = answers \cup
         {[post |-> Head(queue),
           response |-> [status |-> "ok", nth |-> executed[Head(queue).request_id]]]}
    /\ queue' = Tail(queue)
    /\ Get
    /\ UNCHANGED <<calls, posted, actorVars, now>>
ReplaySilent ==
    /\ running = None
    /\ queue # <<>>
    /\ PrunedEntries[Head(queue).request_id] # None
    /\ queue' = Tail(queue)
    /\ Get
    /\ UNCHANGED <<calls, posted, actorVars, answers, now>>

\* The next post is of a request that the cache remembers.
Replay ==
    /\ running = None
    /\ queue # <<>>
    /\ PrunedEntries[Head(queue).request_id] # None
    /\ answers' = answers \cup
         {[post |-> Head(queue), response |-> PrunedEntries[Head(queue).request_id].response]}
    /\ queue' = Tail(queue)
    /\ Get
    /\ UNCHANGED <<calls, posted, actorVars, now>>

\* Mutant: the cache is not asked.
BeginUnasked ==
    /\ running = None
    /\ queue # <<>>
    /\ running' = Head(queue)
    /\ executed' = [executed EXCEPT ![Head(queue).request_id] = @ + 1]
    /\ queue' = Tail(queue)
    /\ Get
    /\ UNCHANGED <<calls, posted, answers, now>>

\* It is not, and handle_command starts.
Begin ==
    /\ running = None
    /\ queue # <<>>
    /\ PrunedEntries[Head(queue).request_id] = None
    /\ running' = Head(queue)
    /\ executed' = [executed EXCEPT ![Head(queue).request_id] = @ + 1]
    /\ queue' = Tail(queue)
    /\ Get
    /\ UNCHANGED <<calls, posted, answers, now>>

\* handle_command returns.  The status need not tell whether the client has
\* changed: a command over the heap budget, or without a persisted profile,
\* is reported as an error after it was done.
Finish(status) ==
    /\ running # None
    /\ LET r        == running.request_id
           response == [status |-> status, nth |-> executed[r]]
       IN  /\ Insert(r, response)
           /\ answers' = answers \cup {[post |-> running, response |-> response]}
    /\ running' = None
    /\ UNCHANGED <<calls, posted, queue, executed, now>>

Tick ==
    /\ now < MaxTime
    /\ now' = now + 1
    /\ UNCHANGED <<calls, posted, queue, actorVars, cacheVars, answers>>

Next ==
    \/ \E r \in Requests : Send(r) \/ TransportError(r) \/ ReceiveAnswer(r)
    \/ \E p \in posted : Enqueue(p) \/ Disconnect(p)
    \/ Replay
    \/ Begin
    \/ \E status \in {"ok", "error"} : Finish(status)
    \/ Tick

Spec == Init /\ [][Next]_vars

\* Handlers and the actor are tasks that run when they can; a call that waits
\* gets the answer that is there, and one that backs off sends again.
FairSpec ==
    /\ Spec
    /\ \A r \in Requests : WF_vars(calls[r].state = "backoff" /\ Send(r)) /\ WF_vars(ReceiveAnswer(r))
    /\ \A r \in Requests, n \in 1..MaxAttempts : WF_vars(Enqueue([request_id |-> r, attempt |-> n]))
    /\ WF_vars(Replay)
    /\ WF_vars(Begin)
    /\ WF_vars(\E status \in {"ok", "error"} : Finish(status))

----------------------------------------------------------------------------
(* Properties *)

TypeOK ==
    /\ calls \in [Requests -> [state : CallState, attempt : Nat,
                               answer : CommandResponse \cup {None}]]
    /\ posted \subseteq Post
    /\ queue \in Seq(Post)
    /\ running \in Post \cup {None}
    /\ entries \in [Requests -> CachedCommandResponse \cup {None}]
    /\ order \in Seq(Requests)
    /\ max_entries \in 0..MaxEntries
    /\ answers \subseteq [post : Post, response : CommandResponse]
    /\ now \in Nat
    /\ executed \in [Requests -> Nat]
    /\ forgotten \subseteq Requests

\* The two halves of the cache never drift apart: the queue that decides what
\* is dropped next names every remembered request once, and nothing else.
\* (A name left over in it would evict a younger entry of the same request.)
CacheExact ==
    /\ \A i, j \in 1..Len(order) : order[i] = order[j] => i = j
    /\ \A r \in Requests : entries[r] # None <=> \E i \in 1..Len(order) : order[i] = r
    /\ Len(order) <= max_entries

\* prune_expired stops at the first entry that is not expired, and still no
\* expired entry survives it: a replayed answer is never older than the TTL.
NoExpiredReplay ==
    \A r \in Requests :
      PrunedEntries[r] # None => now - PrunedEntries[r].completed_at <= Ttl

\* However often the runner repeats a post, whatever copies are delayed,
\* queued behind one another or abandoned, a command is executed once,
\* unless the cache had to drop its request id.
ExecutedOnce ==
    \A r \in Requests : executed[r] > 1 => r \in forgotten

\* All answers to the posts of a command agree, and with what the cache
\* remembers: a runner that timed out and asks again learns the outcome of
\* the execution it did not wait for.
AnswersAgree ==
    \A a \in answers :
      LET r == a.post.request_id IN
      r \notin forgotten => entries[r] # None /\ entries[r].response = a.response

\* Every call the runner makes ends.
EveryCallEnds ==
    \A r \in Requests :
      calls[r].state = "waiting" ~> calls[r].state \in {"done", "failed"}
=============================================================================
