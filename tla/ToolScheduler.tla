---------------------------- MODULE ToolScheduler ----------------------------
(***************************************************************************)
(* ChatCompletionScheduler with its ToolCompletionCallback, composed with  *)
(* the search tool it calls: the pool of SearchExecutionWorker threads and *)
(* the TokenBucketWorker that limits them.                                 *)
(*                                                                         *)
(* A conversation of the scheduler is a task of one event loop: what it    *)
(* does between two awaits is one step.  The bucket is another process; a  *)
(* call of its methods that is not awaited takes effect later.             *)
(***************************************************************************)
EXTENDS Integers, Sequences, FiniteSets, SequencesExt

CONSTANTS
    Batches,      \* the conversations of each call of generate_sequences
    Addresses,    \* server_addresses; their order as strings is that of numbers
    MaxCache,     \* max_cache_size
    PromptMsgs,   \* messages of a prompt
    MaxMessages,  \* multi_turn.max_assistant_turns
    MaxCalls,     \* bound: tools called in one turn
    NumWorkers,   \* threads of the execution pool
    RateLimit     \* rate_limit of the bucket

Convs == UNION {Batches[k] : k \in DOMAIN Batches}

ASSUME SchedulerAssumption ==
    /\ Batches \in Seq(SUBSET Convs)
    /\ \A k \in DOMAIN Batches : Batches[k] # {} /\ IsFiniteSet(Batches[k])
    /\ \A j, k \in DOMAIN Batches : j # k => Batches[j] \cap Batches[k] = {}
    /\ Addresses \in Seq(Nat) /\ Addresses # <<>>
    /\ {PromptMsgs, MaxMessages} \subseteq Nat
    /\ {MaxCache, MaxCalls, NumWorkers, RateLimit} \subseteq Nat \ {0}

VARIABLES
    batch,    \* calls of generate_sequences so far
    phase,    \* of the last one: "idle" (it returned), "running", "raised"
    state,    \* state[c]: "new"; "submitted"; "requested", until the completion
              \* is there; "calling" tools; "over"
    depth,    \* depth[c]: info["__depth__"]
    done,     \* done[c]: info["__done__"]
    known,    \* known[c]: whether the next request continues an earlier one
    messages, \* messages[c]: their number
    cache,    \* request_id_to_address, the least recently used first
    heap,     \* weighted_addresses: each with the conversations sent to it
    calls,    \* the tool calls of all turns
    tokens,   \* the semaphore of the bucket
    count,    \* current_count
    releases  \* calls of release: [sent |-> n, half |-> n]

convVars   == <<batch, phase, state, depth, done, known, messages>>
routeVars  == <<cache, heap>>
bucketVars == <<tokens, count, releases>>
vars       == <<convVars, routeVars, calls, bucketVars>>

CallIds == Convs \X (1..MaxCalls)

-----------------------------------------------------------------------------
(* The heap of addresses.  The parent of place i is i \div 2.              *)

\* The order of the entries, which are lists.
Precedes(x, y) == x.load < y.load \/ (x.load = y.load /\ x.address <= y.address)

\* From place n downwards no entry precedes its parent.
OrderedFrom(h, n) == \A i \in DOMAIN h : i \div 2 >= n => Precedes(h[i \div 2], h[i])

Arrangements(h) == {[i \in DOMAIN h |-> h[p[i]]] : p \in Bijection(DOMAIN h, DOMAIN h)}

\* What heapq.heapify may make of h; a heap it leaves as it is.
heapify(h) == IF OrderedFrom(h, 1) THEN {h} ELSE {g \in Arrangements(h) : OrderedFrom(g, 1)}

\* heapq.heapreplace(h, h[0]): the root sinks to its place, and the entries on
\* its way move up one place each.  If the rest of h is not in order, nothing
\* is known but that no entry is lost.
heapreplace(h) ==
    IF OrderedFrom(h, 2)
    THEN {g \in heapify(h) : \A i \in DOMAIN h \ {1} : g[i] # h[i] => g[i \div 2] = h[i]}
    ELSE Arrangements(h)

-----------------------------------------------------------------------------
Init ==
    /\ batch = 0 /\ phase = "idle"
    /\ state = [c \in Convs |-> "new"]
    /\ depth = [c \in Convs |-> 0]
    /\ done = [c \in Convs |-> FALSE]
    /\ known = [c \in Convs |-> FALSE]
    /\ messages = [c \in Convs |-> PromptMsgs]
    /\ cache = <<>>
    /\ heap \in heapify([i \in DOMAIN Addresses |-> [load |-> 0, address |-> Addresses[i]]])
    /\ calls = [id \in CallIds |-> "none"]
    /\ tokens = RateLimit /\ count = 0
    /\ releases = [sent |-> 0, half |-> 0]

\* submit_chat_completions for every conversation of the next batch.
StartBatch ==
    /\ phase = "idle" /\ batch < Len(Batches)
    /\ batch' = batch + 1
    /\ phase' = "running"
    /\ state' = [c \in Convs |-> IF c \in Batches[batch + 1] THEN "submitted" ELSE state[c]]
    /\ depth' = [c \in Convs |-> IF c \in Batches[batch + 1] THEN 1 ELSE depth[c]]
    /\ UNCHANGED <<done, known, messages, routeVars, calls, bucketVars>>

\* gather has all conversations; postprocess asserts that each has a response.
EndBatch ==
    /\ phase = "running"
    /\ \A c \in Batches[batch] : done[c]
    /\ phase' = IF \A c \in Batches[batch] : messages[c] > PromptMsgs THEN "idle" ELSE "raised"
    /\ UNCHANGED <<batch, state, depth, done, known, messages, routeVars, calls, bucketVars>>

-----------------------------------------------------------------------------
(* Routing.                                                                *)

OthersCached(c) == Remove(cache, c)

\* Sending a request of c.  The entry of a conversation is its last request;
\* the least recently used one is evicted.
CacheAfter(c) ==
    LET full == Append(OthersCached(c), c)
    IN  IF Len(full) > MaxCache THEN Tail(full) ELSE full

\* Mutant of Weighed: the heap is not repaired.
Weighed_Unrepaired == {[heap EXCEPT ![1].load = @ + 1]}

\* A first request goes to the root, whose load is changed in place.
Weighed == heapreplace([heap EXCEPT ![1].load = @ + 1])

\* The task starts.  A request that continues a conversation must find its
\* address; else the assertion ends the task, which is all that happens.
SendRequest(c) ==
    /\ state[c] = "submitted"
    /\ IF known[c] /\ ~ Contains(cache, c)
       THEN /\ state' = [state EXCEPT ![c] = "over"]
            /\ UNCHANGED <<known, routeVars>>
       ELSE /\ state' = [state EXCEPT ![c] = "requested"]
            /\ known' = [known EXCEPT ![c] = TRUE]
            /\ cache' = CacheAfter(c)
            /\ IF known[c] THEN UNCHANGED heap ELSE heap' \in Weighed
    /\ UNCHANGED <<batch, phase, depth, done, messages, calls, bucketVars>>

\* No request of the conversation is left, after d of them returned.
Settle(c, d) ==
    /\ depth' = [depth EXCEPT ![c] = d]
    /\ done' = [done EXCEPT ![c] = @ \/ d = 0]

\* Mutant of FailRequest: only a completion lowers the depth.
FailRequest_DepthKept(c) ==
    /\ state[c] = "requested"
    /\ state' = [state EXCEPT ![c] = "over"]
    /\ Settle(c, depth[c])
    /\ UNCHANGED <<batch, phase, known, messages, routeVars, calls, bucketVars>>

\* The request raises: there is no callback.
FailRequest(c) ==
    /\ state[c] = "requested"
    /\ state' = [state EXCEPT ![c] = "over"]
    /\ Settle(c, depth[c] - 1)
    /\ UNCHANGED <<batch, phase, known, messages, routeVars, calls, bucketVars>>

\* The completion ends the conversation: no tool is called, or there are
\* too many messages.
LastCompletion(c) ==
    /\ state[c] = "requested"
    /\ messages' = [messages EXCEPT ![c] = @ + 1]
    /\ state' = [state EXCEPT ![c] = "over"]
    /\ Settle(c, depth[c] - 1)
    /\ UNCHANGED <<batch, phase, known, routeVars, calls, bucketVars>>

\* The callback calls tools: each call raises at once, as its arguments
\* cannot be parsed; or is one of another tool; or is a search.
CallTools(c) ==
    /\ state[c] = "requested"
    /\ messages[c] + 1 < MaxMessages
    /\ messages' = [messages EXCEPT ![c] = @ + 1]
    /\ state' = [state EXCEPT ![c] = "calling"]
    /\ depth' = [depth EXCEPT ![c] = @ - 1]
    /\ \E n \in 1..MaxCalls : \E kind \in [1..n -> {"raised", "other", "queued"}] :
          calls' = [id \in CallIds |->
                       IF id[1] # c THEN calls[id]
                       ELSE IF id[2] <= n THEN kind[id[2]] ELSE "none"]
    /\ UNCHANGED <<batch, phase, done, known, routeVars, bucketVars>>

CallsOf(c) == {calls[<<c, i>>] : i \in 1..MaxCalls} \ {"none"}

\* A raising call ends gather, whatever the other calls do; so does the
\* callback.  An exception that a tool returned ends it after all calls.
GiveUp(c) ==
    /\ state[c] = "calling"
    /\ \/ "raised" \in CallsOf(c)
       \/ "failed" \in CallsOf(c) /\ CallsOf(c) \subseteq {"answered", "failed"}
    /\ state' = [state EXCEPT ![c] = "over"]
    /\ Settle(c, depth[c])
    /\ UNCHANGED <<batch, phase, known, messages, routeVars, calls, bucketVars>>

\* All calls are answered: the conversation is submitted again.
Resubmit(c) ==
    /\ state[c] = "calling"
    /\ CallsOf(c) = {"answered"}
    /\ messages' = [messages EXCEPT ![c] =
                       @ + Cardinality({i \in 1..MaxCalls : calls[<<c, i>>] = "answered"})]
    /\ state' = [state EXCEPT ![c] = "submitted"]
    /\ Settle(c, depth[c] + 1)
    /\ UNCHANGED <<batch, phase, known, routeVars, calls, bucketVars>>

-----------------------------------------------------------------------------
(* The calls, the pool and the bucket.                                     *)

OtherTool(id) ==
    /\ calls[id] = "other"
    /\ \E answer \in {"answered", "failed"} : calls' = [calls EXCEPT ![id] = answer]
    /\ UNCHANGED <<convVars, routeVars, bucketVars>>

InState(s) == {id \in CallIds : calls[id] = s}

OnThread == InState("acquiring") \cup InState("acquired") \cup InState("searching")

\* A thread of the pool takes the call and waits for a token.
TakeThread(id) ==
    /\ calls[id] = "queued"
    /\ Cardinality(OnThread) < NumWorkers
    /\ calls' = [calls EXCEPT ![id] = "acquiring"]
    /\ UNCHANGED <<convVars, routeVars, bucketVars>>

\* acquire runs on a thread of its own in the bucket, one call at a time.
Acquire(id) ==
    /\ calls[id] = "acquiring"
    /\ InState("acquired") = {}
    /\ tokens > 0
    /\ tokens' = tokens - 1
    /\ calls' = [calls EXCEPT ![id] = "acquired"]
    /\ UNCHANGED <<convVars, routeVars, count, releases>>

CountAcquired(id) ==
    /\ calls[id] = "acquired"
    /\ count' = count + 1
    /\ calls' = [calls EXCEPT ![id] = "searching"]
    /\ UNCHANGED <<convVars, routeVars, tokens, releases>>

\* Mutant of EndSearch: a search that raises keeps its token.
EndSearch_TokenKept(id) ==
    /\ calls[id] = "searching"
    /\ calls' = [calls EXCEPT ![id] = "answered"]
    /\ \/ releases' = [releases EXCEPT !.sent = @ + 1]
       \/ UNCHANGED releases
    /\ UNCHANGED <<convVars, routeVars, tokens, count>>

\* The search returns or raises; both are an answer.  release is called,
\* and not awaited.
EndSearch(id) ==
    /\ calls[id] = "searching"
    /\ calls' = [calls EXCEPT ![id] = "answered"]
    /\ releases' = [releases EXCEPT !.sent = @ + 1]
    /\ UNCHANGED <<convVars, routeVars, tokens, count>>

Release ==
    /\ releases.sent > 0
    /\ tokens' = tokens + 1
    /\ releases' = [sent |-> releases.sent - 1, half |-> releases.half + 1]
    /\ UNCHANGED <<convVars, routeVars, calls, count>>

CountReleased ==
    /\ releases.half > 0
    /\ count' = count - 1
    /\ releases' = [releases EXCEPT !.half = @ - 1]
    /\ UNCHANGED <<convVars, routeVars, calls, tokens>>

-----------------------------------------------------------------------------
Conversation(c) ==
    SendRequest(c) \/ FailRequest(c) \/ LastCompletion(c) \/ CallTools(c) \/ GiveUp(c) \/ Resubmit(c)

Call(id) ==
    OtherTool(id) \/ TakeThread(id) \/ Acquire(id) \/ CountAcquired(id) \/ EndSearch(id)

Next ==
    \/ StartBatch
    \/ EndBatch
    \/ \E c \in Convs : Conversation(c)
    \/ \E id \in CallIds : Call(id)
    \/ Release
    \/ CountReleased

\* The event loop, the servers, the tools and the bucket keep working.
Spec == Init /\ [][Next]_vars /\ WF_vars(Next)

-----------------------------------------------------------------------------
(* Every generate_sequences ends, although a conversation waits for tools  *)
(* that wait for threads and tokens, requests and tools fail, and the      *)
(* cache forgets requests: as long as it holds a batch, the ones that it   *)
(* forgets are those of conversations that are over.                       *)
EveryBatchEnds == phase = "running" ~> phase # "running"

(* A token is with a search, with a release on its way or in the bucket:   *)
(* never more than RateLimit searches run, none is lost to one that fails  *)
(* or whose conversation was given up, and current_count, which lags       *)
(* behind, is never negative.                                              *)
TokensConserved ==
    /\ tokens + releases.sent + Cardinality(InState("acquired") \cup InState("searching"))
          = RateLimit
    /\ count = Cardinality(InState("searching")) + releases.sent + releases.half
    /\ tokens >= 0 /\ count >= 0

(* Conversations are spread evenly, over all batches: the root is the      *)
(* least loaded address each time, although it is changed before the heap  *)
(* is repaired.                                                            *)
LoadIsEven == \A i, j \in DOMAIN heap : heap[i].load <= heap[j].load + 1
=============================================================================
