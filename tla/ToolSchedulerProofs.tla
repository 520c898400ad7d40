------------------------- MODULE ToolSchedulerProofs -------------------------
(***************************************************************************)
(* For any batches, pool and cache: the bucket conserves its tokens, and   *)
(* conversations are spread evenly over the addresses.                     *)
(***************************************************************************)
EXTENDS ToolScheduler, FiniteSetTheorems, SequenceTheorems, TLAPS

CallStates ==
    {"none", "raised", "other", "queued", "acquiring", "acquired", "searching",
     "answered", "failed"}

Entry == [load : Nat, address : Nat]

TypeOK ==
    /\ batch \in Nat
    /\ state \in [Convs -> {"new", "submitted", "requested", "calling", "over"}]
    /\ heap \in Seq(Entry) /\ heap # << >>
    /\ calls \in [CallIds -> CallStates]
    /\ tokens \in Nat /\ count \in Int
    /\ releases \in [sent : Nat, half : Nat]

(* The conversations of later batches have not begun.                      *)
LaterAreNew ==
    \A k \in DOMAIN Batches : k > batch => \A c \in Batches[k] : state[c] = "new"

(* A conversation only calls tools when its earlier calls are over: no     *)
(* search is forgotten while it holds a token.                             *)
NoCallForgotten ==
    \A id \in CallIds :
        state[id[1]] \in {"new", "submitted", "requested"} =>
            calls[id] \in {"none", "answered"}

(* The calls that hold a token, and those of them that search, are         *)
(* finitely many, and the bucket accounts for each.                        *)
TokensAccounted ==
    /\ IsFiniteSet(InState("acquired")) /\ IsFiniteSet(InState("searching"))
    /\ TokensConserved

(* Between two requests the addresses are a heap.                          *)
HeapOrdered == OrderedFrom(heap, 1)

(* The inductive invariant.                                                *)
SchedulerInv ==
    /\ TypeOK
    /\ LaterAreNew
    /\ NoCallForgotten
    /\ TokensAccounted
    /\ HeapOrdered
    /\ LoadIsEven

(* Every nonempty set of numbers has a least one.                          *)
LEMMA LeastNumber ==
    ASSUME NEW T \in SUBSET Nat, T # {}
    PROVE  \E x \in T : \A y \in T : x <= y
<1> DEFINE R == {pair \in Nat \X Nat : pair[1] < pair[2]}
<1>1. IsWellFoundedOn(R, Nat)
    BY NatLessThanWellFounded DEF OpToRel
<1> HIDE DEF R
<1>2. PICK x \in T : \A y \in T : ~ (<<y, x>> \in R)
    BY <1>1, WFMin
<1>3. \A y \in T : ~ (y < x)
    BY <1>2 DEF R
<1> QED
    BY <1>3

LEMMA Entries ==
    ASSUME NEW h \in Seq(Entry)
    PROVE  /\ DOMAIN h = 1..Len(h) /\ Len(h) \in Nat
           /\ \A i \in DOMAIN h : h[i] \in Entry /\ h[i].load \in Nat
<1>1. DOMAIN h = 1..Len(h) /\ Len(h) \in Nat
    OBVIOUS
<1>2. \A i \in DOMAIN h : h[i] \in Entry
    BY <1>1, ElementOfSeq
<1>3. \A e \in Entry : e.load \in Nat
    BY DEF Entry
<1> QED
    BY <1>1, <1>2, <1>3

(* No entry of a heap has less load than its root: the first that had      *)
(* would precede its parent.                                               *)
LEMMA RootIsLeast ==
    ASSUME NEW h \in Seq(Entry), OrderedFrom(h, 1)
    PROVE  \A i \in DOMAIN h : h[1].load <= h[i].load
<1> DEFINE Less == {i \in DOMAIN h : ~ h[1].load <= h[i].load}
<1>1. SUFFICES ASSUME Less # {} PROVE FALSE
    OBVIOUS
<1>2. DOMAIN h \subseteq Nat /\ DOMAIN h = 1..Len(h) /\ Len(h) \in Nat
    OBVIOUS
<1>3. Less \in SUBSET Nat
    BY <1>2
<1>4. \A i \in DOMAIN h : h[i].load \in Nat
    BY Entries
<1>5. \A i : i \in Less <=> i \in DOMAIN h /\ ~ h[1].load <= h[i].load
    OBVIOUS
<1> HIDE DEF Less
<1>6. PICK i \in Less : \A j \in Less : i <= j
    BY <1>1, <1>3, LeastNumber
<1>7. i \in Nat /\ i \in 1..Len(h) /\ i # 1 /\ 1 \in DOMAIN h
    <2>1. i \in 1..Len(h) /\ 1 \in DOMAIN h
        BY <1>2, <1>5
    <2>2. h[1].load <= h[1].load
        BY <1>4, <2>1
    <2> QED
        BY <1>5, <1>6, <2>1, <2>2
<1>8. i \div 2 \in 1..Len(h) /\ i \div 2 >= 1 /\ ~ i <= i \div 2
    BY <1>2, <1>7
<1>9. h[1].load <= h[i \div 2].load
    BY <1>2, <1>5, <1>6, <1>8
<1>10. h[i \div 2].load <= h[i].load
    <2>1. Precedes(h[i \div 2], h[i])
        BY <1>2, <1>7, <1>8 DEF OrderedFrom
    <2>2. h[i].load \in Nat /\ h[i \div 2].load \in Nat
        BY <1>2, <1>4, <1>7, <1>8
    <2> QED
        BY <2>1, <2>2 DEF Precedes
<1> QED
    BY <1>2, <1>4, <1>5, <1>7, <1>8, <1>9, <1>10

(* An arrangement has the same places and the same entries.                *)
LEMMA SameEntries ==
    ASSUME NEW h \in Seq(Entry), NEW g \in Arrangements(h)
    PROVE  /\ g \in Seq(Entry) /\ DOMAIN g = DOMAIN h
           /\ \A i \in DOMAIN g : \E j \in DOMAIN h : g[i] = h[j]
<1>1. PICK p \in Bijection(DOMAIN h, DOMAIN h) : g = [i \in DOMAIN h |-> h[p[i]]]
    BY DEF Arrangements
<1>2. p \in [DOMAIN h -> DOMAIN h]
    BY DEF Bijection, Injection
<1>3. DOMAIN h = 1..Len(h) /\ Len(h) \in Nat /\ \A j \in DOMAIN h : h[j] \in Entry
    BY ElementOfSeq
<1>4. g \in [1..Len(h) -> Entry]
    BY <1>1, <1>2, <1>3
<1> QED
    BY <1>1, <1>2, <1>3, <1>4

(* Whatever heapify makes of the entries, it is a heap of them.            *)
LEMMA HeapOfEntries ==
    ASSUME NEW h \in Seq(Entry), NEW g \in heapify(h)
    PROVE  g \in Arrangements(h) /\ OrderedFrom(g, 1)
<1>1. h \in Arrangements(h)
    <2> DEFINE same == [i \in DOMAIN h |-> i]
    <2>1. same \in Bijection(DOMAIN h, DOMAIN h)
        BY DEF Bijection, Injection, Surjection, IsInjective
    <2>2. h = [i \in DOMAIN h |-> h[same[i]]]
        BY ElementOfSeq
    <2> HIDE DEF same
    <2> QED
        BY <2>1, <2>2 DEF Arrangements
<1> QED
    BY <1>1 DEF heapify

(* A request to the root leaves the rest in order, as the repair requires, *)
(* and makes of a heap a heap, of which no address is two ahead.           *)
LEMMA WeighedIsHeap ==
    ASSUME TypeOK, NEW h \in Weighed
    PROVE  /\ h \in Seq(Entry) /\ h # << >>
           /\ HeapOrdered => OrderedFrom(h, 1)
           /\ HeapOrdered /\ LoadIsEven =>
                 \A i, j \in DOMAIN h : h[i].load <= h[j].load + 1
<1> DEFINE more == [heap EXCEPT ![1].load = @ + 1]
<1>1. heap \in Seq(Entry) /\ heap # << >> /\ 1 \in DOMAIN heap
    BY DEF TypeOK
<1>2. /\ DOMAIN heap = 1..Len(heap) /\ Len(heap) \in Nat
      /\ \A i \in DOMAIN heap : heap[i] \in Entry /\ heap[i].load \in Nat
    BY <1>1, Entries
<1>3. /\ DOMAIN more = DOMAIN heap /\ more[1] = [heap[1] EXCEPT !.load = @ + 1]
      /\ \A i \in DOMAIN heap : i # 1 => more[i] = heap[i]
    BY <1>1
<1>4. more[1] \in Entry /\ more[1].load = heap[1].load + 1
    BY <1>1, <1>2, <1>3 DEF Entry
<1>5. more \in Seq(Entry)
    <2>1. \A i \in 1..Len(heap) : more[i] \in Entry
        BY <1>2, <1>3, <1>4
    <2>2. more = [i \in 1..Len(heap) |-> more[i]]
        BY <1>2
    <2> HIDE DEF more
    <2>3. more \in [1..Len(heap) -> Entry]
        BY <2>1, <2>2
    <2> QED
        BY <1>2, <2>3
<1>6. h \in heapreplace(more)
    BY DEF Weighed
<1> HIDE DEF more
<1>7. h \in Arrangements(more)
    BY <1>5, <1>6, HeapOfEntries DEF heapreplace
<1>8. /\ h \in Seq(Entry) /\ DOMAIN h = DOMAIN heap
      /\ \A i \in DOMAIN h : \E j \in DOMAIN heap : h[i] = more[j]
    BY <1>3, <1>5, <1>7, SameEntries
<1>9. h # << >>
    BY <1>1, <1>8
<1>10. ASSUME HeapOrdered PROVE OrderedFrom(h, 1)
    <2>1. \A i \in DOMAIN heap : i \div 2 >= 2 => i # 1 /\ i \div 2 # 1 /\ i \div 2 \in DOMAIN heap
        BY <1>2
    <2>2. \A i \in DOMAIN heap : i \div 2 >= 2 => Precedes(heap[i \div 2], heap[i])
        BY <1>2, <1>10 DEF HeapOrdered, OrderedFrom
    <2>3. OrderedFrom(more, 2)
        BY <1>3, <2>1, <2>2 DEF OrderedFrom
    <2> QED
        BY <1>5, <1>6, <2>3, HeapOfEntries DEF heapreplace
<1>11. ASSUME HeapOrdered, LoadIsEven
       PROVE  \A i, j \in DOMAIN h : h[i].load <= h[j].load + 1
    <2>1. \A i \in DOMAIN heap : heap[1].load <= heap[i].load /\ heap[i].load <= heap[1].load + 1
        BY <1>1, <1>11, RootIsLeast DEF HeapOrdered, LoadIsEven
    <2>2. \A i \in DOMAIN heap :
             /\ more[i].load \in Nat
             /\ heap[1].load <= more[i].load /\ more[i].load <= heap[1].load + 1
        <3> TAKE i \in DOMAIN heap
        <3>1. heap[1].load \in Nat /\ heap[i].load \in Nat
            BY <1>1, <1>2
        <3>2. CASE i = 1
            BY <1>4, <3>1, <3>2
        <3>3. CASE i # 1
            BY <1>3, <2>1, <3>1, <3>3
        <3> QED
            BY <3>2, <3>3
    <2>3. heap[1].load \in Nat
        BY <1>1, <1>2
    <2> TAKE i, j \in DOMAIN h
    <2>4. PICK m \in DOMAIN heap : h[i] = more[m]
        BY <1>8
    <2>5. PICK n \in DOMAIN heap : h[j] = more[n]
        BY <1>8
    <2> QED
        BY <2>2, <2>3, <2>4, <2>5
<1> QED
    BY <1>8, <1>9, <1>10, <1>11

-----------------------------------------------------------------------------
(* Every step keeps the variables in their types.                          *)
LEMMA TypeStep == TypeOK /\ [Next]_vars => TypeOK'
<1> SUFFICES ASSUME TypeOK, [Next]_vars
             PROVE  TypeOK'
    OBVIOUS
<1> USE DEF TypeOK, convVars, routeVars, bucketVars
<1>1. CASE StartBatch
    BY <1>1 DEF StartBatch
<1>2. CASE EndBatch
    BY <1>2 DEF EndBatch
<1>3. ASSUME NEW c \in Convs, Conversation(c)
      PROVE  TypeOK'
    <2>1. CASE SendRequest(c)
        BY <2>1, WeighedIsHeap DEF SendRequest
    <2>2. CASE FailRequest(c)
        BY <2>2 DEF FailRequest
    <2>3. CASE LastCompletion(c)
        BY <2>3 DEF LastCompletion
    <2>4. CASE CallTools(c)
        <3>1. calls' \in [CallIds -> CallStates]
            BY <2>4 DEF CallTools, CallIds, CallStates
        <3> QED
            BY <2>4, <3>1 DEF CallTools
    <2>5. CASE GiveUp(c)
        BY <2>5 DEF GiveUp
    <2>6. CASE Resubmit(c)
        BY <2>6 DEF Resubmit
    <2> QED
        BY <1>3, <2>1, <2>2, <2>3, <2>4, <2>5, <2>6 DEF Conversation
<1>4. ASSUME NEW id \in CallIds, Call(id)
      PROVE  TypeOK'
    <2> USE DEF CallStates
    <2>1. CASE OtherTool(id)
        BY <2>1 DEF OtherTool
    <2>2. CASE TakeThread(id)
        BY <2>2 DEF TakeThread
    <2>3. CASE Acquire(id)
        BY <2>3 DEF Acquire
    <2>4. CASE CountAcquired(id)
        BY <2>4 DEF CountAcquired
    <2>5. CASE EndSearch(id)
        BY <2>5 DEF EndSearch
    <2> QED
        BY <1>4, <2>1, <2>2, <2>3, <2>4, <2>5 DEF Call
<1>5. CASE Release
    BY <1>5 DEF Release
<1>6. CASE CountReleased
    BY <1>6 DEF CountReleased
<1>7. CASE UNCHANGED vars
    BY <1>7 DEF vars
<1> QED
    BY <1>1, <1>2, <1>3, <1>4, <1>5, <1>6, <1>7 DEF Next

(* Conversations are started in the order of their batches, and only end   *)
(* up calling tools with none of their earlier calls open.                 *)
LEMMA QuietStep ==
    TypeOK /\ LaterAreNew /\ NoCallForgotten /\ [Next]_vars
        => LaterAreNew' /\ NoCallForgotten'
<1> SUFFICES ASSUME TypeOK, LaterAreNew, NoCallForgotten, [Next]_vars
             PROVE  LaterAreNew' /\ NoCallForgotten'
    OBVIOUS
<1>t. /\ batch \in Nat
      /\ state \in [Convs -> {"new", "submitted", "requested", "calling", "over"}]
      /\ calls \in [CallIds -> CallStates]
    BY DEF TypeOK
<1>c. \A id \in CallIds : id[1] \in Convs
    BY DEF CallIds
<1>b. \A k \in DOMAIN Batches : Batches[k] \subseteq Convs
    BY DEF Convs
<1> USE DEF convVars, routeVars, bucketVars
<1>1. CASE StartBatch
    <2>1. batch + 1 \in DOMAIN Batches
        BY <1>1, <1>t, SchedulerAssumption DEF StartBatch, SchedulerAssumption
    <2>2. LaterAreNew'
        <3> SUFFICES ASSUME NEW k \in DOMAIN Batches, k > batch', NEW c \in Batches[k]
                     PROVE  state'[c] = "new"
            BY DEF LaterAreNew
        <3>1. k \in Nat /\ k > batch /\ k # batch + 1
            BY <1>1, <1>t, SchedulerAssumption DEF StartBatch, SchedulerAssumption
        <3>2. c \notin Batches[batch + 1]
            BY <2>1, <3>1, SchedulerAssumption DEF SchedulerAssumption
        <3> QED
            BY <1>1, <1>b, <3>1, <3>2 DEF StartBatch, LaterAreNew
    <2>3. NoCallForgotten'
        <3> SUFFICES ASSUME NEW id \in CallIds,
                            state'[id[1]] \in {"new", "submitted", "requested"}
                     PROVE  calls'[id] \in {"none", "answered"}
            BY DEF NoCallForgotten
        <3>1. state[id[1]] \in {"new", "submitted", "requested"}
            <4>1. CASE id[1] \in Batches[batch + 1]
                BY <1>t, <2>1, <4>1 DEF LaterAreNew
            <4>2. CASE id[1] \notin Batches[batch + 1]
                BY <1>1, <1>c, <4>2 DEF StartBatch
            <4> QED
                BY <4>1, <4>2
        <3> QED
            BY <1>1, <3>1 DEF StartBatch, NoCallForgotten
    <2> QED
        BY <2>2, <2>3
<1>2. ASSUME NEW c \in Convs, Conversation(c)
      PROVE  LaterAreNew' /\ NoCallForgotten'
    <2>1. state[c] # "new" /\ batch' = batch
        BY <1>2 DEF Conversation, SendRequest, FailRequest, LastCompletion, CallTools,
                    GiveUp, Resubmit
    <2>2. \A d \in Convs : d # c => state'[d] = state[d]
        BY <1>2, <1>t DEF Conversation, SendRequest, FailRequest, LastCompletion, CallTools,
                    GiveUp, Resubmit
    <2>3. LaterAreNew'
        BY <1>b, <2>1, <2>2 DEF LaterAreNew
    <2>4. CASE CallTools(c)
        <3>1. \A id \in CallIds : id[1] # c => calls'[id] = calls[id]
            BY <2>4 DEF CallTools
        <3>2. state'[c] = "calling"
            BY <2>4, <1>t DEF CallTools
        <3>3. NoCallForgotten'
            BY <1>c, <2>2, <3>1, <3>2 DEF NoCallForgotten
        <3> QED
            BY <2>3, <3>3
    <2>5. CASE Resubmit(c)
        <3>1. calls' = calls
            BY <2>5 DEF Resubmit
        <3>2. \A i \in 1..MaxCalls : calls[<<c, i>>] \in {"none", "answered"}
            BY <2>5 DEF Resubmit, CallsOf
        <3>3. \A id \in CallIds : id[1] = c => calls[id] \in {"none", "answered"}
            BY <3>2 DEF CallIds
        <3>4. NoCallForgotten'
            BY <1>c, <2>2, <3>1, <3>3 DEF NoCallForgotten
        <3> QED
            BY <2>3, <3>4
    <2>6. CASE SendRequest(c) \/ FailRequest(c) \/ LastCompletion(c) \/ GiveUp(c)
        <3>1. calls' = calls
            BY <2>6 DEF SendRequest, FailRequest, LastCompletion, GiveUp
        <3>2. state'[c] = "over" \/ (state[c] = "submitted" /\ state'[c] = "requested")
            BY <1>t, <2>6 DEF SendRequest, FailRequest, LastCompletion, GiveUp
        <3>3. NoCallForgotten'
            BY <1>c, <2>2, <3>1, <3>2 DEF NoCallForgotten
        <3> QED
            BY <2>3, <3>3
    <2> QED
        BY <1>2, <2>4, <2>5, <2>6 DEF Conversation
<1>3. ASSUME NEW id \in CallIds, Call(id)
      PROVE  LaterAreNew' /\ NoCallForgotten'
    <2>1. state' = state /\ batch' = batch
        BY <1>3 DEF Call, OtherTool, TakeThread, Acquire, CountAcquired, EndSearch
    <2>2. calls[id] \notin {"none", "answered"}
        BY <1>3 DEF Call, OtherTool, TakeThread, Acquire, CountAcquired, EndSearch
    <2>3. \A other \in CallIds : other # id => calls'[other] = calls[other]
        BY <1>3, <1>t DEF Call, OtherTool, TakeThread, Acquire, CountAcquired, EndSearch
    <2>4. NoCallForgotten'
        BY <2>1, <2>2, <2>3 DEF NoCallForgotten
    <2> QED
        BY <2>1, <2>4 DEF LaterAreNew
<1>4. CASE EndBatch \/ Release \/ CountReleased \/ UNCHANGED vars
    <2>1. UNCHANGED <<state, batch, calls>>
        BY <1>4 DEF EndBatch, Release, CountReleased, vars
    <2> QED
        BY <2>1 DEF LaterAreNew, NoCallForgotten
<1> QED
    BY <1>1, <1>2, <1>3, <1>4 DEF Next

-----------------------------------------------------------------------------
(* A step that leaves these calls and the bucket alone keeps the account.  *)
LEMMA TokensUntouched ==
    ASSUME TokensAccounted,
           InState("acquired")' = InState("acquired"),
           InState("searching")' = InState("searching"),
           UNCHANGED <<tokens, count, releases>>
    PROVE  TokensAccounted'
BY DEF TokensAccounted, TokensConserved

(* A step of a call keeps the account: it takes a token, is counted, or    *)
(* leaves its token to a release.                                          *)
LEMMA TokensCallStep ==
    ASSUME TypeOK, TokensAccounted, NEW id \in CallIds, Call(id)
    PROVE  TokensAccounted'
<1> DEFINE A == InState("acquired")
           S == InState("searching")
<1>t. /\ calls \in [CallIds -> CallStates]
      /\ tokens \in Nat /\ count \in Int
      /\ releases \in [sent : Nat, half : Nat]
    BY DEF TypeOK
<1>a. /\ IsFiniteSet(A) /\ IsFiniteSet(S) /\ IsFiniteSet(A \cup S)
      /\ Cardinality(A) \in Nat /\ Cardinality(S) \in Nat /\ Cardinality(A \cup S) \in Nat
    BY FS_Union, FS_CardinalityType DEF TokensAccounted
<1>b. /\ tokens + releases.sent + Cardinality(A \cup S) = RateLimit
      /\ count = Cardinality(S) + releases.sent + releases.half
    BY DEF TokensAccounted, TokensConserved
<1>g. ASSUME IsFiniteSet(A'), IsFiniteSet(S'),
             tokens' + releases'.sent + Cardinality(A' \cup S') = RateLimit,
             count' = Cardinality(S') + releases'.sent + releases'.half,
             tokens' >= 0, count' >= 0
      PROVE  TokensAccounted'
    BY <1>g DEF TokensAccounted, TokensConserved
<1>1. CASE OtherTool(id) \/ TakeThread(id)
    <2>1. UNCHANGED <<tokens, count, releases>>
        BY <1>1 DEF OtherTool, TakeThread, bucketVars
    <2>2. /\ calls[id] \notin {"acquired", "searching"}
          /\ calls'[id] \notin {"acquired", "searching"}
          /\ \A other \in CallIds : other # id => calls'[other] = calls[other]
        BY <1>1, <1>t DEF OtherTool, TakeThread
    <2>3. A' = A /\ S' = S
        BY <2>2 DEF InState
    <2> QED
        BY <2>1, <2>3, TokensUntouched
<1>2. CASE Acquire(id)
    <2>1. /\ tokens > 0 /\ tokens' = tokens - 1 /\ UNCHANGED <<count, releases>>
          /\ calls[id] = "acquiring"
          /\ calls' = [calls EXCEPT ![id] = "acquired"]
        BY <1>2 DEF Acquire
    <2>2. A' = A \cup {id} /\ S' = S /\ id \notin A \cup S
        BY <1>t, <2>1 DEF InState
    <2>3. A' \cup S' = (A \cup S) \cup {id}
        BY <2>2
    <2>4. /\ IsFiniteSet(A')
          /\ Cardinality(A' \cup S') = Cardinality(A \cup S) + 1
        <3> HIDE DEF A, S
        <3> QED BY <1>a, <2>2, <2>3, FS_AddElement
    <2>5. tokens' + releases'.sent + Cardinality(A' \cup S') = RateLimit /\ tokens' >= 0
        <3> HIDE DEF A, S
        <3> QED BY <1>a, <1>b, <1>t, <2>1, <2>4
    <2>6. count' = Cardinality(S') + releases'.sent + releases'.half /\ count' >= 0
        BY <1>a, <1>b, <1>t, <2>1, <2>2 DEF TokensAccounted, TokensConserved
    <2>7. IsFiniteSet(S')
        BY <1>a, <2>2
    <2> QED
        BY <1>g, <2>4, <2>5, <2>6, <2>7
<1>3. CASE CountAcquired(id)
    <2>1. /\ count' = count + 1 /\ UNCHANGED <<tokens, releases>>
          /\ calls[id] = "acquired"
          /\ calls' = [calls EXCEPT ![id] = "searching"]
        BY <1>3 DEF CountAcquired
    <2>2. A' = A \ {id} /\ S' = S \cup {id} /\ id \in A /\ id \notin S
        BY <1>t, <2>1 DEF InState
    <2>3. A' \cup S' = A \cup S
        BY <2>2
    <2>4. IsFiniteSet(A') /\ IsFiniteSet(S') /\ Cardinality(S') = Cardinality(S) + 1
        <3> HIDE DEF A, S
        <3> QED BY <1>a, <2>2, FS_AddElement, FS_RemoveElement
    <2>5. tokens' + releases'.sent + Cardinality(A' \cup S') = RateLimit /\ tokens' >= 0
        BY <1>b, <1>t, <2>1, <2>3
    <2>6. count' = Cardinality(S') + releases'.sent + releases'.half /\ count' >= 0
        <3> HIDE DEF A, S
        <3> QED BY <1>a, <1>b, <1>t, <2>1, <2>4
    <2> QED
        BY <1>g, <2>4, <2>5, <2>6
<1>4. CASE EndSearch(id)
    <2>1. /\ releases' = [releases EXCEPT !.sent = @ + 1] /\ UNCHANGED <<tokens, count>>
          /\ calls[id] = "searching"
          /\ calls' = [calls EXCEPT ![id] = "answered"]
        BY <1>4 DEF EndSearch
    <2>2. A' = A /\ S' = S \ {id} /\ id \in S /\ id \notin A
        BY <1>t, <2>1 DEF InState
    <2>3. A' \cup S' = (A \cup S) \ {id} /\ id \in A \cup S
        BY <2>2
    <2>4. /\ IsFiniteSet(S')
          /\ Cardinality(S') = Cardinality(S) - 1
          /\ Cardinality(A' \cup S') = Cardinality(A \cup S) - 1
        <3> HIDE DEF A, S
        <3> QED BY <1>a, <2>2, <2>3, FS_RemoveElement
    <2>5. releases'.sent = releases.sent + 1 /\ releases'.half = releases.half
        BY <1>t, <2>1
    <2>6. tokens' + releases'.sent + Cardinality(A' \cup S') = RateLimit /\ tokens' >= 0
        <3> HIDE DEF A, S
        <3> QED BY <1>a, <1>b, <1>t, <2>1, <2>4, <2>5
    <2>7. count' = Cardinality(S') + releases'.sent + releases'.half /\ count' >= 0
        <3>1. count >= 0
            BY DEF TokensAccounted, TokensConserved
        <3> HIDE DEF A, S
        <3> QED BY <1>a, <1>b, <1>t, <2>1, <2>4, <2>5, <3>1
    <2>8. IsFiniteSet(A')
        BY <1>a, <2>2
    <2> QED
        BY <1>g, <2>4, <2>6, <2>7, <2>8
<1> QED
    BY <1>1, <1>2, <1>3, <1>4 DEF Call

(* Every step keeps the account of the tokens.                             *)
LEMMA TokensStep ==
    TypeOK /\ NoCallForgotten /\ TokensAccounted /\ [Next]_vars => TokensAccounted'
<1> SUFFICES ASSUME TypeOK, NoCallForgotten, TokensAccounted, [Next]_vars
             PROVE  TokensAccounted'
    OBVIOUS
<1>t. /\ tokens \in Nat /\ count \in Int /\ releases \in [sent : Nat, half : Nat]
    BY DEF TypeOK
<1>1. CASE StartBatch \/ EndBatch \/ UNCHANGED vars
    <2>1. UNCHANGED <<calls, tokens, count, releases>>
        BY <1>1 DEF StartBatch, EndBatch, vars, bucketVars
    <2> QED
        BY <2>1, TokensUntouched DEF InState
<1>2. ASSUME NEW c \in Convs, Conversation(c)
      PROVE  TokensAccounted'
    <2>1. UNCHANGED <<tokens, count, releases>>
        BY <1>2 DEF Conversation, SendRequest, FailRequest, LastCompletion, CallTools,
                    GiveUp, Resubmit, bucketVars
    <2>2. CASE CallTools(c)
        <3>1. ASSUME NEW id \in CallIds, id[1] = c
              PROVE  /\ calls[id] \in {"none", "answered"}
                     /\ calls'[id] \in {"none", "raised", "other", "queued"}
            <4>1. state[id[1]] = "requested"
                BY <2>2, <3>1 DEF CallTools
            <4>2. calls[id] \in {"none", "answered"}
                BY <4>1 DEF NoCallForgotten
            <4>3. calls'[id] \in {"none", "raised", "other", "queued"}
                BY <2>2, <3>1 DEF CallTools, CallIds
            <4> QED
                BY <4>2, <4>3
        <3>2. \A id \in CallIds : id[1] # c => calls'[id] = calls[id]
            BY <2>2 DEF CallTools
        <3>3. /\ InState("acquired")' = InState("acquired")
              /\ InState("searching")' = InState("searching")
            BY <3>1, <3>2 DEF InState
        <3> QED
            BY <2>1, <3>3, TokensUntouched
    <2>3. CASE ~ CallTools(c)
        <3>1. calls' = calls
            BY <1>2, <2>3 DEF Conversation, SendRequest, FailRequest, LastCompletion,
                              GiveUp, Resubmit
        <3> QED
            BY <2>1, <3>1, TokensUntouched DEF InState
    <2> QED
        BY <2>2, <2>3
<1>3. ASSUME NEW id \in CallIds, Call(id)
      PROVE  TokensAccounted'
    BY <1>3, TokensCallStep
<1>4. CASE Release \/ CountReleased
    <2> DEFINE A == InState("acquired")
               S == InState("searching")
    <2>1. A' = A /\ S' = S
        BY <1>4 DEF Release, CountReleased, InState
    <2>2. /\ IsFiniteSet(A) /\ IsFiniteSet(S) /\ Cardinality(S) \in Nat
          /\ tokens + releases.sent + Cardinality(A \cup S) = RateLimit
          /\ count = Cardinality(S) + releases.sent + releases.half
        BY FS_CardinalityType DEF TokensAccounted, TokensConserved
    <2>3. Cardinality(A \cup S) \in Nat
        BY <2>2, FS_Union, FS_CardinalityType
    <2>4. ASSUME IsFiniteSet(A'), IsFiniteSet(S'),
                 tokens' + releases'.sent + Cardinality(A' \cup S') = RateLimit,
                 count' = Cardinality(S') + releases'.sent + releases'.half,
                 tokens' >= 0, count' >= 0
          PROVE  TokensAccounted'
        BY <2>4 DEF TokensAccounted, TokensConserved
    <2> HIDE DEF A, S
    <2>5. CASE Release
        <3>1. /\ tokens' = tokens + 1 /\ count' = count /\ releases.sent > 0
              /\ releases'.sent = releases.sent - 1 /\ releases'.half = releases.half + 1
            BY <2>5 DEF Release
        <3>2. tokens' + releases'.sent + Cardinality(A' \cup S') = RateLimit /\ tokens' >= 0
            BY <1>t, <2>1, <2>2, <2>3, <3>1
        <3>3. count' = Cardinality(S') + releases'.sent + releases'.half /\ count' >= 0
            BY <1>t, <2>1, <2>2, <3>1
        <3> QED
            BY <2>1, <2>2, <2>4, <3>2, <3>3
    <2>6. CASE CountReleased
        <3>1. /\ tokens' = tokens /\ count' = count - 1 /\ releases.half > 0
              /\ releases'.sent = releases.sent /\ releases'.half = releases.half - 1
            BY <1>t, <2>6 DEF CountReleased
        <3>2. tokens' + releases'.sent + Cardinality(A' \cup S') = RateLimit /\ tokens' >= 0
            BY <1>t, <2>1, <2>2, <2>3, <3>1
        <3>3. count' = Cardinality(S') + releases'.sent + releases'.half /\ count' >= 0
            BY <1>t, <2>1, <2>2, <3>1
        <3> QED
            BY <2>1, <2>2, <2>4, <3>2, <3>3
    <2> QED
        BY <1>4, <2>5, <2>6
<1> QED
    BY <1>1, <1>2, <1>3, <1>4 DEF Next

(* Every step keeps the heap a heap and the loads even: only a first       *)
(* request adds to one, to the least.                                      *)
LEMMA LoadStep ==
    TypeOK /\ HeapOrdered /\ LoadIsEven /\ [Next]_vars => HeapOrdered' /\ LoadIsEven'
<1> SUFFICES ASSUME TypeOK, HeapOrdered, LoadIsEven, [Next]_vars
             PROVE  HeapOrdered' /\ LoadIsEven'
    OBVIOUS
<1>1. CASE heap' = heap
    BY <1>1 DEF LoadIsEven, HeapOrdered
<1>2. CASE heap' \in Weighed
    BY <1>2, WeighedIsHeap DEF LoadIsEven, HeapOrdered
<1>3. heap' = heap \/ heap' \in Weighed
    BY DEF Next, vars, StartBatch, EndBatch, Conversation, SendRequest, FailRequest,
           LastCompletion, CallTools, GiveUp, Resubmit, Call, OtherTool, TakeThread,
           Acquire, CountAcquired, EndSearch, Release, CountReleased, routeVars
<1> QED
    BY <1>1, <1>2, <1>3

(* The invariant holds at first.                                           *)
LEMMA InvInit == Init => SchedulerInv
<1> SUFFICES ASSUME Init PROVE SchedulerInv
    OBVIOUS
<1> USE SchedulerAssumption DEF SchedulerAssumption
<1>h. /\ heap \in Seq(Entry) /\ heap # << >> /\ HeapOrdered
      /\ \A i \in DOMAIN heap : heap[i].load = 0
    <2> DEFINE zero == [i \in DOMAIN Addresses |-> [load |-> 0, address |-> Addresses[i]]]
    <2>1. Addresses \in Seq(Nat) /\ Addresses # << >>
        OBVIOUS
    <2>2. DOMAIN Addresses = 1..Len(Addresses) /\ Len(Addresses) \in Nat /\ Len(Addresses) >= 1
        BY <2>1
    <2>3. zero \in [1..Len(Addresses) -> Entry] /\ DOMAIN zero = DOMAIN Addresses
        BY <2>1, <2>2, ElementOfSeq DEF Entry
    <2>4. zero \in Seq(Entry) /\ \A i \in DOMAIN zero : zero[i].load = 0
        BY <2>2, <2>3
    <2>5. heap \in heapify(zero)
        BY DEF Init
    <2> HIDE DEF zero
    <2>6. heap \in Arrangements(zero) /\ HeapOrdered
        BY <2>4, <2>5, HeapOfEntries DEF HeapOrdered
    <2>7. /\ heap \in Seq(Entry) /\ DOMAIN heap = DOMAIN zero
          /\ \A i \in DOMAIN heap : \E n \in DOMAIN zero : heap[i] = zero[n]
        BY <2>4, <2>6, SameEntries
    <2> QED
        BY <2>2, <2>3, <2>4, <2>6, <2>7
<1>1. TypeOK
    <2>1. tokens \in Nat /\ count \in Int /\ releases \in [sent : Nat, half : Nat]
        BY DEF Init
    <2> QED
        BY <1>h, <2>1 DEF Init, TypeOK, CallStates
<1>2. LaterAreNew
    BY DEF Init, LaterAreNew, Convs
<1>3. NoCallForgotten
    BY DEF Init, NoCallForgotten
<1>4. InState("acquired") = {} /\ InState("searching") = {}
    BY DEF Init, InState
<1>5. TokensAccounted
    <2>1. IsFiniteSet({}) /\ Cardinality({}) = 0
        BY FS_EmptySet
    <2>2. InState("acquired") \cup InState("searching") = {}
        BY <1>4
    <2>3. tokens = RateLimit /\ RateLimit \in Nat /\ count = 0
        BY DEF Init
    <2>4. releases.sent = 0 /\ releases.half = 0
        BY DEF Init
    <2>a. Cardinality(InState("searching")) = 0
        BY <1>4, <2>1
    <2>b. Cardinality(InState("acquired") \cup InState("searching")) = 0
        BY <2>1, <2>2
    <2>5. TokensConserved
        <3> DEFINE held == Cardinality(InState("acquired") \cup InState("searching"))
                   searching == Cardinality(InState("searching"))
        <3>1. held = 0 /\ searching = 0
            BY <2>a, <2>b
        <3>2. SUFFICES /\ tokens + releases.sent + held = RateLimit
                       /\ count = searching + releases.sent + releases.half
                       /\ tokens >= 0 /\ count >= 0
            BY DEF TokensConserved
        <3> HIDE DEF held, searching
        <3> QED
            BY <2>3, <2>4, <3>1
    <2> QED
        BY <1>4, <2>1, <2>5 DEF TokensAccounted
<1>6. LoadIsEven
    BY <1>h DEF LoadIsEven
<1> QED
    BY <1>h, <1>1, <1>2, <1>3, <1>5, <1>6 DEF SchedulerInv

(* The inductive invariant holds in every reachable state.                 *)
THEOREM SchedulerInvariant == Spec => []SchedulerInv
<1>1. SchedulerInv /\ [Next]_vars => SchedulerInv'
    BY TypeStep, QuietStep, TokensStep, LoadStep DEF SchedulerInv
<1> QED
    BY InvInit, <1>1, PTL DEF Spec

(* No token is lost or made, and no more than RateLimit searches run, for  *)
(* any batches, threads, and orders of requests, failures and releases.    *)
THEOREM TokensAlwaysConserved == Spec => []TokensConserved
<1>1. SchedulerInv => TokensConserved
    BY DEF SchedulerInv, TokensAccounted
<1> QED
    BY <1>1, SchedulerInvariant, PTL

(* However conversations come and go, no address is given two more than    *)
(* another.                                                                *)
THEOREM LoadAlwaysEven == Spec => []LoadIsEven
<1>1. SchedulerInv => LoadIsEven
    BY DEF SchedulerInv
<1> QED
    BY <1>1, SchedulerInvariant, PTL
=============================================================================
