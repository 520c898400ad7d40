---------------------------- MODULE BatchBalancing ----------------------------
(***************************************************************************)
(* How the rows of a batch are dealt out by their lengths and found again. *)
(*                                                                         *)
(* "micro": compute_log_prob splits the rows of a rank into micro-batches  *)
(* (rearrange_micro_batches), whose outputs are put back in order          *)
(* (get_reverse_idx).  "global": _balance_batch reorders the batch so that *)
(* its equal chunks, one for each rank, hold similar numbers of tokens.    *)
(*                                                                         *)
(* Both use the differencing method of karmarkar_karp: a heap of States,   *)
(* each k disjoint sets of rows, of which the two with the largest spread  *)
(* are merged until one is left.  The code breaks ties by row; here any    *)
(* way to break them is allowed.                                           *)
(***************************************************************************)
EXTENDS Integers, Sequences, FiniteSets, FiniteSetsExt, SequencesExt

CONSTANTS
    Jobs,         \* which of the two are explored
    Rows,         \* rows of the batch
    MaxLen,       \* bound: tokens of a row
    MaxTokenLen   \* max_token_len of a micro-batch

ASSUME BalancingAssumption ==
    /\ Jobs \subseteq {"micro", "global"}
    /\ {Rows, MaxLen, MaxTokenLen} \subseteq Nat \ {0}
    /\ MaxLen <= MaxTokenLen   \* asserted by rearrange_micro_batches

VARIABLES
    job,
    lens,   \* seqlen_list
    k,      \* k_partitions
    heap,   \* states_pq
    order,  \* the rows in the order of the partitions; << >> before
    rows    \* which row's output (or which row) comes i-th in the end

balanceVars == <<job, lens, k, heap, order, rows>>

Indices == 1..Rows
Total(S) == MapThenSumSet(LAMBDA i : lens[i], S)
CeilDiv(a, b) == (a + b - 1) \div b

\* sorted by length, then by row
SortedPlace(i) ==
    1 + Cardinality({j \in Indices : lens[j] < lens[i] \/ (lens[j] = lens[i] /\ j < i)})
AtPlace(p) == CHOOSE i \in Indices : SortedPlace(i) = p

\* Set.__lt__ up to ties
Below(A, B) == Total(A) < Total(B) \/ (Total(A) = Total(B) /\ Cardinality(A) < Cardinality(B))

\* The ways to sort the sets of a State, decreasing.
Arrangements(sets) ==
    {[i \in 1..k |-> sets[p[i]]] :
        p \in {q \in [1..k -> 1..k] :
                  /\ IsInjective(q)
                  /\ \A i, j \in 1..k : i < j => ~ Below(sets[q[i]], sets[q[j]])}}

Spread(s) == Total(s[1]) - Total(s[k])

\* State.__lt__ up to ties: s may be popped before t.
MayPrecede(s, t) == Spread(s) > Spread(t) \/ (Spread(s) = Spread(t) /\ ~ Below(s[1], t[1]))

Heads(H) == {s \in H : \A t \in H : MayPrecede(s, t)}

-----------------------------------------------------------------------------
\* The most that max_token_len asks for on any rank: all_reduce(MAX).
NumMicroBatches(peers) == Max({peers, Min({Rows, CeilDiv(Total(Indices), MaxTokenLen)})})

\* One State for each row, or for each k neighbours in sorted order.
OneByOne == {[i \in 1..k |-> IF i = 1 THEN {r} ELSE {}] : r \in Indices}
InGroups == {[i \in 1..k |-> {AtPlace(k * g - i + 1)}] : g \in 1..(Rows \div k)}

BalanceInit ==
    /\ job \in Jobs
    /\ lens \in [Indices -> 1..MaxLen]
    /\ IF job = "micro" THEN \E peers \in Indices : k = NumMicroBatches(peers)
       ELSE k \in {d \in Indices : Rows % d = 0}
    /\ heap = IF job = "micro" THEN OneByOne ELSE InGroups
    /\ order = << >> /\ rows = << >>

\* Mutant of MergedSets: the largest set is merged with the largest.
MergedSets_SameEnd(s, t) == [i \in 1..k |-> s[i] \cup t[i]]

\* The i-th largest set of one with the i-th smallest of the other.
MergedSets(s, t) == [i \in 1..k |-> s[i] \cup t[k + 1 - i]]

Merge ==
    /\ Cardinality(heap) > 1
    /\ \E s \in Heads(heap) : \E t \in Heads(heap \ {s}) :
          \E merged \in Arrangements(MergedSets(s, t)) :
              heap' = (heap \ {s, t}) \cup {merged}
    /\ UNCHANGED <<job, lens, k, order, rows>>

Final == CHOOSE s \in heap : TRUE

\* _check_and_sort_partitions; the partitions one after the other.
Partition(i) ==
    [p \in 1..Cardinality(Final[i]) |->
        CHOOSE r \in Final[i] : Cardinality({q \in Final[i] : q < r}) = p - 1]

Flatten ==
    /\ Cardinality(heap) = 1 /\ order = << >>
    /\ order' = FlattenSeq([i \in 1..k |-> Partition(i)])
    /\ UNCHANGED <<job, lens, k, heap, rows>>

\* get_reverse_idx
ReverseIdx(idx_map) == [i \in Indices |-> CHOOSE j \in Indices : idx_map[j] = i]

\* "micro": outputs come in this order, and are put back.  "global": the
\* batch is reordered.
Deliver ==
    /\ order # << >> /\ rows = << >>
    /\ rows' = IF job = "micro" THEN [i \in Indices |-> order[ReverseIdx(order)[i]]]
               ELSE order
    /\ UNCHANGED <<job, lens, k, heap, order>>

BalanceNext == Merge \/ Flatten \/ Deliver

-----------------------------------------------------------------------------
Longest  == Max({lens[i] : i \in Indices})
Shortest == Min({lens[i] : i \in Indices})

(* In every step each row is in exactly one set, and no State is further   *)
(* apart than the longest row (of equal sizes: than the longest and the    *)
(* shortest).  In the end no set is empty ("the i-th partition is empty"). *)
(* A micro-batch may outgrow max_token_len, against its documentation (see *)
(* MicroBatchesFit), but by less than one row.                             *)
BalancedPartition ==
    /\ \A r \in Indices : Cardinality({p \in heap \X (1..k) : r \in p[1][p[2]]}) = 1
    /\ \A s \in heap : Spread(s) <= IF job = "micro" THEN Longest ELSE Longest - Shortest
    /\ Cardinality(heap) = 1 =>
          \A i \in 1..k :
              /\ Final[i] # {}
              /\ job = "global" => Cardinality(Final[i]) * k = Rows
              /\ job = "micro" => Total(Final[i]) < MaxTokenLen + Longest

(* "max_token_len (int): max sum of attention_mask per micro-batch."  It is *)
(* not: as many micro-batches as their total asks for need not fit the rows.*)
MicroBatchesFit ==
    job = "micro" /\ Cardinality(heap) = 1 => \A i \in 1..k : Total(Final[i]) <= MaxTokenLen

(* The output of a micro-batch is returned for the row it was computed     *)
(* from; each rank is dealt one partition, in whose order it is            *)
(* irrelevant how the partitions were sorted.                              *)
RowsRestored ==
    rows # << >> =>
        IF job = "micro" THEN \A i \in Indices : rows[i] = i
        ELSE LET size == Rows \div k
             IN  \A d \in 1..k :
                    {rows[j] : j \in ((d - 1) * size + 1)..(d * size)} = Final[d]
=============================================================================
