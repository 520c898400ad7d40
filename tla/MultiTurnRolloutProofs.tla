------------------------ MODULE MultiTurnRolloutProofs ------------------------
(***************************************************************************)
(* For any ranks, samples, prompts, replies and limits: samples keep their *)
(* budgets, a rank generates at most MaxEnvCalls times, and the rows of    *)
(* the result are those of the prompts.  Responses, counters and replies   *)
(* belong together, and every step is a turn of one episode, played alone. *)
(***************************************************************************)
EXTENDS MultiTurnRollout, FiniteSetTheorems, TLAPS

(* The share of one sample in BudgetsHold.                                 *)
Budget(s) ==
    /\ s.n_model_tokens <= MaxModelTokens
    /\ s.n_env_calls <= MaxEnvCalls
    /\ s.response # << >> =>
          LET reply == IF Last(s.response).by = "env" THEN Last(s.response).n ELSE 0
          IN  s.ctx - reply <= MaxCtx

(* A least element of a set is its Min.                                    *)
LEMMA MinIs ==
    ASSUME NEW T \in SUBSET Int, NEW m \in T, \A n \in T : m <= n
    PROVE  Min(T) \in T /\ \A n \in T : Min(T) <= n
BY DEF Min

(* Every nonempty set of natural numbers has a Min.                        *)
LEMMA MinOfNat ==
    ASSUME NEW T \in SUBSET Nat, T # {}
    PROVE  Min(T) \in T /\ \A n \in T : Min(T) <= n
<1> DEFINE R == {pair \in Nat \X Nat : pair[1] < pair[2]}
<1>1. IsWellFoundedOn(R, Nat)
    BY NatLessThanWellFounded DEF OpToRel
<1> HIDE DEF R
<1>2. PICK m \in T : \A n \in T : ~ (<<n, m>> \in R)
    BY <1>1, WFMin
<1>3. \A n \in T : ~ (n < m)
    BY <1>2 DEF R
<1>4. \A n \in T : m <= n
    BY <1>3
<1> QED
    BY <1>4, MinIs

-----------------------------------------------------------------------------
(* Folds, from left to right.                                              *)

(* Induction, for a set of numbers.                                        *)
LEMMA Induction ==
    ASSUME NEW S, 0 \in S, \A n \in Nat : n \in S => n + 1 \in S
    PROVE  Nat \subseteq S
<1> DEFINE T == Nat \ S
<1>1. SUFFICES ASSUME T # {} PROVE FALSE
    OBVIOUS
<1>2. PICK m \in T : \A n \in T : m <= n
    BY <1>1, MinOfNat
<1>3. m - 1 \in Nat /\ (m - 1) + 1 = m /\ ~ (m <= m - 1)
    BY <1>2
<1>4. m - 1 \in S
    BY <1>2, <1>3
<1> QED
    BY <1>3, <1>4

(* The Max of a nonempty set of numbers up to n, which is n if n is in it. *)
LEMMA MaxOfRange ==
    ASSUME NEW n \in Nat, NEW T \in SUBSET (1..n), T # {}
    PROVE  /\ Max(T) \in T
           /\ \A m \in T : m <= Max(T)
           /\ n \in T => Max(T) = n
<1>1. \A m \in T : m \in Int /\ m <= n /\ n - m \in Nat
    OBVIOUS
<1> DEFINE U == {n - m : m \in T}
<1>2. U \in SUBSET Nat /\ U # {}
    BY <1>1
<1>3. PICK least \in U : \A u \in U : least <= u
    <2> HIDE DEF U
    <2> QED
        BY <1>2, MinOfNat
<1>4. PICK m \in T : least = n - m
    OBVIOUS
<1>5. ASSUME NEW k \in T
      PROVE  m >= k
    <2>1. least <= n - k
        BY <1>3
    <2> QED
        BY <1>1, <1>4, <2>1
<1>6. Max(T) \in T /\ \A k \in T : Max(T) >= k
    BY <1>5 DEF Max
<1>7. \A k \in T : k <= Max(T)
    BY <1>1, <1>6
<1>8. ASSUME n \in T
      PROVE  Max(T) = n
    <2>1. Max(T) \in Int /\ Max(T) <= n /\ Max(T) >= n
        BY <1>1, <1>6, <1>8
    <2> QED
        BY <2>1
<1> QED
    BY <1>6, <1>7, <1>8

(* g holds the folds of the subsets of 1..n: F takes what a set came to     *)
(* without its last element, and that element.                             *)
FoldsTo(g, base, F, n) ==
    \A T \in SUBSET (1..n) :
        g[T] = IF T = {} THEN base ELSE F[<<g[T \ {Max(T)}], Max(T)>>]

(* A fold is well defined.                                                 *)
LEMMA FoldExists ==
    ASSUME NEW n \in Nat, NEW Values, NEW base \in Values, NEW F \in [Values \X (1..n) -> Values]
    PROVE  \E g \in [SUBSET (1..n) -> Values] : FoldsTo(g, base, F, n)
<1> DEFINE Defined(k) == \E g \in [SUBSET (1..k) -> Values] : FoldsTo(g, base, F, k)
           S == {k \in Nat : k <= n => Defined(k)}
<1>1. Defined(0)
    <2> DEFINE g == [T \in SUBSET (1..0) |-> base]
    <2>1. 1..0 = {}
        OBVIOUS
    <2>2. g \in [SUBSET (1..0) -> Values]
        OBVIOUS
    <2>3. FoldsTo(g, base, F, 0)
        BY <2>1 DEF FoldsTo
    <2> HIDE DEF g
    <2> QED
        BY <2>2, <2>3
<1>2. ASSUME NEW k \in Nat, Defined(k), k + 1 <= n
      PROVE  Defined(k + 1)
    <2>1. PICK h \in [SUBSET (1..k) -> Values] : FoldsTo(h, base, F, k)
        BY <1>2
    <2> DEFINE g == [T \in SUBSET (1..(k + 1)) |->
                        IF k + 1 \in T THEN F[<<h[T \ {k + 1}], k + 1>>] ELSE h[T]]
    <2>2. \A T \in SUBSET (1..(k + 1)) : /\ T \ {k + 1} \in SUBSET (1..k)
                                         /\ k + 1 \notin T => T \in SUBSET (1..k)
        OBVIOUS
    <2>3. g \in [SUBSET (1..(k + 1)) -> Values]
        <3>1. k + 1 \in 1..n
            BY <1>2
        <3> SUFFICES ASSUME NEW T \in SUBSET (1..(k + 1))
                     PROVE  (IF k + 1 \in T THEN F[<<h[T \ {k + 1}], k + 1>>] ELSE h[T]) \in Values
            OBVIOUS
        <3> QED
            BY <2>2, <3>1
    <2>4. FoldsTo(g, base, F, k + 1)
        <3> SUFFICES ASSUME NEW T \in SUBSET (1..(k + 1)), T # {}
                     PROVE  g[T] = F[<<g[T \ {Max(T)}], Max(T)>>]
            <4>1. g[{}] = base
                BY <2>1 DEF FoldsTo
            <4> QED
                BY <4>1 DEF FoldsTo
        <3>1. CASE k + 1 \in T
            <4>1. Max(T) = k + 1
                BY <3>1, MaxOfRange
            <4>2. g[T \ {k + 1}] = h[T \ {k + 1}]
                BY <2>2
            <4> QED
                BY <3>1, <4>1, <4>2
        <3>2. CASE k + 1 \notin T
            <4>1. T \in SUBSET (1..k) /\ T \ {Max(T)} \in SUBSET (1..k) /\ k + 1 \notin T \ {Max(T)}
                BY <2>2, <3>2
            <4>2. g[T] = h[T] /\ g[T \ {Max(T)}] = h[T \ {Max(T)}]
                BY <3>2, <4>1
            <4> HIDE DEF g
            <4> QED
                BY <2>1, <4>1, <4>2 DEF FoldsTo
        <3> QED
            BY <3>1, <3>2
    <2> HIDE DEF g
    <2> QED
        BY <2>3, <2>4
<1> HIDE DEF Defined
<1>3. 0 \in S /\ \A k \in Nat : k \in S => k + 1 \in S
    BY <1>1, <1>2
<1>4. n \in S
    <2> HIDE DEF S
    <2> QED
        BY <1>3, Induction
<1>5. Defined(n)
    BY <1>4
<1> QED
    BY <1>5 DEF Defined

(* c holds what a fold has come to after 1, 2 and up to n elements.        *)
Runs(c, base, Values, F, n) ==
    /\ c[1..0] = base
    /\ \A k \in 1..n : c[1..(k - 1)] \in Values => c[1..k] = F[<<c[1..(k - 1)], k>>]

Stepping(base, Values, F, n) ==
    n \in Nat /\ base \in Values /\ F \in [Values \X (1..n) -> Values]

(* Two such runs come to the same.                                         *)
LEMMA RunsAgree ==
    ASSUME NEW n, NEW Values, NEW base, NEW F, Stepping(base, Values, F, n),
           NEW c, Runs(c, base, Values, F, n), NEW d, Runs(d, base, Values, F, n)
    PROVE  c[1..n] \in Values /\ c[1..n] = d[1..n]
<1> USE DEF Stepping
<1> DEFINE Same(k) == c[1..k] \in Values /\ c[1..k] = d[1..k]
           S == {k \in Nat : k <= n => Same(k)}
<1>1. Same(0)
    BY DEF Runs
<1>2. ASSUME NEW k \in Nat, Same(k), k + 1 <= n
      PROVE  Same(k + 1)
    <2>1. k + 1 \in 1..n /\ (k + 1) - 1 = k
        BY <1>2
    <2>2. /\ c[1..(k + 1)] = F[<<c[1..((k + 1) - 1)], k + 1>>]
          /\ d[1..(k + 1)] = F[<<d[1..((k + 1) - 1)], k + 1>>]
        BY <1>2, <2>1 DEF Runs
    <2> QED
        BY <1>2, <2>1, <2>2
<1> HIDE DEF Same
<1>3. 0 \in S /\ \A k \in Nat : k \in S => k + 1 \in S
    BY <1>1, <1>2
<1>4. n \in S
    <2> HIDE DEF S
    <2> QED
        BY <1>3, Induction
<1>5. Same(n)
    BY <1>4
<1> QED
    BY <1>5 DEF Same

(* The set that a fold of n elements has come to before its last one.      *)
LEMMA LastOfRange ==
    ASSUME NEW n \in Nat, NEW k \in 1..n
    PROVE  /\ 1..k \in SUBSET (1..n) /\ 1..k # {}
           /\ Max(1..k) = k /\ (1..k) \ {k} = 1..(k - 1)
<1>1. 1..k \in SUBSET (1..k) /\ 1..k # {} /\ k \in 1..k /\ k \in Nat
    OBVIOUS
<1>2. Max(1..k) = k
    BY <1>1, MaxOfRange
<1>3. 1..k \in SUBSET (1..n) /\ (1..k) \ {k} = 1..(k - 1)
    OBVIOUS
<1> QED
    BY <1>1, <1>2, <1>3

(* The step of the fold in Tokens, and the sequences it is well defined on. *)
Adding(seq) == [p \in Nat \X (1..Len(seq)) |-> p[1] + seq[p[2]].n]

Summable(seq) ==
    Len(seq) \in Nat /\ DOMAIN seq = 1..Len(seq) /\ \A k \in 1..Len(seq) : seq[k].n \in Nat

(* Tokens is such a run.                                                   *)
LEMMA TokensRun ==
    ASSUME NEW seq, Summable(seq)
    PROVE  \E c : /\ Tokens(seq) = c[1..Len(seq)]
                  /\ Runs(c, 0, Nat, Adding(seq), Len(seq))
<1> DEFINE n == Len(seq)
           F == Adding(seq)
           G(g) == g = [T \in SUBSET (1..n) |->
                           IF T = {} THEN 0 ELSE g[T \ {Max(T)}] + seq[Max(T)].n]
<1>1. n \in Nat /\ DOMAIN seq = 1..n /\ \A k \in 1..n : seq[k].n \in Nat
    BY DEF Summable
<1>2. Tokens(seq) = (CHOOSE g : g = [T \in SUBSET DOMAIN seq |->
                        IF T = {} THEN 0 ELSE g[T \ {Max(T)}] + seq[Max(T)].n])[DOMAIN seq]
    BY DEF Tokens, FoldLeft, MapThenFoldSet
<1>3. Tokens(seq) = (CHOOSE g : G(g))[1..n]
    BY <1>1, <1>2
<1>4. F \in [Nat \X (1..n) -> Nat] /\ \A a \in Nat, k \in 1..n : F[<<a, k>>] = a + seq[k].n
    BY <1>1 DEF Adding
<1> HIDE DEF F
<1>5. ASSUME NEW g \in [SUBSET (1..n) -> Nat], FoldsTo(g, 0, F, n)
      PROVE  G(g)
    <2>1. ASSUME NEW T \in SUBSET (1..n), T # {}
          PROVE  g[T] = g[T \ {Max(T)}] + seq[Max(T)].n
        <3>1. Max(T) \in 1..n /\ g[T \ {Max(T)}] \in Nat
            BY <1>1, <2>1, MaxOfRange
        <3>2. g[T] = F[<<g[T \ {Max(T)}], Max(T)>>]
            BY <1>5, <2>1 DEF FoldsTo
        <3> QED
            BY <1>4, <3>1, <3>2
    <2>2. g[{}] = 0
        BY <1>5 DEF FoldsTo
    <2> QED
        BY <2>1, <2>2
<1>6. \E g : G(g)
    <2> HIDE DEF G, n
    <2> QED
        BY <1>1, <1>4, <1>5, FoldExists
<1>7. PICK c : G(c) /\ Tokens(seq) = c[1..n]
    <2> HIDE DEF G, n
    <2> QED
        BY <1>3, <1>6
<1>8. ASSUME NEW k \in 1..n
      PROVE  c[1..k] = c[1..(k - 1)] + seq[k].n
    BY <1>1, <1>7, LastOfRange
<1>9. c[1..0] = 0
    <2>1. 1..0 = {} /\ {} \in SUBSET (1..n)
        OBVIOUS
    <2> QED
        BY <1>7, <2>1
<1>10. Runs(c, 0, Nat, F, n)
    BY <1>4, <1>8, <1>9 DEF Runs
<1> QED
    BY <1>7, <1>10 DEF F

(* The tokens of one more segment.                                         *)
LEMMA TokensAppend ==
    ASSUME NEW seq, Summable(seq), NEW more, Summable(more), Len(more) = Len(seq) + 1,
           \A k \in 1..Len(seq) : more[k].n = seq[k].n
    PROVE  Tokens(seq) \in Nat /\ Tokens(more) = Tokens(seq) + more[Len(more)].n
<1> DEFINE n == Len(seq)
<1>1. PICK c : Tokens(seq) = c[1..n] /\ Runs(c, 0, Nat, Adding(seq), n)
    BY TokensRun
<1>2. PICK d : Tokens(more) = d[1..(n + 1)] /\ Runs(d, 0, Nat, Adding(more), n + 1)
    BY TokensRun
<1>3. n \in Nat /\ n + 1 \in 1..(n + 1) /\ (n + 1) - 1 = n /\ more[n + 1].n \in Nat
    BY DEF Summable
<1>4. /\ Adding(seq) \in [Nat \X (1..n) -> Nat]
      /\ \A a \in Nat : Adding(more)[<<a, n + 1>>] = a + more[n + 1].n
      /\ \A a \in Nat, k \in 1..n : Adding(more)[<<a, k>>] = Adding(seq)[<<a, k>>]
    BY <1>3 DEF Adding, Summable
<1>5. Runs(d, 0, Nat, Adding(seq), n)
    <2>1. ASSUME NEW k \in 1..n, d[1..(k - 1)] \in Nat
          PROVE  d[1..k] = Adding(seq)[<<d[1..(k - 1)], k>>]
        <3>1. k \in 1..(n + 1)
            BY <1>3
        <3>2. d[1..k] = Adding(more)[<<d[1..(k - 1)], k>>]
            BY <1>2, <2>1, <3>1 DEF Runs
        <3> QED
            BY <1>4, <2>1, <3>2
    <2> QED
        BY <1>2, <2>1 DEF Runs
<1>6. c[1..n] \in Nat /\ c[1..n] = d[1..n]
    <2> DEFINE F == Adding(seq)
    <2>1. Stepping(0, Nat, F, n)
        BY <1>3, <1>4 DEF Stepping
    <2>2. Runs(c, 0, Nat, F, n) /\ Runs(d, 0, Nat, F, n)
        BY <1>1, <1>5
    <2> HIDE DEF F, n
    <2> QED
        BY <2>1, <2>2, RunsAgree
<1>7. d[1..(n + 1)] = Adding(more)[<<d[1..((n + 1) - 1)], n + 1>>]
    BY <1>2, <1>3, <1>6 DEF Runs
<1> QED
    BY <1>1, <1>2, <1>3, <1>4, <1>6, <1>7


(* The step of the fold in Only.                                           *)
Taking(seq, S, A) ==
    [p \in Seq(A) \X (1..Len(seq)) |->
        IF seq[p[2]] \in S THEN Append(p[1], seq[p[2]]) ELSE p[1]]

(* Only is such a run.                                                     *)
LEMMA OnlyRun ==
    ASSUME NEW A, NEW seq \in Seq(A), NEW S
    PROVE  \E c : /\ Only(seq, S) = c[1..Len(seq)]
                  /\ Runs(c, << >>, Seq(A), Taking(seq, S, A), Len(seq))
<1> DEFINE n == Len(seq)
           F == Taking(seq, S, A)
           G(g) == g = [T \in SUBSET (1..n) |->
                           IF T = {} THEN << >>
                           ELSE IF seq[Max(T)] \in S
                           THEN Append(g[T \ {Max(T)}], seq[Max(T)])
                           ELSE g[T \ {Max(T)}]]
<1>1. n \in Nat /\ DOMAIN seq = 1..n /\ \A k \in 1..n : seq[k] \in A
    OBVIOUS
<1>2. Only(seq, S) = (CHOOSE g : g = [T \in SUBSET DOMAIN seq |->
                           IF T = {} THEN << >>
                           ELSE IF seq[Max(T)] \in S
                           THEN Append(g[T \ {Max(T)}], seq[Max(T)])
                           ELSE g[T \ {Max(T)}]])[DOMAIN seq]
    BY DEF Only, FoldLeft, MapThenFoldSet
<1>3. Only(seq, S) = (CHOOSE g : G(g))[1..n]
    BY <1>1, <1>2
<1>4. /\ F \in [Seq(A) \X (1..n) -> Seq(A)]
      /\ \A a \in Seq(A), k \in 1..n :
            F[<<a, k>>] = IF seq[k] \in S THEN Append(a, seq[k]) ELSE a
    BY <1>1 DEF Taking
<1> HIDE DEF F
<1>5. ASSUME NEW g \in [SUBSET (1..n) -> Seq(A)], FoldsTo(g, << >>, F, n)
      PROVE  G(g)
    <2>1. ASSUME NEW T \in SUBSET (1..n), T # {}
          PROVE  g[T] = IF seq[Max(T)] \in S
                        THEN Append(g[T \ {Max(T)}], seq[Max(T)])
                        ELSE g[T \ {Max(T)}]
        <3>1. Max(T) \in 1..n /\ g[T \ {Max(T)}] \in Seq(A)
            BY <1>1, <2>1, MaxOfRange
        <3>2. g[T] = F[<<g[T \ {Max(T)}], Max(T)>>]
            BY <1>5, <2>1 DEF FoldsTo
        <3> QED
            BY <1>4, <3>1, <3>2
    <2>2. g[{}] = << >>
        BY <1>5 DEF FoldsTo
    <2> QED
        BY <2>1, <2>2
<1>6. \E g : G(g)
    <2>1. << >> \in Seq(A)
        OBVIOUS
    <2> HIDE DEF G, n
    <2> QED
        BY <1>1, <1>4, <1>5, <2>1, FoldExists
<1>7. PICK c : G(c) /\ Only(seq, S) = c[1..n]
    <2> HIDE DEF G, n
    <2> QED
        BY <1>3, <1>6
<1>8. ASSUME NEW k \in 1..n
      PROVE  c[1..k] = IF seq[k] \in S THEN Append(c[1..(k - 1)], seq[k]) ELSE c[1..(k - 1)]
    <2>1. 1..k \in SUBSET (1..n) /\ 1..k # {} /\ Max(1..k) = k /\ (1..k) \ {k} = 1..(k - 1)
        BY <1>1, LastOfRange
    <2>2. ASSUME NEW T \in SUBSET (1..n), T # {}
          PROVE  c[T] = IF seq[Max(T)] \in S
                        THEN Append(c[T \ {Max(T)}], seq[Max(T)])
                        ELSE c[T \ {Max(T)}]
        BY <1>7, <2>2
    <2> HIDE DEF n
    <2> QED
        BY <2>1, <2>2
<1>9. c[1..0] = << >>
    <2>1. 1..0 = {} /\ {} \in SUBSET (1..n)
        OBVIOUS
    <2> QED
        BY <1>7, <2>1
<1>10. Runs(c, << >>, Seq(A), F, n)
    BY <1>4, <1>8, <1>9 DEF Runs
<1> QED
    BY <1>7, <1>10 DEF F

(* One more element is taken, or not.                                      *)
LEMMA OnlyAppend ==
    ASSUME NEW A, NEW seq \in Seq(A), NEW x \in A, NEW S
    PROVE  /\ Only(seq, S) \in Seq(A)
           /\ Only(Append(seq, x), S) = IF x \in S THEN Append(Only(seq, S), x) ELSE Only(seq, S)
<1> DEFINE n == Len(seq)
           more == Append(seq, x)
<1>1. PICK c : Only(seq, S) = c[1..n] /\ Runs(c, << >>, Seq(A), Taking(seq, S, A), n)
    BY OnlyRun
<1>2. /\ n \in Nat /\ n + 1 \in 1..(n + 1) /\ (n + 1) - 1 = n
      /\ more \in Seq(A) /\ Len(more) = n + 1 /\ more[n + 1] = x
      /\ \A k \in 1..n : more[k] = seq[k] /\ seq[k] \in A
    OBVIOUS
<1> HIDE DEF more, n
<1>3. PICK d : Only(more, S) = d[1..(n + 1)] /\ Runs(d, << >>, Seq(A), Taking(more, S, A), n + 1)
    BY <1>2, OnlyRun
<1>4. /\ Taking(seq, S, A) \in [Seq(A) \X (1..n) -> Seq(A)]
      /\ \A a \in Seq(A) :
            Taking(more, S, A)[<<a, n + 1>>] = IF x \in S THEN Append(a, x) ELSE a
      /\ \A a \in Seq(A), k \in 1..n :
            Taking(more, S, A)[<<a, k>>] = Taking(seq, S, A)[<<a, k>>]
    BY <1>2 DEF Taking, n
<1>5. Runs(d, << >>, Seq(A), Taking(seq, S, A), n)
    <2>1. ASSUME NEW k \in 1..n, d[1..(k - 1)] \in Seq(A)
          PROVE  d[1..k] = Taking(seq, S, A)[<<d[1..(k - 1)], k>>]
        <3>1. k \in 1..(n + 1)
            BY <1>2
        <3>2. d[1..k] = Taking(more, S, A)[<<d[1..(k - 1)], k>>]
            BY <1>3, <2>1, <3>1 DEF Runs
        <3> QED
            BY <1>4, <2>1, <3>2
    <2> QED
        BY <1>3, <2>1 DEF Runs
<1>6. c[1..n] \in Seq(A) /\ c[1..n] = d[1..n]
    <2> DEFINE F == Taking(seq, S, A)
    <2>1. << >> \in Seq(A)
        OBVIOUS
    <2>2. Stepping(<< >>, Seq(A), F, n)
        BY <1>2, <1>4, <2>1 DEF Stepping
    <2>3. Runs(c, << >>, Seq(A), F, n) /\ Runs(d, << >>, Seq(A), F, n)
        BY <1>1, <1>5
    <2> HIDE DEF F
    <2> QED
        BY <2>2, <2>3, RunsAgree
<1>7. d[1..(n + 1)] = Taking(more, S, A)[<<d[1..((n + 1) - 1)], n + 1>>]
    BY <1>2, <1>3, <1>6 DEF Runs
<1> QED
    BY <1>1, <1>2, <1>3, <1>4, <1>6, <1>7 DEF more

(* The folds of the empty sequence.                                        *)
LEMMA FoldsOfEmpty == Tokens(<< >>) = 0 /\ \A S : Only(<< >>, S) = << >>
<1>1. Summable(<< >>) /\ << >> \in Seq({}) /\ Len(<< >>) = 0
    BY DEF Summable
<1>2. Tokens(<< >>) = 0
    <2>1. PICK c : Tokens(<< >>) = c[1..0] /\ Runs(c, 0, Nat, Adding(<< >>), 0)
        BY <1>1, TokensRun
    <2> QED
        BY <2>1 DEF Runs
<1>3. ASSUME NEW S PROVE Only(<< >>, S) = << >>
    <2>1. PICK c : Only(<< >>, S) = c[1..0] /\ Runs(c, << >>, Seq({}), Taking(<< >>, S, {}), 0)
        BY <1>1, OnlyRun
    <2> QED
        BY <2>1 DEF Runs
<1> QED
    BY <1>2, <1>3

-----------------------------------------------------------------------------
(* What one output does to a sample.                                       *)

(* Clipping leaves an output that fits, which ends in a call only if it    *)
(* was not cut.                                                            *)
LEMMA ClipFits ==
    ASSUME NEW limit \in Int, NEW out \in Outputs(limit), NEW remaining \in Nat
    PROVE  /\ Clip(out, remaining).n \in Nat
           /\ Clip(out, remaining).n <= remaining
           /\ Clip(out, remaining).n <= out.n
           /\ out.n = 0 \/ out.n <= limit
           /\ Clip(out, remaining).ending \in {"call", "none"}
BY DEF Clip, Outputs

(* A sample may be updated field by field.                                 *)
LEMMA Updated ==
    ASSUME NEW s \in SampleType, NEW ctx \in Nat, NEW response \in Seq(Segment), NEW n \in Nat
    PROVE  [s EXCEPT !.ctx = ctx, !.response = response, !.n_model_tokens = n] \in SampleType
BY DEF SampleType

(* Appended model tokens are charged to both budgets.                      *)
LEMMA AppendModelType ==
    ASSUME NEW s \in SampleType, NEW n \in Nat, NEW ending \in {"call", "none"}
    PROVE  LET t == AppendModel(s, n, ending) IN
           /\ t \in SampleType
           /\ t.id = s.id /\ t.n_env_calls = s.n_env_calls
           /\ t.n_model_tokens = s.n_model_tokens + n
           /\ t.ctx = s.ctx + n
           /\ t.response # << >> /\ Last(t.response).by = "model"
<1> DEFINE seg == [by |-> "model", n |-> n, ending |-> ending]
<1>1. seg \in Segment
    BY DEF Segment
<1>2. s.response \in Seq(Segment)
    BY DEF SampleType
<1> HIDE DEF seg
<1>3. /\ Append(s.response, seg) \in Seq(Segment)
      /\ Append(s.response, seg) # << >>
      /\ Last(Append(s.response, seg)) = seg
    BY <1>1, <1>2 DEF Last
<1>4. seg.by = "model"
    BY DEF seg
<1> DEFINE t == [s EXCEPT !.ctx = @ + n, !.response = Append(@, seg), !.n_model_tokens = @ + n]
<1>5. t = AppendModel(s, n, ending)
    BY DEF AppendModel, seg
<1>6. /\ t.id = s.id /\ t.n_env_calls = s.n_env_calls
      /\ t.n_model_tokens = s.n_model_tokens + n
      /\ t.ctx = s.ctx + n
      /\ t.response = Append(s.response, seg)
    BY DEF SampleType
<1>7. t \in SampleType
    <2>1. s.ctx + n \in Nat /\ s.n_model_tokens + n \in Nat
        BY DEF SampleType
    <2> QED
        BY <1>3, <2>1, Updated
<1> HIDE DEF t
<1> QED
    BY <1>3, <1>4, <1>5, <1>6, <1>7

(* A reply is charged to the context only.                                 *)
LEMMA AppendEnvType ==
    ASSUME NEW s \in SampleType, NEW n \in Nat
    PROVE  LET t == AppendEnv(s, n) IN
           /\ t \in SampleType
           /\ t.id = s.id /\ t.n_env_calls = s.n_env_calls
           /\ t.n_model_tokens = s.n_model_tokens
           /\ t.ctx = s.ctx + n
           /\ t.response # << >> /\ Last(t.response).by = "env" /\ Last(t.response).n = n
<1> DEFINE seg == [by |-> "env", n |-> n, ending |-> "none"]
<1>1. seg \in Segment /\ seg.by = "env" /\ seg.n = n
    BY DEF Segment
<1>2. s.response \in Seq(Segment)
    BY DEF SampleType
<1> DEFINE t == [s EXCEPT !.ctx = @ + n, !.response = Append(@, seg)]
<1>3. t = AppendEnv(s, n)
    BY DEF AppendEnv
<1> HIDE DEF seg
<1>4. /\ Append(s.response, seg) \in Seq(Segment)
      /\ Append(s.response, seg) # << >>
      /\ Last(Append(s.response, seg)) = seg
    BY <1>1, <1>2 DEF Last
<1>5. /\ t.id = s.id /\ t.n_env_calls = s.n_env_calls
      /\ t.n_model_tokens = s.n_model_tokens
      /\ t.ctx = s.ctx + n
      /\ t.response = Append(s.response, seg)
    BY DEF SampleType
<1>6. t = [s EXCEPT !.ctx = s.ctx + n, !.response = Append(s.response, seg),
                    !.n_model_tokens = s.n_model_tokens]
    BY DEF SampleType
<1> HIDE DEF t
<1>7. t \in SampleType
    <2>1. s.ctx + n \in Nat /\ s.n_model_tokens \in Nat
        BY DEF SampleType
    <2> QED
        BY <1>4, <1>6, <2>1, Updated
<1> QED
    BY <1>1, <1>3, <1>4, <1>5, <1>7

(* Finishing a sample changes nothing else.                                *)
LEMMA FinishType ==
    ASSUME NEW s \in SampleType
    PROVE  LET t == Finish(s) IN
           /\ t \in SampleType /\ t.finished
           /\ t.id = s.id /\ t.n_env_calls = s.n_env_calls
           /\ t.n_model_tokens = s.n_model_tokens
           /\ t.ctx = s.ctx /\ t.response = s.response
BY DEF Finish, SampleType

(* Taking a reply leaves the rest of the sample alone.                     *)
LEMMA NextReplyType ==
    ASSUME NEW s \in SampleType
    PROVE  LET t == NextReply(s)[2] IN
           /\ NextReply(s)[1] \in Reply
           /\ t \in SampleType
           /\ t.id = s.id /\ t.n_env_calls = s.n_env_calls
           /\ t.n_model_tokens = s.n_model_tokens
           /\ t.ctx = s.ctx /\ t.response = s.response
<1>1. CASE s.env_replies = << >>
    <2>1. NextReply(s)[1] = Blank /\ NextReply(s)[2] = s
        BY <1>1 DEF NextReply
    <2> QED
        BY <2>1 DEF Reply
<1>2. CASE s.env_replies # << >>
    <2>1. NextReply(s)[1] = Head(s.env_replies)
        BY <1>2 DEF NextReply
    <2>2. NextReply(s)[2] = [s EXCEPT !.env_replies = Tail(s.env_replies)]
        BY <1>2 DEF NextReply
    <2>3. s.env_replies \in Seq(Reply)
        BY DEF SampleType
    <2>4. Head(s.env_replies) \in Reply /\ Tail(s.env_replies) \in Seq(Reply)
        BY <1>2, <2>3
    <2>5. ASSUME NEW rest \in Seq(Reply)
          PROVE  LET t == [s EXCEPT !.env_replies = rest] IN
                 /\ t \in SampleType
                 /\ t.id = s.id /\ t.n_env_calls = s.n_env_calls
                 /\ t.n_model_tokens = s.n_model_tokens
                 /\ t.ctx = s.ctx /\ t.response = s.response
        BY DEF SampleType
    <2> QED
        BY <2>1, <2>2, <2>4, <2>5
<1> QED
    BY <1>1, <1>2

(* A call of the environment is counted; its reply may pass the context    *)
(* limit, but then is the last segment.                                    *)
LEMMA CallEnvType ==
    ASSUME NEW s \in SampleType, s.n_env_calls < MaxEnvCalls,
           s.n_model_tokens <= MaxModelTokens, s.ctx <= MaxCtx,
           s.response # << >>, Last(s.response).by = "model"
    PROVE  LET t == CallEnv(s) IN
           /\ t \in SampleType
           /\ t.id = s.id
           /\ t.n_env_calls = s.n_env_calls + 1
           /\ Budget(t)
<1> DEFINE called == [s EXCEPT !.n_env_calls = @ + 1]
           reply  == NextReply(called)[1]
           popped == NextReply(called)[2]
           used   == [popped EXCEPT !.env_replies_used = Append(@, reply)]
           spoken == AppendEnv(used, reply)
           heard  == IF reply = Blank THEN Finish(popped)
                     ELSE IF reply = 0 THEN used
                     ELSE spoken
           Alike(x, y) == /\ x \in SampleType
                          /\ x.id = y.id /\ x.n_env_calls = y.n_env_calls
                          /\ x.n_model_tokens = y.n_model_tokens
           Same(x, y) == Alike(x, y) /\ x.ctx = y.ctx /\ x.response = y.response
<1>1. CallEnv(s) = IF heard.n_env_calls >= MaxEnvCalls THEN Finish(heard) ELSE heard
    BY DEF CallEnv
<1>2. /\ called \in SampleType
      /\ called.id = s.id /\ called.n_env_calls = s.n_env_calls + 1
      /\ called.n_model_tokens = s.n_model_tokens
      /\ called.ctx = s.ctx /\ called.response = s.response
    BY DEF SampleType
<1>3. reply \in Reply /\ Same(popped, called)
    <2> HIDE DEF called
    <2> QED
        BY <1>2, NextReplyType
<1>4. Same(used, popped)
    <2> HIDE DEF called, reply, popped
    <2>1. popped.env_replies_used \in Seq(Reply)
        BY <1>3 DEF SampleType
    <2>2. Append(popped.env_replies_used, reply) \in Seq(Reply)
        BY <1>3, <2>1
    <2>3. ASSUME NEW replies \in Seq(Reply)
          PROVE  Same([popped EXCEPT !.env_replies_used = replies], popped)
        BY <1>3 DEF SampleType
    <2> QED
        BY <2>2, <2>3
<1> HIDE DEF called, reply, popped, used
<1>5. Same(Finish(popped), popped)
    BY <1>3, FinishType
<1>6. reply # Blank => /\ Alike(spoken, used) /\ spoken.response # << >>
                       /\ Last(spoken.response).by = "env"
                       /\ Last(spoken.response).n = reply
                       /\ spoken.ctx = used.ctx + reply
    BY <1>3, <1>4, AppendEnvType DEF Reply
<1> HIDE DEF spoken
<1>7. /\ Alike(heard, called)
      /\ \/ heard.ctx = s.ctx /\ heard.response = s.response
         \/ /\ heard.response # << >> /\ Last(heard.response).by = "env"
            /\ heard.ctx = s.ctx + Last(heard.response).n
            /\ Last(heard.response).n \in Nat
    <2>1. CASE reply = Blank
        BY <1>2, <1>3, <1>5, <2>1
    <2>2. CASE reply # Blank /\ reply = 0
        BY <1>2, <1>3, <1>4, <2>2
    <2>3. CASE reply # Blank /\ reply # 0
        BY <1>2, <1>3, <1>4, <1>6, <2>3 DEF Reply
    <2> QED
        BY <2>1, <2>2, <2>3
<1> HIDE DEF heard
<1>8. Same(CallEnv(s), heard)
    BY <1>1, <1>7, FinishType
<1>9. Budget(CallEnv(s))
    <2>1. s.n_env_calls \in Nat /\ s.ctx \in Nat
        BY DEF SampleType
    <2>2. /\ CallEnv(s).n_model_tokens <= MaxModelTokens
          /\ CallEnv(s).n_env_calls <= MaxEnvCalls
        BY <1>2, <1>7, <1>8, <2>1, SampleAssumption DEF SampleAssumption
    <2>3. LET reply_n == IF Last(heard.response).by = "env" THEN Last(heard.response).n ELSE 0
          IN  heard.ctx - reply_n <= MaxCtx
        BY <1>7, <2>1, SampleAssumption DEF SampleAssumption
    <2> QED
        BY <1>8, <2>2, <2>3 DEF Budget
<1> QED
    BY <1>2, <1>7, <1>8, <1>9

(* A turn of an active sample that was given no more tokens than its       *)
(* context allows: it keeps its budgets, and is finished or has called the *)
(* environment once more.                                                  *)
LEMMA TakeTurnType ==
    ASSUME NEW s \in SampleType, Active(s), Budget(s),
           NEW limit \in Int, limit <= MaxCtx - s.ctx,
           NEW out \in Outputs(limit)
    PROVE  LET t == TakeTurn(s, out) IN
           /\ t \in SampleType
           /\ t.id = s.id
           /\ Budget(t)
           /\ Active(t) => t.n_env_calls = s.n_env_calls + 1
<1> USE SampleAssumption DEF SampleAssumption
<1> DEFINE remaining == MaxModelTokens - s.n_model_tokens
           tokens == Clip(out, remaining)
           longer == AppendModel(s, tokens.n, tokens.ending)
<1>1. /\ s.n_model_tokens \in Nat /\ s.n_env_calls \in Nat /\ s.ctx \in Nat
      /\ s.n_model_tokens < MaxModelTokens /\ s.n_env_calls < MaxEnvCalls /\ s.ctx < MaxCtx
      /\ remaining \in Nat
    BY DEF SampleType, Active
<1>2. TakeTurn(s, out) = IF tokens.n = 0 THEN Finish(s)
                         ELSE IF tokens.ending = "call" THEN CallEnv(longer)
                         ELSE Finish(longer)
    BY DEF TakeTurn
<1> HIDE DEF remaining
<1>3. /\ tokens.n \in Nat /\ tokens.n <= remaining /\ tokens.ending \in {"call", "none"}
      /\ tokens.n = 0 \/ tokens.n <= limit
    <2>1. tokens.n \in Nat /\ tokens.n <= out.n /\ (out.n = 0 \/ out.n <= limit)
        BY <1>1, ClipFits
    <2>2. out.n \in Nat
        BY DEF Outputs
    <2> QED
        BY <1>1, <2>1, <2>2, ClipFits
<1> HIDE DEF tokens
<1>4. /\ longer \in SampleType
      /\ longer.id = s.id /\ longer.n_env_calls = s.n_env_calls
      /\ longer.n_model_tokens = s.n_model_tokens + tokens.n
      /\ longer.ctx = s.ctx + tokens.n
      /\ longer.response # << >> /\ Last(longer.response).by = "model"
    BY <1>3, AppendModelType
<1> HIDE DEF longer
<1>5. longer.n_model_tokens <= MaxModelTokens
    BY <1>1, <1>3, <1>4 DEF remaining
<1>6. CASE tokens.n = 0
    <2>1. TakeTurn(s, out) = Finish(s)
        BY <1>2, <1>6
    <2> QED
        BY <2>1, FinishType DEF Budget, Active
<1>7. CASE tokens.n # 0 /\ tokens.ending = "call"
    <2>1. longer.ctx <= MaxCtx
        BY <1>1, <1>3, <1>4, <1>7
    <2>2. TakeTurn(s, out) = CallEnv(longer)
        BY <1>2, <1>7
    <2> QED
        BY <1>1, <1>4, <1>5, <2>1, <2>2, CallEnvType
<1>8. CASE tokens.n # 0 /\ tokens.ending # "call"
    <2>1. longer.ctx <= MaxCtx
        BY <1>1, <1>3, <1>4, <1>8
    <2>2. TakeTurn(s, out) = Finish(longer)
        BY <1>2, <1>8
    <2>3. Budget(longer)
        <3>1. Last(longer.response).by # "env" /\ longer.n_env_calls <= MaxEnvCalls
            BY <1>1, <1>4
        <3>2. longer.ctx - 0 <= MaxCtx
            BY <1>1, <1>3, <1>4, <2>1
        <3> QED
            BY <1>5, <3>1, <3>2 DEF Budget
    <2> QED
        BY <1>4, <2>2, <2>3, FinishType DEF Budget, Active
<1> QED
    BY <1>6, <1>7, <1>8

-----------------------------------------------------------------------------
(* The response of a sample, its counters and its replies.                 *)

(* The share of one sample in ResponseIsConsistent, for a prompt of so     *)
(* many tokens and replies.                                                *)
Counted(s, len) ==
    /\ s.n_model_tokens = Tokens(SegmentsBy(s, "model"))
    /\ s.ctx = len + Tokens(s.response)

Spoken(segments) == [j \in DOMAIN segments |-> segments[j].n]

Heard(s) ==
    /\ Spoken(SegmentsBy(s, "env")) = Only(s.env_replies_used, Nat \ {0})
    /\ \A j \in DOMAIN s.response :
          s.response[j].by = "env" => j > 1 /\ s.response[j - 1].ending = "call"

(* The replies used are the first ones; the rest is left, unless the       *)
(* sample has ended.                                                       *)
Queued(s, queue) ==
    /\ s.env_replies_used \in Seq(Nat)
    /\ Len(s.env_replies_used) <= Len(queue)
    /\ \A i \in 1..Len(s.env_replies_used) : s.env_replies_used[i] = queue[i]
    /\ ~ s.finished =>
          /\ Len(queue) = Len(s.env_replies_used) + Len(s.env_replies)
          /\ \A i \in 1..Len(s.env_replies) :
                s.env_replies[i] = queue[Len(s.env_replies_used) + i]

Consistent(s, len, queue) ==
    Counted(s, len) /\ s.n_env_calls = Len(Calls(s)) /\ Heard(s) /\ Queued(s, queue)

(* The fields of a segment.                                                *)
LEMMA SegmentFields ==
    ASSUME NEW seg \in Segment
    PROVE  /\ seg.n \in Nat /\ seg.by \in {"model", "env"} /\ seg.ending \in {"call", "none"}
           /\ seg = [by |-> seg.by, n |-> seg.n, ending |-> seg.ending]
BY DEF Segment

(* One more segment, in the terms of the counters.                         *)
LEMMA OneMoreSegment ==
    ASSUME NEW s, s.response \in Seq(Segment), NEW seg \in Segment,
           NEW t, t.response = Append(s.response, seg)
    PROVE  /\ Tokens(s.response) \in Nat
           /\ Tokens(t.response) = Tokens(s.response) + seg.n
           /\ \A who \in {"model", "env"} :
                 /\ SegmentsBy(s, who) \in Seq(Segment)
                 /\ SegmentsBy(t, who) = IF seg.by = who THEN Append(SegmentsBy(s, who), seg)
                                         ELSE SegmentsBy(s, who)
                 /\ Tokens(SegmentsBy(s, who)) \in Nat
                 /\ Tokens(SegmentsBy(t, who)) = Tokens(SegmentsBy(s, who))
                                                    + (IF seg.by = who THEN seg.n ELSE 0)
           /\ Calls(s) \in Seq(Segment)
           /\ Len(Calls(t)) = Len(Calls(s)) + (IF seg.ending = "call" THEN 1 ELSE 0)
<1>1. ASSUME NEW seq \in Seq(Segment)
      PROVE  Tokens(seq) \in Nat /\ Tokens(Append(seq, seg)) = Tokens(seq) + seg.n
    <2> DEFINE more == Append(seq, seg)
    <2>1. /\ Len(more) = Len(seq) + 1 /\ more[Len(more)] = seg
          /\ \A k \in 1..Len(seq) : more[k].n = seq[k].n
        OBVIOUS
    <2>2. Summable(seq) /\ Summable(more)
        <3>1. ASSUME NEW any \in Seq(Segment)
              PROVE  Summable(any)
            <4>1. /\ Len(any) \in Nat /\ DOMAIN any = 1..Len(any)
                  /\ \A k \in 1..Len(any) : any[k] \in Segment
                OBVIOUS
            <4> QED
                BY <4>1, SegmentFields DEF Summable
        <3>2. more \in Seq(Segment)
            OBVIOUS
        <3> HIDE DEF more
        <3> QED
            BY <3>1, <3>2
    <2> HIDE DEF more
    <2>3. Tokens(seq) \in Nat /\ Tokens(more) = Tokens(seq) + more[Len(more)].n
        BY <2>1, <2>2, TokensAppend
    <2> QED
        BY <2>1, <2>3 DEF more
<1>2. seg.n \in Nat
    BY SegmentFields
<1>a. ASSUME NEW S
      PROVE  /\ Only(s.response, S) \in Seq(Segment)
             /\ Only(t.response, S) = IF seg \in S THEN Append(Only(s.response, S), seg)
                                      ELSE Only(s.response, S)
    <2> DEFINE seq == s.response
    <2>1. seq \in Seq(Segment) /\ t.response = Append(seq, seg)
        OBVIOUS
    <2> HIDE DEF seq
    <2>2. Only(seq, S) \in Seq(Segment)
        BY <2>1, OnlyAppend
    <2>3. Only(Append(seq, seg), S) = IF seg \in S THEN Append(Only(seq, S), seg)
                                      ELSE Only(seq, S)
        BY <2>1, OnlyAppend
    <2> QED
        BY <2>1, <2>2, <2>3 DEF seq
<1>3. ASSUME NEW who \in {"model", "env"}
      PROVE  /\ SegmentsBy(s, who) \in Seq(Segment)
             /\ SegmentsBy(t, who) = IF seg.by = who THEN Append(SegmentsBy(s, who), seg)
                                     ELSE SegmentsBy(s, who)
    <2> DEFINE S == [by : {who}, n : Nat, ending : Endings]
    <2>1. seg \in S <=> seg.by = who
        <3>1. seg.ending \in Endings
            BY SegmentFields DEF Endings
        <3>2. seg \in S => seg.by = who
            OBVIOUS
        <3>3. ASSUME seg.by = who
              PROVE  [by |-> seg.by, n |-> seg.n, ending |-> seg.ending] \in S
            BY <1>2, <3>1, <3>3
        <3> QED
            BY <3>2, <3>3, SegmentFields
    <2>2. SegmentsBy(s, who) = Only(s.response, S) /\ SegmentsBy(t, who) = Only(t.response, S)
        BY DEF SegmentsBy
    <2> HIDE DEF S
    <2> QED
        BY <1>a, <2>1, <2>2
<1>4. /\ Calls(s) \in Seq(Segment)
      /\ Calls(t) = IF seg.ending = "call" THEN Append(Calls(s), seg) ELSE Calls(s)
    <2> DEFINE S == [by : {"model", "env"}, n : Nat, ending : {"call"}]
    <2>1. seg \in S <=> seg.ending = "call"
        BY DEF Segment
    <2>2. Calls(s) = Only(s.response, S) /\ Calls(t) = Only(t.response, S)
        BY DEF Calls
    <2> HIDE DEF S
    <2> QED
        BY <1>a, <2>1, <2>2
<1>5. Len(Calls(t)) = Len(Calls(s)) + (IF seg.ending = "call" THEN 1 ELSE 0)
    BY <1>4
<1>6. ASSUME NEW who \in {"model", "env"}
      PROVE  /\ Tokens(SegmentsBy(s, who)) \in Nat
             /\ Tokens(SegmentsBy(t, who)) = Tokens(SegmentsBy(s, who))
                                                + (IF seg.by = who THEN seg.n ELSE 0)
    <2> DEFINE own == SegmentsBy(s, who)
    <2>1. own \in Seq(Segment)
        BY <1>3
    <2>2. SegmentsBy(t, who) = IF seg.by = who THEN Append(own, seg) ELSE own
        BY <1>3
    <2> HIDE DEF own
    <2>3. Tokens(own) \in Nat /\ Tokens(Append(own, seg)) = Tokens(own) + seg.n
        BY <1>1, <2>1
    <2> QED
        BY <1>2, <2>2, <2>3 DEF own
<1> QED
    BY <1>1, <1>3, <1>4, <1>5, <1>6

(* The tokens of one more segment, one by one.                             *)
LEMMA SpokenAppend ==
    ASSUME NEW segments \in Seq(Segment), NEW seg \in Segment
    PROVE  Spoken(Append(segments, seg)) = Append(Spoken(segments), seg.n)
<1> DEFINE n == Len(segments)
           more == Append(segments, seg)
<1>1. /\ n \in Nat /\ DOMAIN segments = 1..n /\ DOMAIN more = 1..(n + 1)
      /\ more[n + 1] = seg /\ \A k \in 1..n : more[k] = segments[k]
    OBVIOUS
<1>2. \A k \in 1..n : segments[k].n \in Nat
    <2>1. \A k \in 1..n : segments[k] \in Segment
        OBVIOUS
    <2> QED
        BY <2>1, SegmentFields
<1> HIDE DEF n, more
<1>3. Spoken(segments) \in Seq(Nat) /\ Len(Spoken(segments)) = n
    BY <1>1, <1>2 DEF Spoken
<1>4. seg.n \in Nat
    BY SegmentFields
<1>5. /\ Append(Spoken(segments), seg.n) \in Seq(Nat)
      /\ DOMAIN Append(Spoken(segments), seg.n) = 1..(n + 1)
      /\ Append(Spoken(segments), seg.n)[n + 1] = seg.n
      /\ \A k \in 1..n : Append(Spoken(segments), seg.n)[k] = Spoken(segments)[k]
    BY <1>3, <1>4
<1>6. ASSUME NEW k \in 1..(n + 1)
      PROVE  Spoken(more)[k] = Append(Spoken(segments), seg.n)[k]
    BY <1>1, <1>5 DEF Spoken
<1>7. DOMAIN Spoken(more) = 1..(n + 1) /\ Spoken(more) = [k \in 1..(n + 1) |-> Spoken(more)[k]]
    BY <1>1 DEF Spoken
<1>8. Append(Spoken(segments), seg.n) = [k \in 1..(n + 1) |-> Append(Spoken(segments), seg.n)[k]]
    <2>1. ASSUME NEW seq \in Seq(Nat), NEW m, DOMAIN seq = 1..m
          PROVE  seq = [k \in 1..m |-> seq[k]]
        <3>1. seq \in [1..Len(seq) -> Nat] /\ 1..m = 1..Len(seq)
            BY <2>1
        <3> QED
            BY <3>1
    <2> QED
        BY <1>5, <2>1
<1> QED
    BY <1>6, <1>7, <1>8 DEF more

(* What a call of the environment changes: a blank reply ends the sample;  *)
(* another one is used, and heard if it has tokens.                        *)
LEMMA CallEnvChanges ==
    ASSUME NEW s \in SampleType
    PROVE  LET t == CallEnv(s) IN
           /\ t.id = s.id /\ t.n_env_calls = s.n_env_calls + 1
           /\ t.n_model_tokens = s.n_model_tokens
           /\ \/ /\ t.finished
                 /\ t.ctx = s.ctx /\ t.response = s.response
                 /\ t.env_replies_used = s.env_replies_used
              \/ /\ ~ t.finished => ~ s.finished
                 /\ s.env_replies # << >> /\ Head(s.env_replies) \in Nat
                 /\ t.env_replies = Tail(s.env_replies)
                 /\ t.env_replies_used = Append(s.env_replies_used, Head(s.env_replies))
                 /\ \/ /\ Head(s.env_replies) = 0
                       /\ t.ctx = s.ctx /\ t.response = s.response
                    \/ /\ Head(s.env_replies) # 0
                       /\ t.ctx = s.ctx + Head(s.env_replies)
                       /\ t.response = Append(s.response, [by |-> "env", n |-> Head(s.env_replies),
                                                           ending |-> "none"])
<1> DEFINE called == [s EXCEPT !.n_env_calls = @ + 1]
           reply  == NextReply(called)[1]
           popped == NextReply(called)[2]
           used   == [popped EXCEPT !.env_replies_used = Append(@, reply)]
           spoken == AppendEnv(used, reply)
           heard  == IF reply = Blank THEN Finish(popped)
                     ELSE IF reply = 0 THEN used
                     ELSE spoken
           Kept(x) == x.id = s.id /\ x.n_env_calls = s.n_env_calls + 1
                      /\ x.n_model_tokens = s.n_model_tokens
           Silent(x) == x.ctx = s.ctx /\ x.response = s.response
<1>1. CallEnv(s) = IF heard.n_env_calls >= MaxEnvCalls THEN Finish(heard) ELSE heard
    BY DEF CallEnv
<1>2. /\ called \in SampleType /\ Kept(called) /\ Silent(called)
      /\ called.env_replies = s.env_replies /\ called.env_replies_used = s.env_replies_used
      /\ called.finished = s.finished
    <2>1. called \in SampleType
        <3>1. ASSUME NEW n \in Nat
              PROVE  [s EXCEPT !.n_env_calls = n] \in SampleType
            BY DEF SampleType
        <3>2. s.n_env_calls + 1 \in Nat
            BY DEF SampleType
        <3> QED
            BY <3>1, <3>2
    <2>2. Kept(called)
        BY DEF SampleType
    <2>4. Silent(called)
        BY DEF SampleType
    <2>3. /\ called.env_replies = s.env_replies /\ called.env_replies_used = s.env_replies_used
          /\ called.finished = s.finished
        BY DEF SampleType
    <2> QED
        BY <2>1, <2>2, <2>3, <2>4
<1>3. /\ popped \in SampleType /\ Kept(popped) /\ Silent(popped)
      /\ popped.env_replies_used = s.env_replies_used /\ popped.finished = s.finished
      /\ reply # Blank => /\ s.env_replies # << >> /\ reply = Head(s.env_replies)
                          /\ popped.env_replies = Tail(s.env_replies) /\ reply \in Nat
    <2> HIDE DEF called
    <2>1. popped \in SampleType /\ reply \in Reply /\ Kept(popped) /\ Silent(popped)
        BY <1>2, NextReplyType
    <2>2. \/ reply = Blank /\ popped = called
          \/ /\ s.env_replies # << >> /\ reply = Head(s.env_replies)
             /\ popped = [called EXCEPT !.env_replies = Tail(s.env_replies)]
        BY <1>2 DEF NextReply
    <2> HIDE DEF popped, reply
    <2>3. ASSUME popped = [called EXCEPT !.env_replies = Tail(s.env_replies)]
          PROVE  /\ popped.env_replies_used = called.env_replies_used
                 /\ popped.finished = called.finished
                 /\ popped.env_replies = Tail(s.env_replies)
        BY <1>2, <2>3 DEF SampleType
    <2> QED
        BY <1>2, <2>1, <2>2, <2>3 DEF Reply
<1> HIDE DEF called, popped, reply
<1>4. CASE reply = Blank
    <2>1. /\ heard = Finish(popped)
          /\ CallEnv(s) = Finish(heard) \/ CallEnv(s) = heard
        BY <1>1, <1>4
    <2>2. /\ heard.finished /\ heard \in SampleType /\ Kept(heard) /\ Silent(heard)
          /\ heard.env_replies_used = s.env_replies_used
        BY <1>3, <2>1 DEF Finish, SampleType
    <2> HIDE DEF heard
    <2>3. /\ CallEnv(s).finished /\ Kept(CallEnv(s)) /\ Silent(CallEnv(s))
          /\ CallEnv(s).env_replies_used = s.env_replies_used
        BY <2>1, <2>2 DEF Finish, SampleType
    <2> QED
        BY <2>3
<1>5. CASE reply # Blank
    <2>1. /\ used \in SampleType /\ Kept(used) /\ Silent(used)
          /\ used.env_replies_used = Append(s.env_replies_used, reply)
          /\ used.env_replies = Tail(s.env_replies) /\ used.finished = s.finished
        <3>1. popped.env_replies_used \in Seq(Reply) /\ reply \in Reply
            BY <1>3, <1>5 DEF SampleType, Reply
        <3>2. Append(s.env_replies_used, reply) \in Seq(Reply)
            BY <1>3, <3>1
        <3> QED
            BY <1>3, <1>5, <3>2 DEF SampleType
    <2> HIDE DEF used
    <2>2. CallEnv(s) = Finish(heard) \/ CallEnv(s) = heard
        BY <1>1
    <2>3. /\ Kept(heard) /\ heard.finished = s.finished
          /\ heard.env_replies_used = Append(s.env_replies_used, reply)
          /\ heard.env_replies = Tail(s.env_replies)
          /\ heard \in SampleType
          /\ \/ reply = 0 /\ Silent(heard)
             \/ /\ reply # 0 /\ heard.ctx = s.ctx + reply
                /\ heard.response = Append(s.response, [by |-> "env", n |-> reply, ending |-> "none"])
        <3>1. CASE reply = 0
            BY <1>5, <2>1, <3>1
        <3>2. CASE reply # 0
            <4>1. heard = AppendEnv(used, reply)
                BY <1>5, <3>2
            <4>2. AppendEnv(used, reply) \in SampleType
                BY <1>3, <1>5, <2>1, AppendEnvType
            <4>3. AppendEnv(used, reply) =
                      [used EXCEPT !.ctx = @ + reply,
                                   !.response = Append(@, [by |-> "env", n |-> reply, ending |-> "none"])]
                BY DEF AppendEnv
            <4> HIDE DEF heard
            <4>4. /\ Kept(heard) /\ heard.finished = used.finished
                  /\ heard.env_replies_used = used.env_replies_used
                  /\ heard.env_replies = used.env_replies
                  /\ heard.ctx = used.ctx + reply
                  /\ heard.response = Append(used.response, [by |-> "env", n |-> reply, ending |-> "none"])
                BY <2>1, <4>1, <4>3 DEF SampleType
            <4> QED
                BY <2>1, <3>2, <4>1, <4>2, <4>4
        <3> QED
            BY <3>1, <3>2
    <2> HIDE DEF heard
    <2>4. /\ Kept(CallEnv(s)) /\ (~ CallEnv(s).finished => ~ heard.finished)
          /\ CallEnv(s).ctx = heard.ctx /\ CallEnv(s).response = heard.response
          /\ CallEnv(s).env_replies = heard.env_replies
          /\ CallEnv(s).env_replies_used = heard.env_replies_used
        BY <2>2, <2>3 DEF Finish, SampleType
    <2> QED
        BY <1>3, <1>5, <2>3, <2>4
<1> QED
    BY <1>4, <1>5

(* What tokens of the model change.                                        *)
LEMMA AppendModelChanges ==
    ASSUME NEW s \in SampleType, NEW n \in Nat, NEW ending \in {"call", "none"}
    PROVE  LET t   == AppendModel(s, n, ending)
               seg == [by |-> "model", n |-> n, ending |-> ending]
           IN /\ seg \in Segment /\ t.response = Append(s.response, seg)
              /\ t.ctx = s.ctx + n /\ t.n_model_tokens = s.n_model_tokens + n
              /\ t.n_env_calls = s.n_env_calls /\ t.finished = s.finished
              /\ t.env_replies = s.env_replies /\ t.env_replies_used = s.env_replies_used
<1> DEFINE seg == [by |-> "model", n |-> n, ending |-> ending]
<1>1. seg \in Segment
    BY DEF Segment
<1>2. AppendModel(s, n, ending) = [s EXCEPT !.ctx = @ + n, !.response = Append(@, seg),
                                            !.n_model_tokens = @ + n]
    BY DEF AppendModel
<1> HIDE DEF seg
<1> DEFINE t == [s EXCEPT !.ctx = @ + n, !.response = Append(@, seg), !.n_model_tokens = @ + n]
<1>3. t.response = Append(s.response, seg) /\ t.ctx = s.ctx + n
    BY DEF SampleType
<1>4. t.n_model_tokens = s.n_model_tokens + n /\ t.n_env_calls = s.n_env_calls
    BY DEF SampleType
<1>5. /\ t.finished = s.finished /\ t.env_replies = s.env_replies
      /\ t.env_replies_used = s.env_replies_used
    BY DEF SampleType
<1> HIDE DEF t
<1>6. AppendModel(s, n, ending) = t
    BY <1>2 DEF t
<1> QED
    BY <1>1, <1>3, <1>4, <1>5, <1>6 DEF seg

(* The last segment of a longer response, and the ones before it.          *)
LEMMA LastSegment ==
    ASSUME NEW segments \in Seq(Segment), NEW seg \in Segment
    PROVE  LET more == Append(segments, seg) IN
           /\ more # << >> /\ Last(more) = seg /\ DOMAIN more = 1..(Len(segments) + 1)
           /\ more[Len(segments) + 1] = seg
           /\ \A j \in 1..Len(segments) : more[j] = segments[j]
           /\ DOMAIN segments = 1..Len(segments) /\ Len(segments) \in Nat
           /\ segments # << >> => Last(segments) = segments[Len(segments)] /\ Len(segments) > 0
BY DEF Last

(* Tokens of the model are counted, and hear nothing.                      *)
LEMMA AppendModelConsistent ==
    ASSUME NEW s \in SampleType, NEW n \in Nat, NEW ending \in {"call", "none"},
           NEW len \in Nat, NEW queue \in Seq(Reply), Consistent(s, len, queue)
    PROVE  LET t == AppendModel(s, n, ending) IN
           /\ Counted(t, len) /\ Heard(t) /\ Queued(t, queue)
           /\ Len(Calls(t)) = t.n_env_calls + (IF ending = "call" THEN 1 ELSE 0)
           /\ t.response # << >> /\ Last(t.response).ending = ending
           /\ t.finished = s.finished
<1> DEFINE t   == AppendModel(s, n, ending)
           seg == [by |-> "model", n |-> n, ending |-> ending]
<1>1. /\ seg \in Segment /\ t.response = Append(s.response, seg)
      /\ t.ctx = s.ctx + n /\ t.n_model_tokens = s.n_model_tokens + n
      /\ t.n_env_calls = s.n_env_calls /\ t.finished = s.finished
      /\ t.env_replies = s.env_replies /\ t.env_replies_used = s.env_replies_used
    BY AppendModelChanges
<1>2. seg.by = "model" /\ seg.n = n /\ seg.ending = ending
    OBVIOUS
<1> HIDE DEF t, seg
<1>3. s.response \in Seq(Segment)
    BY DEF SampleType
<1>4. /\ Tokens(s.response) \in Nat /\ Tokens(t.response) = Tokens(s.response) + n
      /\ Tokens(SegmentsBy(s, "model")) \in Nat
      /\ Tokens(SegmentsBy(t, "model")) = Tokens(SegmentsBy(s, "model")) + n
      /\ SegmentsBy(t, "env") = SegmentsBy(s, "env")
      /\ Len(Calls(t)) = Len(Calls(s)) + (IF ending = "call" THEN 1 ELSE 0)
    BY <1>1, <1>2, <1>3, OneMoreSegment
<1>5. Counted(t, len)
    BY <1>1, <1>4 DEF Counted, Consistent
<1>6. Queued(t, queue)
    BY <1>1 DEF Queued, Consistent
<1>7. /\ t.response # << >> /\ Last(t.response) = seg
      /\ DOMAIN t.response = 1..(Len(s.response) + 1)
      /\ t.response[Len(s.response) + 1] = seg
      /\ \A j \in 1..Len(s.response) : t.response[j] = s.response[j]
      /\ DOMAIN s.response = 1..Len(s.response) /\ Len(s.response) \in Nat
    BY <1>1, <1>3, LastSegment
<1>8. Heard(t)
    <2>1. Spoken(SegmentsBy(t, "env")) = Only(t.env_replies_used, Nat \ {0})
        BY <1>1, <1>4 DEF Heard, Consistent
    <2>2. ASSUME NEW j \in DOMAIN t.response, t.response[j].by = "env"
          PROVE  j > 1 /\ t.response[j - 1].ending = "call"
        <3>1. j \in 1..Len(s.response)
            BY <1>2, <1>7, <2>2
        <3>2. j > 1 /\ s.response[j - 1].ending = "call"
            BY <1>7, <2>2, <3>1 DEF Heard, Consistent
        <3>3. j - 1 \in 1..Len(s.response)
            BY <1>7, <3>1, <3>2
        <3> QED
            BY <1>7, <3>2, <3>3
    <2> QED
        BY <2>1, <2>2 DEF Heard
<1> QED
    BY <1>1, <1>2, <1>4, <1>5, <1>6, <1>7, <1>8 DEF Consistent, t

(* A reply that is taken from the queue is the next one of the prompt.     *)
LEMMA ReplyIsNext ==
    ASSUME NEW s \in SampleType, NEW queue \in Seq(Reply), Queued(s, queue), ~ s.finished,
           s.env_replies # << >>, Head(s.env_replies) \in Nat,
           NEW t, t.env_replies = Tail(s.env_replies),
           t.env_replies_used = Append(s.env_replies_used, Head(s.env_replies))
    PROVE  Queued(t, queue)
<1> DEFINE used == s.env_replies_used
           left == s.env_replies
           head == Head(left)
<1>1. left \in Seq(Reply) /\ used \in Seq(Nat)
    BY DEF SampleType, Queued
<1>2. /\ Len(queue) = Len(used) + Len(left)
      /\ \A i \in 1..Len(used) : used[i] = queue[i]
      /\ \A i \in 1..Len(left) : left[i] = queue[Len(used) + i]
    BY DEF Queued
<1> HIDE DEF used, left
<1>3. /\ Len(left) \in Nat /\ Len(left) > 0 /\ head = left[1] /\ head \in Nat
      /\ Len(Tail(left)) = Len(left) - 1
      /\ \A i \in 1..Len(Tail(left)) : Tail(left)[i] = left[i + 1]
    BY <1>1 DEF left
<1>4. /\ Append(used, head) \in Seq(Nat) /\ Len(Append(used, head)) = Len(used) + 1
      /\ Append(used, head)[Len(used) + 1] = head
      /\ \A i \in 1..Len(used) : Append(used, head)[i] = used[i]
      /\ Len(used) \in Nat
    BY <1>1, <1>3
<1>5. t.env_replies = Tail(left) /\ t.env_replies_used = Append(used, head)
    BY DEF used, left
<1> DEFINE now == Append(used, head)
           rest == Tail(left)
<1> HIDE DEF head
<1>6. ASSUME NEW i \in 1..Len(now)
      PROVE  now[i] = queue[i]
    <2>1. CASE i = Len(used) + 1
        BY <1>2, <1>3, <1>4, <2>1
    <2>2. CASE i # Len(used) + 1
        <3>1. i \in 1..Len(used)
            BY <1>4, <2>2
        <3> QED
            BY <1>2, <1>4, <3>1
    <2> QED
        BY <2>1, <2>2
<1>7. ASSUME NEW i \in 1..Len(rest)
      PROVE  rest[i] = queue[Len(now) + i]
    <2>1. i + 1 \in 1..Len(left) /\ Len(used) + (i + 1) = Len(now) + i
        BY <1>3, <1>4
    <2> QED
        BY <1>2, <1>3, <2>1
<1>8. now \in Seq(Nat) /\ Len(now) <= Len(queue) /\ Len(queue) = Len(now) + Len(rest)
    <2>1. now \in Seq(Nat) /\ Len(now) = Len(used) + 1 /\ Len(rest) = Len(left) - 1
        BY <1>3, <1>4
    <2> HIDE DEF now, rest
    <2>2. Len(queue) = Len(used) + Len(left) /\ Len(used) \in Nat /\ Len(left) \in Nat /\ Len(left) > 0
        BY <1>2, <1>3, <1>4
    <2> QED
        BY <2>1, <2>2
<1> HIDE DEF now, rest
<1>9. t.env_replies = rest /\ t.env_replies_used = now
    BY <1>5 DEF now, rest
<1> QED
    BY <1>6, <1>7, <1>8, <1>9 DEF Queued

(* A call of the environment that the last segment made.                   *)
LEMMA CallEnvConsistent ==
    ASSUME NEW s \in SampleType, ~ s.finished,
           NEW len \in Nat, NEW queue \in Seq(Reply),
           Counted(s, len), Heard(s), Queued(s, queue),
           Len(Calls(s)) = s.n_env_calls + 1,
           s.response # << >>, Last(s.response).ending = "call"
    PROVE  Consistent(CallEnv(s), len, queue)
<1> DEFINE t == CallEnv(s)
           reply == Head(s.env_replies)
           seg == [by |-> "env", n |-> reply, ending |-> "none"]
           Blanked == /\ t.finished
                      /\ t.ctx = s.ctx /\ t.response = s.response
                      /\ t.env_replies_used = s.env_replies_used
           Taken == /\ ~ t.finished => ~ s.finished
                    /\ s.env_replies # << >> /\ reply \in Nat
                    /\ t.env_replies = Tail(s.env_replies)
                    /\ t.env_replies_used = Append(s.env_replies_used, reply)
           Silent == reply = 0 /\ t.ctx = s.ctx /\ t.response = s.response
           Loud == /\ reply # 0 /\ t.ctx = s.ctx + reply
                   /\ t.response = Append(s.response, seg)
<1>1. /\ t.n_env_calls = s.n_env_calls + 1 /\ t.n_model_tokens = s.n_model_tokens
      /\ Blanked \/ (Taken /\ (Silent \/ Loud))
    BY CallEnvChanges
<1>2. ASSUME t.response = s.response
      PROVE  /\ SegmentsBy(t, "env") = SegmentsBy(s, "env") /\ Calls(t) = Calls(s)
             /\ SegmentsBy(t, "model") = SegmentsBy(s, "model")
             /\ Tokens(t.response) = Tokens(s.response)
    BY <1>2 DEF SegmentsBy, Calls
<1>3. s.response \in Seq(Segment) /\ s.env_replies_used \in Seq(Nat)
    BY DEF SampleType, Queued
<1> HIDE DEF t, reply
<1>4. CASE Blanked
    <2>1. Counted(t, len) /\ t.n_env_calls = Len(Calls(t))
        BY <1>1, <1>2, <1>4 DEF Counted
    <2>2. Heard(t)
        BY <1>2, <1>4 DEF Heard
    <2>3. Queued(t, queue)
        BY <1>4 DEF Queued
    <2> QED
        BY <2>1, <2>2, <2>3 DEF Consistent, t
<1>5. ASSUME Taken
      PROVE  /\ Queued(t, queue)
             /\ reply = 0 => Only(t.env_replies_used, Nat \ {0}) = Only(s.env_replies_used, Nat \ {0})
             /\ reply # 0 => Only(t.env_replies_used, Nat \ {0})
                                = Append(Only(s.env_replies_used, Nat \ {0}), reply)
    <2>1. Queued(t, queue)
        BY <1>5, ReplyIsNext DEF reply
    <2>2. Only(t.env_replies_used, Nat \ {0})
             = IF reply \in Nat \ {0} THEN Append(Only(s.env_replies_used, Nat \ {0}), reply)
               ELSE Only(s.env_replies_used, Nat \ {0})
        <3> DEFINE used == s.env_replies_used
                   A == Nat
                   S == Nat \ {0}
        <3>1. used \in Seq(A) /\ reply \in A /\ t.env_replies_used = Append(used, reply)
            BY <1>3, <1>5
        <3> HIDE DEF used, A, S
        <3>2. Only(Append(used, reply), S) = IF reply \in S THEN Append(Only(used, S), reply)
                                             ELSE Only(used, S)
            BY <3>1, OnlyAppend
        <3> QED
            BY <3>1, <3>2 DEF used, S
    <2> QED
        BY <1>5, <2>1, <2>2
<1>6. CASE Taken /\ Silent
    <2>1. Counted(t, len) /\ t.n_env_calls = Len(Calls(t))
        BY <1>1, <1>2, <1>6 DEF Counted
    <2>2. Heard(t)
        BY <1>2, <1>5, <1>6 DEF Heard
    <2> QED
        BY <1>5, <1>6, <2>1, <2>2 DEF Consistent, t
<1>7. CASE Taken /\ Loud
    <2>1. seg \in Segment /\ seg.by = "env" /\ seg.n = reply /\ seg.ending = "none"
        BY <1>7 DEF Segment
    <2>2. t.response = Append(s.response, seg)
        BY <1>7
    <2> HIDE DEF seg
    <2>3. /\ Tokens(s.response) \in Nat /\ Tokens(t.response) = Tokens(s.response) + reply
          /\ Tokens(SegmentsBy(s, "model")) \in Nat
          /\ Tokens(SegmentsBy(t, "model")) = Tokens(SegmentsBy(s, "model"))
          /\ SegmentsBy(s, "env") \in Seq(Segment)
          /\ SegmentsBy(t, "env") = Append(SegmentsBy(s, "env"), seg)
          /\ Len(Calls(t)) = Len(Calls(s))
        <3>1. /\ Tokens(s.response) \in Nat /\ Tokens(t.response) = Tokens(s.response) + seg.n
              /\ \A who \in {"model", "env"} :
                    /\ SegmentsBy(s, who) \in Seq(Segment)
                    /\ SegmentsBy(t, who) = IF seg.by = who THEN Append(SegmentsBy(s, who), seg)
                                            ELSE SegmentsBy(s, who)
                    /\ Tokens(SegmentsBy(s, who)) \in Nat
              /\ Calls(s) \in Seq(Segment)
              /\ Len(Calls(t)) = Len(Calls(s)) + (IF seg.ending = "call" THEN 1 ELSE 0)
            BY <1>3, <2>1, <2>2, OneMoreSegment
        <3>2. Len(Calls(s)) \in Nat
            BY <3>1
        <3> QED
            BY <2>1, <3>1, <3>2
    <2>4. Counted(t, len) /\ t.n_env_calls = Len(Calls(t))
        <3>1. t.ctx = s.ctx + reply /\ reply \in Nat
            BY <1>7
        <3> QED
            BY <1>1, <2>3, <3>1 DEF Counted
    <2>5. Heard(t)
        <3>1. Spoken(SegmentsBy(t, "env")) = Append(Spoken(SegmentsBy(s, "env")), reply)
            BY <2>1, <2>3, SpokenAppend
        <3>2. Spoken(SegmentsBy(t, "env")) = Only(t.env_replies_used, Nat \ {0})
            BY <1>5, <1>7, <3>1 DEF Heard
        <3>3. /\ DOMAIN t.response = 1..(Len(s.response) + 1)
              /\ t.response[Len(s.response) + 1] = seg
              /\ \A j \in 1..Len(s.response) : t.response[j] = s.response[j]
              /\ DOMAIN s.response = 1..Len(s.response) /\ Len(s.response) \in Nat
              /\ Last(s.response) = s.response[Len(s.response)] /\ Len(s.response) > 0
            BY <1>3, <2>1, <2>2, LastSegment
        <3>4. ASSUME NEW j \in DOMAIN t.response, t.response[j].by = "env"
              PROVE  j > 1 /\ t.response[j - 1].ending = "call"
            <4>1. CASE j = Len(s.response) + 1
                <5>1. j - 1 = Len(s.response) /\ j - 1 \in 1..Len(s.response) /\ j > 1
                    BY <3>3, <4>1
                <5> QED
                    BY <3>3, <5>1
            <4>2. CASE j # Len(s.response) + 1
                <5>1. j \in 1..Len(s.response)
                    BY <3>3, <4>2
                <5>2. j > 1 /\ s.response[j - 1].ending = "call"
                    BY <3>3, <3>4, <5>1 DEF Heard
                <5>3. j - 1 \in 1..Len(s.response)
                    BY <3>3, <5>1, <5>2
                <5> QED
                    BY <3>3, <5>2, <5>3
            <4> QED
                BY <4>1, <4>2
        <3> QED
            BY <3>2, <3>4 DEF Heard
    <2> QED
        BY <1>5, <1>7, <2>4, <2>5 DEF Consistent, t
<1> QED
    BY <1>1, <1>4, <1>6, <1>7

(* A turn keeps the response, the counters and the replies together.       *)
LEMMA TakeTurnConsistent ==
    ASSUME NEW s \in SampleType, Active(s), NEW limit \in Int, NEW out \in Outputs(limit),
           NEW len \in Nat, NEW queue \in Seq(Reply), Consistent(s, len, queue)
    PROVE  Consistent(TakeTurn(s, out), len, queue)
<1> USE SampleAssumption DEF SampleAssumption
<1> DEFINE remaining == MaxModelTokens - s.n_model_tokens
           tokens == Clip(out, remaining)
           longer == AppendModel(s, tokens.n, tokens.ending)
<1>1. remaining \in Nat /\ ~ s.finished
    BY DEF SampleType, Active
<1>2. TakeTurn(s, out) = IF tokens.n = 0 THEN Finish(s)
                         ELSE IF tokens.ending = "call" THEN CallEnv(longer)
                         ELSE Finish(longer)
    BY DEF TakeTurn
<1> HIDE DEF remaining
<1>3. tokens.n \in Nat /\ tokens.ending \in {"call", "none"}
    BY <1>1, ClipFits
<1> HIDE DEF tokens
<1>4. /\ longer \in SampleType
      /\ Counted(longer, len) /\ Heard(longer) /\ Queued(longer, queue)
      /\ Len(Calls(longer)) = longer.n_env_calls + (IF tokens.ending = "call" THEN 1 ELSE 0)
      /\ longer.response # << >> /\ Last(longer.response).ending = tokens.ending
      /\ longer.finished = s.finished
    <2>1. longer \in SampleType
        BY <1>3, AppendModelType
    <2> QED
        BY <1>3, <2>1, AppendModelConsistent
<1> HIDE DEF longer
<1>5. ASSUME NEW x \in SampleType, Consistent(x, len, queue)
      PROVE  Consistent(Finish(x), len, queue)
    <2>1. /\ Finish(x).response = x.response /\ Finish(x).n_model_tokens = x.n_model_tokens
          /\ Finish(x).ctx = x.ctx /\ Finish(x).n_env_calls = x.n_env_calls
          /\ Finish(x).finished
        BY FinishType
    <2>2. Finish(x).env_replies_used = x.env_replies_used
        BY DEF Finish, SampleType
    <2> QED
        BY <1>5, <2>1, <2>2 DEF Consistent, Counted, Heard, Queued, SegmentsBy, Calls
<1>6. CASE tokens.n = 0
    BY <1>2, <1>5, <1>6
<1>7. CASE tokens.n # 0 /\ tokens.ending = "call"
    <2>1. Len(Calls(longer)) = longer.n_env_calls + 1
        BY <1>4, <1>7
    <2> QED
        BY <1>1, <1>2, <1>4, <1>7, <2>1, CallEnvConsistent
<1>8. CASE tokens.n # 0 /\ tokens.ending # "call"
    <2>1. longer.n_env_calls \in Nat
        BY <1>4 DEF SampleType
    <2>2. Consistent(longer, len, queue)
        BY <1>4, <1>8, <2>1 DEF Consistent
    <2> QED
        BY <1>2, <1>4, <1>5, <1>8, <2>2
<1> QED
    BY <1>6, <1>7, <1>8

-----------------------------------------------------------------------------
(* The stable sort.                                                        *)

PromptsTyped == prompts \in [Ranks -> [Places -> [len : PromptLens, queue : Queues]]]

QueueLen(r, i) == Len(prompts[r][i].queue)

Before(r, j, i) ==
    QueueLen(r, j) > QueueLen(r, i) \/ (QueueLen(r, j) = QueueLen(r, i) /\ j < i)

Earlier(r, i) == {j \in Places : Before(r, j, i)}

(* The places are a finite set of numbers.                                 *)
LEMMA PlacesFinite == Places \subseteq Nat /\ IsFiniteSet(Places) /\ Cardinality(Places) = Size
<1>1. Size \in Nat /\ 1 \in Int /\ Size \in Int /\ ~ (1 > Size)
    BY RolloutAssumption DEF RolloutAssumption
<1>2. IsFiniteSet(1..Size) /\ Cardinality(1..Size) = Size - 1 + 1
    BY <1>1, FS_Interval
<1> QED
    BY <1>1, <1>2 DEF Places

(* The place of a prompt is one of the places, and none is taken twice.    *)
LEMMA PlaceOfIsInjective ==
    ASSUME PromptsTyped, NEW r \in Ranks
    PROVE  /\ \A i \in Places : PlaceOf(r, i) \in Places
           /\ \A i, j \in Places : i # j => PlaceOf(r, i) # PlaceOf(r, j)
<1>1. \A i \in Places : QueueLen(r, i) \in Nat
    <2> TAKE i \in Places
    <2>1. prompts[r][i].queue \in Seq(Nat \cup {Blank})
        BY RolloutAssumption DEF PromptsTyped, RolloutAssumption
    <2> QED
        BY <2>1 DEF QueueLen
<1>2. \A i \in Places : PlaceOf(r, i) = 1 + Cardinality(Earlier(r, i))
    BY DEF PlaceOf, Earlier, Before, QueueLen
<1>3. \A i \in Places : /\ Earlier(r, i) \subseteq Places
                        /\ i \notin Earlier(r, i)
    BY <1>1, PlacesFinite DEF Earlier, Before
<1>4. \A i \in Places : /\ IsFiniteSet(Earlier(r, i))
                        /\ Cardinality(Earlier(r, i)) \in Nat
                        /\ IsFiniteSet(Earlier(r, i) \cup {i})
                        /\ Cardinality(Earlier(r, i) \cup {i}) = Cardinality(Earlier(r, i)) + 1
    <2> TAKE i \in Places
    <2>1. IsFiniteSet(Earlier(r, i))
        BY <1>3, PlacesFinite, FS_Subset
    <2> QED
        BY <1>3, <2>1, FS_CardinalityType, FS_AddElement
<1>5. ASSUME NEW i \in Places
      PROVE  PlaceOf(r, i) \in Places
    <2>1. Earlier(r, i) \cup {i} \in SUBSET Places
        BY <1>3
    <2>2. Cardinality(Earlier(r, i) \cup {i}) <= Cardinality(Places)
        BY <2>1, PlacesFinite, FS_Subset
    <2>3. Cardinality(Earlier(r, i)) + 1 <= Size
        BY <1>4, <2>2, PlacesFinite
    <2> DEFINE c == Cardinality(Earlier(r, i))
    <2>4. PlaceOf(r, i) = 1 + c /\ c \in Nat /\ c + 1 <= Size /\ Size \in Nat
        BY <1>2, <1>4, <2>3, RolloutAssumption DEF RolloutAssumption
    <2> HIDE DEF c
    <2> QED
        BY <2>4 DEF Places
<1>6. ASSUME NEW i \in Places, NEW j \in Places, Before(r, i, j)
      PROVE  PlaceOf(r, i) < PlaceOf(r, j)
    <2>a. ASSUME NEW h \in Places, Before(r, h, i)
          PROVE  Before(r, h, j)
        BY <1>1, <1>6, <2>a, PlacesFinite DEF Before
    <2>1. Earlier(r, i) \cup {i} \in SUBSET Earlier(r, j)
        BY <1>6, <2>a DEF Earlier
    <2>2. Cardinality(Earlier(r, i) \cup {i}) <= Cardinality(Earlier(r, j))
        BY <1>4, <2>1, FS_Subset
    <2>3. Cardinality(Earlier(r, i)) + 1 <= Cardinality(Earlier(r, j))
        BY <1>4, <2>2
    <2> DEFINE c == Cardinality(Earlier(r, i))
               d == Cardinality(Earlier(r, j))
    <2>4. PlaceOf(r, i) = 1 + c /\ PlaceOf(r, j) = 1 + d /\ c \in Nat /\ d \in Nat /\ c + 1 <= d
        BY <1>2, <1>4, <2>3
    <2> HIDE DEF c, d
    <2> QED
        BY <2>4
<1>7. ASSUME NEW i \in Places, NEW j \in Places, i # j
      PROVE  PlaceOf(r, i) # PlaceOf(r, j)
    <2>1. Before(r, i, j) \/ Before(r, j, i)
        BY <1>1, <1>7, PlacesFinite DEF Before
    <2>2. PlaceOf(r, i) \in Nat /\ PlaceOf(r, j) \in Nat
        BY <1>5, PlacesFinite
    <2> QED
        BY <1>6, <2>1, <2>2
<1> QED
    BY <1>5, <1>7

(* sort_order lists each prompt once, so the rows can be put back.         *)
LEMMA SortOrderIsPermutation ==
    ASSUME PromptsTyped, NEW r \in Ranks
    PROVE  /\ \A k \in Places : SortOrder(r)[k] \in Places /\ PlaceOf(r, SortOrder(r)[k]) = k
           /\ \A i \in Places : SortOrder(r)[PlaceOf(r, i)] = i
           /\ \A i \in Places : \E k \in Places : SortOrder(r)[k] = i
<1> DEFINE f == [i \in Places |-> PlaceOf(r, i)]
<1>1. f \in Injection(Places, Places)
    BY PlaceOfIsInjective DEF Injection, IsInjective
<1>2. f \in Surjection(Places, Places)
    <2> HIDE DEF f
    <2> QED
        BY <1>1, PlacesFinite, FS_Injection
<1>3. \A k \in Places : \E i \in Places : PlaceOf(r, i) = k
    BY <1>2 DEF Surjection
<1>4. ASSUME NEW k \in Places
      PROVE  SortOrder(r)[k] \in Places /\ PlaceOf(r, SortOrder(r)[k]) = k
    BY <1>3 DEF SortOrder
<1>5. ASSUME NEW i \in Places
      PROVE  SortOrder(r)[PlaceOf(r, i)] = i /\ PlaceOf(r, i) \in Places
    BY <1>4, PlaceOfIsInjective
<1> QED
    BY <1>4, <1>5

-----------------------------------------------------------------------------
(* The inductive invariant.                                                *)

(* The sample at a place is that of the prompt sorted there.               *)
SamplesAreSorted ==
    \A r \in Ranks, k \in Places : states[r][k].id = <<r, SortOrder(r)[k]>>

SamplesKeepBudgets ==
    \A r \in Ranks, k \in Places : Budget(states[r][k])

(* A sample that is to be processed was active when the round began, and   *)
(* nothing else has touched it; all active samples have called the         *)
(* environment in every round so far.                                      *)
Lockstep ==
    \A r \in Ranks :
        /\ pc[r] = "round" <=> pending[r] # {}
        /\ \A k \in Places :
              /\ k \in pending[r] =>
                    /\ Active(states[r][k])
                    /\ rounds[r] = states[r][k].n_env_calls + 1
              /\ k \notin pending[r] /\ Active(states[r][k]) =>
                    rounds[r] = states[r][k].n_env_calls

RowsAreRestored ==
    \A r \in Ranks : pc[r] \in {"reduce", "done", "raised"} =>
        \A i \in Places : outputs[r][i].id = <<r, i>>

RolloutInv ==
    /\ TypeOK
    /\ SamplesAreSorted
    /\ SamplesKeepBudgets
    /\ Lockstep
    /\ RoundsBounded
    /\ RowsAreRestored

(* Restoring gives row i the sample of prompt i.                           *)
LEMMA RestoredRows ==
    ASSUME TypeOK, SamplesAreSorted, NEW r \in Ranks
    PROVE  /\ Restored(r) \in [Places -> SampleType]
           /\ \A i \in Places : Restored(r)[i].id = <<r, i>>
<1>1. ASSUME NEW i \in Places
      PROVE  \E k \in Places : Restored(r)[i] = states[r][k] /\ SortOrder(r)[k] = i
    <2> DEFINE k == CHOOSE n \in Places : SortOrder(r)[n] = i
    <2>1. k \in Places /\ SortOrder(r)[k] = i
        BY SortOrderIsPermutation DEF TypeOK, PromptsTyped
    <2>2. Restored(r)[i] = states[r][k]
        BY DEF Restored
    <2> QED
        BY <2>1, <2>2
<1>2. \A i \in Places : Restored(r)[i] \in SampleType
    BY <1>1 DEF TypeOK
<1>3. Restored(r) = [i \in Places |-> Restored(r)[i]]
    BY DEF Restored
<1>4. \A i \in Places : Restored(r)[i].id = <<r, i>>
    BY <1>1 DEF SamplesAreSorted
<1> QED
    BY <1>2, <1>3, <1>4

(* The invariant holds at first.                                           *)
LEMMA RolloutInit == Init => RolloutInv
<1> SUFFICES ASSUME Init
             PROVE  RolloutInv
    OBVIOUS
<1> USE RolloutAssumption, SampleAssumption DEF RolloutAssumption, SampleAssumption
<1>1. PromptsTyped
    BY RolloutAssumption DEF Init, PromptsTyped, RolloutAssumption, Places
<1>2. ASSUME NEW r \in Ranks, NEW k \in Places
      PROVE  /\ states[r][k] \in SampleType
             /\ states[r][k].id = <<r, SortOrder(r)[k]>>
             /\ states[r][k].n_env_calls = 0
             /\ Budget(states[r][k])
    <2> DEFINE i == SortOrder(r)[k]
    <2>1. i \in Places
        BY <1>1, SortOrderIsPermutation
    <2>2. states[r][k] = NewSample(<<r, i>>, prompts[r][i].len, prompts[r][i].queue)
        BY DEF Init
    <2> HIDE DEF i
    <2>3. prompts[r][i].len \in Nat /\ prompts[r][i].queue \in Seq(Reply)
        BY <1>1, <2>1 DEF PromptsTyped, Reply
    <2>4. ASSUME NEW n \in Nat, NEW queue \in Seq(Reply)
          PROVE  LET s == NewSample(<<r, i>>, n, queue) IN
                 s \in SampleType /\ s.id = <<r, i>> /\ s.n_env_calls = 0 /\ Budget(s)
        BY <2>1 DEF NewSample, SampleType, Budget
    <2>5. /\ states[r][k] \in SampleType
          /\ states[r][k].id = <<r, i>>
          /\ states[r][k].n_env_calls = 0
          /\ Budget(states[r][k])
        <3> HIDE RolloutAssumption DEF RolloutAssumption
        <3> QED BY <2>2, <2>3, <2>4
    <2> QED
        BY <2>5 DEF i
<1>3. TypeOK
    <2>1. states \in [Ranks -> [Places -> SampleType]]
        BY <1>2 DEF Init
    <2>2. /\ pc \in [Ranks -> {"loop", "round", "reduce", "done", "raised"}]
          /\ pending \in [Ranks -> SUBSET Places]
          /\ roundTokens \in [Ranks -> 0..MaxModelTokens]
          /\ rounds \in [Ranks -> Nat]
          /\ outputs \in [Ranks -> {<< >>} \cup [Places -> SampleType]]
        BY DEF Init
    <2> QED
        BY <1>1, <2>1, <2>2 DEF TypeOK, PromptsTyped
<1>4. SamplesAreSorted /\ SamplesKeepBudgets
    BY <1>2 DEF SamplesAreSorted, SamplesKeepBudgets
<1>5. Lockstep
    <2>1. \A r \in Ranks : pc[r] = "loop" /\ pending[r] = {} /\ rounds[r] = 0
        BY DEF Init
    <2> QED
        BY <1>2, <2>1 DEF Lockstep
<1>6. RoundsBounded /\ RowsAreRestored
    BY DEF Init, RoundsBounded, RowsAreRestored
<1> QED
    BY <1>3, <1>4, <1>5, <1>6 DEF RolloutInv

(* The prompts never change, so neither does their order.                  *)
LEMMA SortOrderStays ==
    ASSUME UNCHANGED prompts, NEW r \in Ranks
    PROVE  SortOrder(r)' = SortOrder(r)
BY DEF SortOrder, PlaceOf

(* A round starts with the samples that have called the environment in all *)
(* earlier ones.                                                           *)
LEMMA StartRoundStep ==
    ASSUME RolloutInv, NEW r \in Ranks, StartRound(r)
    PROVE  RolloutInv'
<1> USE DEF RolloutInv
<1> DEFINE used == {states[r][k].n_model_tokens : k \in ActivePlaces(r)}
<1>1. /\ pc[r] = "loop" /\ ActivePlaces(r) # {}
      /\ pending' = [pending EXCEPT ![r] = ActivePlaces(r)]
      /\ roundTokens' = [roundTokens EXCEPT ![r] = MaxModelTokens - Min(used)]
      /\ rounds' = [rounds EXCEPT ![r] = @ + 1]
      /\ pc' = [pc EXCEPT ![r] = "round"]
      /\ UNCHANGED <<prompts, states, outputs, width>>
    BY DEF StartRound
<1>2. \A k \in ActivePlaces(r) : k \in Places /\ Active(states[r][k])
    BY DEF ActivePlaces
<1>3. used \in SUBSET (0..MaxModelTokens) /\ used # {}
    <2>1. ASSUME NEW k \in ActivePlaces(r)
          PROVE  states[r][k].n_model_tokens \in 0..MaxModelTokens
        <3>1. states[r][k] \in SampleType
            BY <1>2 DEF TypeOK
        <3>2. states[r][k].n_model_tokens \in Nat
            BY <3>1 DEF SampleType
        <3> QED
            BY <1>2, <3>2, SampleAssumption DEF SampleAssumption, SamplesKeepBudgets, Budget
    <2> QED
        BY <1>1, <2>1
<1> HIDE DEF used
<1>4. Min(used) \in 0..MaxModelTokens
    <2>1. used \in SUBSET Nat
        BY <1>3
    <2>2. Min(used) \in used
        BY <1>3, <2>1, MinOfNat
    <2> QED
        BY <1>3, <2>2
<1>5. TypeOK'
    <2>1. MaxModelTokens - Min(used) \in 0..MaxModelTokens
        BY <1>4, SampleAssumption DEF SampleAssumption
    <2>2. ActivePlaces(r) \subseteq Places
        BY <1>2
    <2> QED
        BY <1>1, <2>1, <2>2 DEF TypeOK
<1>6. SamplesAreSorted' /\ SamplesKeepBudgets' /\ RowsAreRestored'
    BY <1>1, SortOrderStays DEF SamplesAreSorted, SamplesKeepBudgets, RowsAreRestored, TypeOK
<1>7. \A k \in ActivePlaces(r) :
          rounds[r] = states[r][k].n_env_calls /\ states[r][k].n_env_calls \in Nat
    BY <1>1, <1>2 DEF Lockstep, TypeOK, SampleType
<1>8. Lockstep'
    <2>1. \A k \in Places : Active(states[r][k]) => k \in ActivePlaces(r)
        BY DEF ActivePlaces
    <2>2. /\ pc'[r] = "round" /\ pending'[r] = ActivePlaces(r) /\ rounds'[r] = rounds[r] + 1
          /\ \A q \in Ranks : q # r => /\ pc'[q] = pc[q] /\ pending'[q] = pending[q]
                                       /\ rounds'[q] = rounds[q]
        BY <1>1 DEF TypeOK
    <2>3. states' = states
        BY <1>1
    <2> SUFFICES ASSUME NEW q \in Ranks
                 PROVE  /\ pc'[q] = "round" <=> pending'[q] # {}
                        /\ \A k \in Places :
                              /\ k \in pending'[q] =>
                                    /\ Active(states[q][k])
                                    /\ rounds'[q] = states[q][k].n_env_calls + 1
                              /\ k \notin pending'[q] /\ Active(states[q][k]) =>
                                    rounds'[q] = states[q][k].n_env_calls
        BY <2>3 DEF Lockstep, Active
    <2>5. CASE q = r
        BY <1>1, <1>2, <1>7, <2>1, <2>2, <2>5
    <2>6. CASE q # r
        BY <2>2, <2>6 DEF Lockstep
    <2> QED
        BY <2>5, <2>6
<1>9. RoundsBounded'
    <2>1. PICK k \in ActivePlaces(r) : TRUE
        BY <1>1
    <2>2. rounds[r] < MaxEnvCalls /\ rounds[r] \in Nat
        BY <1>2, <1>7, <2>1 DEF Active
    <2> QED
        BY <1>1, <2>2, SampleAssumption DEF RoundsBounded, TypeOK, SampleAssumption
<1> QED
    BY <1>5, <1>6, <1>8, <1>9

(* An output is processed: its sample keeps its budgets and leaves the     *)
(* round finished or one call further, like all others.                    *)
LEMMA ProcessOutputStep ==
    ASSUME RolloutInv, NEW r \in Ranks, ProcessOutput(r)
    PROVE  RolloutInv'
<1> USE DEF RolloutInv
<1> DEFINE k == Min(pending[r])
           s == states[r][k]
           t == states'[r][k]
<1>1. /\ pc[r] = "round"
      /\ pending' = [pending EXCEPT ![r] = @ \ {k}]
      /\ pc' = [pc EXCEPT ![r] = IF pending[r] = {k} THEN "loop" ELSE "round"]
      /\ UNCHANGED <<prompts, roundTokens, rounds, outputs, width>>
    BY DEF ProcessOutput
<1>2. PICK out \in Outputs(OutputLimit(r, s)) : states' = [states EXCEPT ![r][k] = TakeTurn(s, out)]
    BY DEF ProcessOutput
<1>3. k \in pending[r] /\ k \in Places
    <2>1. pending[r] \in SUBSET Places /\ pending[r] # {}
        BY <1>1 DEF TypeOK, Lockstep
    <2>2. pending[r] \in SUBSET Nat
        BY <2>1, PlacesFinite
    <2> QED
        BY <2>1, <2>2, MinOfNat
<1> HIDE DEF k
<1>4. /\ states \in [Ranks -> [Places -> SampleType]]
      /\ s \in SampleType /\ Active(s) /\ Budget(s)
      /\ rounds[r] = s.n_env_calls + 1
    BY <1>3 DEF TypeOK, Lockstep, SamplesKeepBudgets
<1>5. t = TakeTurn(s, out)
    BY <1>2, <1>3, <1>4
<1>6. \A q \in Ranks, j \in Places : <<q, j>> # <<r, k>> => states'[q][j] = states[q][j]
    BY <1>2, <1>3, <1>4
<1>7. OutputLimit(r, s) \in Int /\ OutputLimit(r, s) <= MaxCtx - s.ctx
    <2> DEFINE room == MaxCtx - s.ctx
    <2>1. roundTokens[r] \in Int /\ room \in Int
        BY <1>4, SampleAssumption DEF TypeOK, SampleType, SampleAssumption
    <2>2. OutputLimit(r, s) = Min({roundTokens[r], room})
        BY DEF OutputLimit
    <2> HIDE DEF room
    <2>3. \E m \in {roundTokens[r], room} : \A n \in {roundTokens[r], room} : m <= n
        BY <2>1
    <2>4. Min({roundTokens[r], room}) \in Int /\ Min({roundTokens[r], room}) <= room
        BY <2>1, <2>3, MinIs
    <2> QED
        BY <2>2, <2>4 DEF room
<1> HIDE DEF s
<1>8. /\ t \in SampleType
      /\ t.id = s.id
      /\ Budget(t)
      /\ Active(t) => t.n_env_calls = s.n_env_calls + 1
    BY <1>4, <1>5, <1>7, TakeTurnType
<1> HIDE DEF t
<1>9. TypeOK'
    <2>1. states' \in [Ranks -> [Places -> SampleType]]
        BY <1>2, <1>3, <1>4, <1>5, <1>8
    <2>2. pending' \in [Ranks -> SUBSET Places]
        BY <1>1 DEF TypeOK
    <2>3. pc' \in [Ranks -> {"loop", "round", "reduce", "done", "raised"}]
        BY <1>1 DEF TypeOK
    <2> QED
        BY <1>1, <2>1, <2>2, <2>3 DEF TypeOK
<1>10. SamplesAreSorted'
    <2> SUFFICES ASSUME NEW q \in Ranks, NEW j \in Places
                 PROVE  states'[q][j].id = <<q, SortOrder(q)[j]>>
        BY <1>1, SortOrderStays DEF SamplesAreSorted
    <2>1. CASE q = r /\ j = k
        BY <1>8, <2>1 DEF SamplesAreSorted, s, t
    <2>2. CASE <<q, j>> # <<r, k>>
        BY <1>6, <2>2 DEF SamplesAreSorted
    <2> QED
        BY <2>1, <2>2
<1>11. SamplesKeepBudgets'
    <2> SUFFICES ASSUME NEW q \in Ranks, NEW j \in Places
                 PROVE  Budget(states'[q][j])
        BY DEF SamplesKeepBudgets, Budget
    <2>1. CASE q = r /\ j = k
        BY <1>8, <2>1 DEF t
    <2>2. CASE <<q, j>> # <<r, k>>
        BY <1>6, <2>2 DEF SamplesKeepBudgets
    <2> QED
        BY <2>1, <2>2
<1>12. Lockstep'
    <2> SUFFICES ASSUME NEW q \in Ranks
                 PROVE  /\ pc'[q] = "round" <=> pending'[q] # {}
                        /\ \A j \in Places :
                              /\ j \in pending'[q] =>
                                    /\ Active(states'[q][j])
                                    /\ rounds[q] = states'[q][j].n_env_calls + 1
                              /\ j \notin pending'[q] /\ Active(states'[q][j]) =>
                                    rounds[q] = states'[q][j].n_env_calls
        BY <1>1 DEF Lockstep, Active
    <2>1. CASE q = r
        <3>1. pending'[r] = pending[r] \ {k} /\ (pc'[r] = "round" <=> pending[r] # {k})
            BY <1>1 DEF TypeOK
        <3>2. ASSUME NEW j \in Places, j # k
              PROVE  /\ states'[r][j] = states[r][j]
                     /\ j \in pending'[r] <=> j \in pending[r]
            BY <1>6, <3>1, <3>2
        <3>3. k \notin pending'[r] /\ (Active(t) => rounds[r] = t.n_env_calls)
            BY <1>4, <1>8, <3>1
        <3> QED
            BY <1>3, <2>1, <3>1, <3>2, <3>3 DEF Lockstep, t
    <2>2. CASE q # r
        <3>1. pending'[q] = pending[q] /\ pc'[q] = pc[q]
            BY <1>1, <2>2 DEF TypeOK
        <3>2. \A j \in Places : states'[q][j] = states[q][j]
            BY <1>6, <2>2
        <3> QED
            BY <3>1, <3>2 DEF Lockstep
    <2> QED
        BY <2>1, <2>2
<1>13. RoundsBounded' /\ RowsAreRestored'
    <2>1. outputs' = outputs /\ rounds' = rounds
        BY <1>1
    <2>2. \A q \in Ranks : pc'[q] \in {"reduce", "done", "raised"} => pc'[q] = pc[q]
        BY <1>1 DEF TypeOK
    <2> QED
        BY <2>1, <2>2 DEF RoundsBounded, RowsAreRestored
<1> QED
    BY <1>9, <1>10, <1>11, <1>12, <1>13

(* The end of the loop puts the rows back in order, and the collective     *)
(* leaves them so.                                                         *)
LEMMA EndStep ==
    ASSUME RolloutInv, AllReduce \/ \E r \in Ranks : EndLoop(r)
    PROVE  RolloutInv'
<1> USE DEF RolloutInv
<1>1. UNCHANGED <<prompts, states, pending, roundTokens, rounds>>
    BY DEF AllReduce, EndLoop
<1>2. SamplesAreSorted' /\ SamplesKeepBudgets' /\ RoundsBounded'
    BY <1>1, SortOrderStays DEF SamplesAreSorted, SamplesKeepBudgets, RoundsBounded
<1>3. /\ pc' \in [Ranks -> {"loop", "round", "reduce", "done", "raised"}]
      /\ \A q \in Ranks : pc'[q] = "round" <=> pc[q] = "round"
    BY DEF TypeOK, AllReduce, EndLoop
<1>4. Lockstep'
    BY <1>1, <1>3 DEF Lockstep, Active
<1>5. CASE AllReduce
    <2>1. outputs' = outputs
        BY <1>5 DEF AllReduce
    <2>2. RowsAreRestored'
        BY <1>5, <2>1 DEF AllReduce, RowsAreRestored
    <2> QED
        BY <1>1, <1>2, <1>3, <1>4, <2>1, <2>2 DEF TypeOK
<1>6. ASSUME NEW r \in Ranks, EndLoop(r)
      PROVE  RolloutInv'
    <2>1. /\ outputs' = [outputs EXCEPT ![r] = Restored(r)]
          /\ pc' = [pc EXCEPT ![r] = "reduce"]
        BY <1>6 DEF EndLoop
    <2>2. /\ Restored(r) \in [Places -> SampleType]
          /\ \A i \in Places : Restored(r)[i].id = <<r, i>>
        BY RestoredRows
    <2>3. outputs' \in [Ranks -> {<< >>} \cup [Places -> SampleType]]
        BY <2>1, <2>2 DEF TypeOK
    <2>4. RowsAreRestored'
        BY <2>1, <2>2 DEF RowsAreRestored, TypeOK
    <2> QED
        BY <1>1, <1>2, <1>3, <1>4, <2>3, <2>4 DEF TypeOK
<1> QED
    BY <1>5, <1>6

(* Every step keeps the invariant.                                         *)
LEMMA RolloutStep == RolloutInv /\ [Next]_vars => RolloutInv'
<1> SUFFICES ASSUME RolloutInv, [Next]_vars
             PROVE  RolloutInv'
    OBVIOUS
<1>1. ASSUME UNCHANGED vars
      PROVE  RolloutInv'
    BY <1>1, SortOrderStays
       DEF vars, RolloutInv, TypeOK, SamplesAreSorted, SamplesKeepBudgets, Lockstep,
           RoundsBounded, RowsAreRestored
<1> QED
    BY <1>1, StartRoundStep, ProcessOutputStep, EndStep DEF Next, RankStep

(* The inductive invariant, and with it the type invariant, holds in every *)
(* reachable state.                                                        *)
THEOREM RolloutInvariant == Spec => []RolloutInv
BY RolloutInit, RolloutStep, PTL DEF Spec

(* However the samples of a rank are mixed, none outgrows its own budgets. *)
THEOREM BudgetsAlwaysHold == Spec => []BudgetsHold
<1>1. RolloutInv => BudgetsHold
    BY DEF RolloutInv, SamplesKeepBudgets, Budget, BudgetsHold, AllSamples
<1> QED
    BY <1>1, RolloutInvariant, PTL

(* A rank generates at most MaxEnvCalls times, for any samples.            *)
THEOREM RoundsAlwaysBounded == Spec => []RoundsBounded
<1>1. RolloutInv => RoundsBounded
    BY DEF RolloutInv
<1> QED
    BY <1>1, RolloutInvariant, PTL

(* Row i of the result is the sample of prompt i, for any replies and      *)
(* therefore any order of the loop.                                        *)
THEOREM RowsAlwaysMatchPrompts == Spec => []RowsMatchPrompts
<1>1. RolloutInv => RowsMatchPrompts
    BY DEF RolloutInv, RowsAreRestored, RowsMatchPrompts
<1> QED
    BY <1>1, RolloutInvariant, PTL

-----------------------------------------------------------------------------
(* The response, the counters and the replies of every sample.             *)

SamplesAreConsistent ==
    \A s \in AllSamples :
        LET prompt == prompts[s.id[1]][s.id[2]]
        IN  Consistent(s, prompt.len, prompt.queue)

(* Every prompt has a length and replies.                                  *)
LEMMA PromptOf ==
    ASSUME TypeOK, NEW s \in AllSamples
    PROVE  /\ s \in SampleType
           /\ prompts[s.id[1]][s.id[2]].len \in Nat
           /\ prompts[s.id[1]][s.id[2]].queue \in Seq(Reply)
<1>1. s \in SampleType
    BY DEF TypeOK, AllSamples
<1>2. s.id[1] \in Ranks /\ s.id[2] \in Places
    BY <1>1 DEF SampleType
<1>3. prompts[s.id[1]][s.id[2]] \in [len : PromptLens, queue : Queues]
    BY <1>2 DEF TypeOK
<1> QED
    BY <1>1, <1>3, RolloutAssumption DEF RolloutAssumption, Reply

(* A new sample has said and heard nothing.                                *)
LEMMA ConsistentInit == Init => SamplesAreConsistent
<1> SUFFICES ASSUME Init, NEW s \in AllSamples
             PROVE  Consistent(s, prompts[s.id[1]][s.id[2]].len, prompts[s.id[1]][s.id[2]].queue)
    BY DEF SamplesAreConsistent
<1>1. PICK r \in Ranks, k \in Places : s = states[r][k]
    BY DEF AllSamples
<1> DEFINE i == SortOrder(r)[k]
           prompt == prompts[r][i]
<1>2. s = NewSample(<<r, i>>, prompt.len, prompt.queue)
    BY <1>1 DEF Init
<1>3. prompts[s.id[1]][s.id[2]] = prompt
    BY <1>2 DEF NewSample
<1>4. prompt.len \in Nat /\ prompt.queue \in Seq(Reply)
    BY <1>1, <1>3, RolloutInit, PromptOf DEF RolloutInv
<1> HIDE DEF prompt
<1>5. /\ s.response = << >> /\ s.env_replies_used = << >> /\ s.env_replies = prompt.queue
      /\ s.ctx = prompt.len /\ s.n_model_tokens = 0 /\ s.n_env_calls = 0
    BY <1>2 DEF NewSample
<1>6. SegmentsBy(s, "model") = << >> /\ SegmentsBy(s, "env") = << >> /\ Calls(s) = << >>
    BY <1>5, FoldsOfEmpty DEF SegmentsBy, Calls
<1>7. Counted(s, prompt.len) /\ s.n_env_calls = Len(Calls(s))
    BY <1>4, <1>5, <1>6, FoldsOfEmpty DEF Counted
<1>8. Heard(s)
    <2>1. Only(s.env_replies_used, Nat \ {0}) = << >>
        BY <1>5, FoldsOfEmpty
    <2>2. Spoken(<< >>) = << >>
        BY DEF Spoken
    <2> QED
        BY <1>5, <1>6, <2>1, <2>2 DEF Heard
<1>9. Queued(s, prompt.queue)
    <2>1. << >> \in Seq(Nat) /\ Len(<< >>) = 0 /\ Len(prompt.queue) \in Nat
        BY <1>4
    <2> QED
        BY <1>5, <2>1 DEF Queued
<1> QED
    BY <1>3, <1>7, <1>8, <1>9 DEF Consistent

(* A sample changes only when its own output is processed: then it was     *)
(* active, and takes one turn.                                             *)
LEMMA OneSampleTurns ==
    ASSUME RolloutInv, [Next]_vars
    PROVE  \/ states' = states
           \/ \E r \in Ranks, k \in Places :
                 LET s == states[r][k] IN
                 /\ s \in SampleType /\ Active(s) /\ Budget(s)
                 /\ roundTokens[r] \in Int /\ MaxCtx - s.ctx \in Int
                 /\ OutputLimit(r, s) \in Int
                 /\ OutputLimit(r, s) <= MaxCtx - s.ctx
                 /\ \E out \in Outputs(OutputLimit(r, s)) :
                       states' = [states EXCEPT ![r][k] = TakeTurn(s, out)]
<1>1. CASE \E r \in Ranks : ProcessOutput(r)
    <2>1. PICK r \in Ranks : ProcessOutput(r)
        BY <1>1
    <2> DEFINE k == Min(pending[r])
               s == states[r][k]
    <2>2. pc[r] = "round"
        BY <2>1 DEF ProcessOutput
    <2>3. \E out \in Outputs(OutputLimit(r, s)) :
             states' = [states EXCEPT ![r][k] = TakeTurn(s, out)]
        BY <2>1 DEF ProcessOutput
    <2>4. k \in pending[r] /\ k \in Places
        <3>1. pending[r] \in SUBSET Places /\ pending[r] # {}
            BY <2>2 DEF RolloutInv, TypeOK, Lockstep
        <3>2. pending[r] \in SUBSET Nat
            BY <3>1, PlacesFinite
        <3> QED
            BY <3>1, <3>2, MinOfNat
    <2> HIDE DEF k
    <2>5. s \in SampleType /\ Active(s) /\ Budget(s)
        BY <2>4 DEF RolloutInv, TypeOK, Lockstep, SamplesKeepBudgets
    <2>6. /\ roundTokens[r] \in Int /\ MaxCtx - s.ctx \in Int
          /\ OutputLimit(r, s) \in Int /\ OutputLimit(r, s) <= MaxCtx - s.ctx
        <3> DEFINE room == MaxCtx - s.ctx
        <3>1. roundTokens[r] \in Int /\ room \in Int
            BY <2>5, SampleAssumption DEF RolloutInv, TypeOK, SampleType, SampleAssumption
        <3>2. OutputLimit(r, s) = Min({roundTokens[r], room})
            BY DEF OutputLimit
        <3> HIDE DEF room
        <3>3. \E m \in {roundTokens[r], room} : \A n \in {roundTokens[r], room} : m <= n
            BY <3>1
        <3>4. Min({roundTokens[r], room}) \in Int /\ Min({roundTokens[r], room}) <= room
            BY <3>1, <3>3, MinIs
        <3> QED
            BY <3>1, <3>2, <3>4 DEF room
    <2> QED
        BY <2>3, <2>4, <2>5, <2>6
<1>2. CASE ~ \E r \in Ranks : ProcessOutput(r)
    BY <1>2 DEF Next, RankStep, StartRound, EndLoop, AllReduce, vars
<1> QED
    BY <1>1, <1>2

(* Every step keeps them together.                                         *)
LEMMA ConsistentStep ==
    RolloutInv /\ SamplesAreConsistent /\ [Next]_vars => SamplesAreConsistent'
<1> SUFFICES ASSUME RolloutInv, SamplesAreConsistent, [Next]_vars
             PROVE  SamplesAreConsistent'
    OBVIOUS
<1>1. prompts' = prompts
    BY DEF Next, RankStep, StartRound, ProcessOutput, EndLoop, AllReduce, vars
<1>2. ASSUME NEW s \in AllSamples
      PROVE  /\ s \in SampleType
             /\ prompts[s.id[1]][s.id[2]].len \in Nat
             /\ prompts[s.id[1]][s.id[2]].queue \in Seq(Reply)
             /\ Consistent(s, prompts[s.id[1]][s.id[2]].len, prompts[s.id[1]][s.id[2]].queue)
    BY PromptOf DEF SamplesAreConsistent, RolloutInv
<1>3. CASE states' = states
    BY <1>1, <1>3 DEF SamplesAreConsistent, AllSamples
<1>4. CASE states' # states
    <2>1. PICK r \in Ranks, k \in Places :
             LET s == states[r][k] IN
             /\ s \in SampleType /\ Active(s) /\ Budget(s)
             /\ OutputLimit(r, s) \in Int
             /\ OutputLimit(r, s) <= MaxCtx - s.ctx
             /\ \E out \in Outputs(OutputLimit(r, s)) :
                   states' = [states EXCEPT ![r][k] = TakeTurn(s, out)]
        BY <1>4, OneSampleTurns
    <2> DEFINE s == states[r][k]
               limit == OutputLimit(r, s)
    <2>2. PICK out \in Outputs(limit) : states' = [states EXCEPT ![r][k] = TakeTurn(s, out)]
        BY <2>1
    <2>3. s \in AllSamples /\ s \in SampleType /\ Active(s) /\ Budget(s)
          /\ limit \in Int /\ limit <= MaxCtx - s.ctx
        BY <2>1 DEF AllSamples
    <2> DEFINE turned == TakeTurn(s, out)
    <2>4. \A q \in Ranks, j \in Places :
             states'[q][j] = IF q = r /\ j = k THEN turned ELSE states[q][j]
        BY <2>2 DEF RolloutInv, TypeOK
    <2>5. turned.id = s.id
        <3> HIDE DEF s, limit
        <3> QED
            BY <2>3, TakeTurnType
    <2>6. Consistent(turned, prompts[s.id[1]][s.id[2]].len, prompts[s.id[1]][s.id[2]].queue)
        <3> DEFINE len == prompts[s.id[1]][s.id[2]].len
                   queue == prompts[s.id[1]][s.id[2]].queue
        <3>1. len \in Nat /\ queue \in Seq(Reply) /\ Consistent(s, len, queue)
            BY <1>2, <2>3
        <3> HIDE DEF len, queue, s, limit
        <3>2. Consistent(turned, len, queue)
            BY <2>3, <3>1, TakeTurnConsistent
        <3> QED
            BY <3>2 DEF len, queue, s
    <2> HIDE DEF turned
    <2>7. ASSUME NEW q \in Ranks, NEW j \in Places, NEW t, t = states'[q][j]
          PROVE  Consistent(t, prompts[t.id[1]][t.id[2]].len, prompts[t.id[1]][t.id[2]].queue)
        <3>1. CASE q = r /\ j = k
            BY <2>4, <2>5, <2>6, <2>7, <3>1
        <3>2. CASE ~ (q = r /\ j = k)
            <4>1. t = states[q][j] /\ t \in AllSamples
                BY <2>4, <2>7, <3>2 DEF AllSamples
            <4> QED
                BY <1>2, <4>1
        <3> QED
            BY <3>1, <3>2
    <2> QED
        BY <1>1, <2>7 DEF SamplesAreConsistent, AllSamples
<1> QED
    BY <1>3, <1>4

(* For any model and any replies, in any mix of samples: the counters a    *)
(* sample is stopped by agree with the response it is trained on, and the  *)
(* replies in it are those of its own prompt, in order, each after a call. *)
THEOREM ResponseAlwaysConsistent == Spec => []ResponseIsConsistent
<1>1. ASSUME NEW used \in Seq(Nat), NEW queue \in Seq(Reply), Len(used) <= Len(queue),
             \A i \in 1..Len(used) : used[i] = queue[i]
      PROVE  IsPrefix(used, queue)
    <2>1. Len(used) \in Nat /\ Len(queue) \in Nat
        OBVIOUS
    <2> DEFINE n == Len(used)
               one == SubSeq(used, 1, n)
               two == SubSeq(queue, 1, n)
    <2>2. one = [i \in 1..Len(one) |-> one[i]] /\ two = [i \in 1..Len(two) |-> two[i]]
        <3>1. one \in Seq(Nat) /\ two \in Seq(Reply)
            BY <1>1, <2>1
        <3>2. ASSUME NEW A, NEW seq \in Seq(A)
              PROVE  seq = [i \in 1..Len(seq) |-> seq[i]]
            <4>1. seq \in [1..Len(seq) -> A]
                OBVIOUS
            <4> QED
                BY <4>1
        <3> DEFINE A == Nat
                   B == Reply
        <3> HIDE DEF one, two, A, B
        <3>3. one \in Seq(A) /\ two \in Seq(B)
            BY <3>1 DEF A, B
        <3> QED
            BY <3>2, <3>3
    <2>3. /\ Len(one) = n /\ \A i \in 1..n : one[i] = used[i]
          /\ Len(two) = n /\ \A i \in 1..n : two[i] = queue[i]
        BY <1>1, <2>1
    <2>4. SubSeq(used, 1, Len(used)) = SubSeq(queue, 1, Len(used))
        <3> HIDE DEF one, two, n
        <3>1. one = two
            BY <1>1, <2>2, <2>3 DEF n
        <3> QED
            BY <3>1 DEF one, two, n
    <2> QED
        BY <1>1, <2>4 DEF IsPrefix
<1>2. RolloutInv /\ SamplesAreConsistent => ResponseIsConsistent
    <2> SUFFICES ASSUME RolloutInv, SamplesAreConsistent
                 PROVE  ResponseIsConsistent
        OBVIOUS
    <2>1. CountersMatchResponse
        BY DEF SamplesAreConsistent, Consistent, Counted, CountersMatchResponse
    <2>2. RepliesAnswerCallsInOrder
        <3> SUFFICES ASSUME NEW s \in AllSamples
                     PROVE  /\ IsPrefix(s.env_replies_used, prompts[s.id[1]][s.id[2]].queue)
                            /\ Heard(s)
            BY DEF RepliesAnswerCallsInOrder, Heard, Spoken
        <3>1. /\ Heard(s) /\ Queued(s, prompts[s.id[1]][s.id[2]].queue)
              /\ prompts[s.id[1]][s.id[2]].queue \in Seq(Reply)
            BY PromptOf DEF RolloutInv, SamplesAreConsistent, Consistent
        <3> QED
            BY <1>1, <3>1 DEF Queued
    <2> QED
        BY <2>1, <2>2 DEF ResponseIsConsistent
<1> QED
    BY <1>2, ConsistentInit, ConsistentStep, RolloutInvariant, PTL DEF Spec

-----------------------------------------------------------------------------
(* The rollout is the episodes of its samples, each played alone.          *)

Played == [id \in Ranks \X Places |-> states[id[1]][PlaceOf(id[1], id[2])]]

(* The episodes are made of the same samples, turns and outputs.           *)
LEMMA SameSamples ==
    /\ \A s : Solo!Active(s) = Active(s)
    /\ \A limit : Solo!Outputs(limit) = Outputs(limit)
    /\ \A id, n, queue : Solo!NewSample(id, n, queue) = NewSample(id, n, queue)
    /\ \A s, out : Solo!TakeTurn(s, out) = TakeTurn(s, out)
<1>1. \A s : Solo!Active(s) = Active(s)
    BY DEF Solo!Active, Active
<1>2. \A limit : Solo!Outputs(limit) = Outputs(limit)
    BY DEF Solo!Outputs, Outputs
<1>3. \A id, n, queue : Solo!NewSample(id, n, queue) = NewSample(id, n, queue)
    BY DEF Solo!NewSample, NewSample
<1>4. \A s, out : Solo!TakeTurn(s, out) = TakeTurn(s, out)
    <2>1. \A s : Solo!Finish(s) = Finish(s)
        BY DEF Solo!Finish, Finish
    <2>2. \A s, n, ending : Solo!AppendModel(s, n, ending) = AppendModel(s, n, ending)
        BY DEF Solo!AppendModel, AppendModel
    <2>3. \A s, n : Solo!AppendEnv(s, n) = AppendEnv(s, n)
        BY DEF Solo!AppendEnv, AppendEnv
    <2>4. \A s : Solo!NextReply(s) = NextReply(s)
        BY DEF Solo!NextReply, NextReply
    <2>5. \A s : Solo!CallEnv(s) = CallEnv(s)
        BY <2>1, <2>3, <2>4 DEF Solo!CallEnv, CallEnv
    <2>6. \A out, n : Solo!Clip(out, n) = Clip(out, n)
        BY DEF Solo!Clip, Clip
    <2> QED
        BY <2>1, <2>2, <2>5, <2>6 DEF Solo!TakeTurn, TakeTurn
<1> QED
    BY <1>1, <1>2, <1>3, <1>4

(* Whatever a round allows, a turn in it is one the sample could have      *)
(* taken alone: what was generated past its own budget is cut.             *)
LEMMA TurnAlone ==
    ASSUME NEW s \in SampleType, Active(s),
           NEW limit \in Int, limit <= MaxCtx - s.ctx, NEW out \in Outputs(limit)
    PROVE  LET own   == MaxModelTokens - s.n_model_tokens
               room  == MaxCtx - s.ctx
               least == IF own < room THEN own ELSE room
           IN  \E alone \in Outputs(least) : TakeTurn(s, alone) = TakeTurn(s, out)
<1> USE SampleAssumption DEF SampleAssumption
<1> DEFINE own   == MaxModelTokens - s.n_model_tokens
           room  == MaxCtx - s.ctx
           least == IF own < room THEN own ELSE room
<1>1. own \in Nat \ {0} /\ room \in Nat \ {0} /\ limit <= room
    BY DEF SampleType, Active
<1>2. \A alone : Clip(alone, own) = Clip(out, own) /\ (alone.n = 0 <=> out.n = 0)
                    => TakeTurn(s, alone) = TakeTurn(s, out)
    BY DEF TakeTurn
<1> HIDE DEF own, room
<1>3. out.n \in Nat /\ (out.n = 0 \/ out.n <= limit)
    BY DEF Outputs
<1>4. CASE out.n <= least
    <2>1. \/ out = [n |-> 0, ending |-> "none"]
          \/ out \in [n : 1..limit, ending : {"call", "none"}]
        BY DEF Outputs
    <2>2. ASSUME out \in [n : 1..limit, ending : {"call", "none"}]
          PROVE  out \in [n : 1..least, ending : {"call", "none"}]
        BY <1>1, <1>4, <2>2
    <2>3. out \in Outputs(least)
        BY <2>1, <2>2 DEF Outputs
    <2> QED
        BY <1>2, <2>3 DEF own, room
<1>5. CASE out.n > least
    <2> DEFINE alone == [n |-> own, ending |-> "none"]
    <2>1. least = own /\ out.n > own /\ own \in 1..least
        BY <1>1, <1>3, <1>5
    <2>2. alone \in Outputs(least)
        BY <2>1 DEF Outputs
    <2>3. Clip(alone, own) = alone /\ Clip(out, own) = alone /\ alone.n # 0 /\ out.n # 0
        BY <1>1, <1>3, <2>1 DEF Clip
    <2> QED
        BY <1>2, <2>2, <2>3 DEF own, room
<1> QED
    BY <1>1, <1>3, <1>4, <1>5

(* The samples of the first state are new episodes.                        *)
LEMMA SoloInit == Init => Solo!Init
<1> SUFFICES ASSUME Init
             PROVE  Solo!Init
    OBVIOUS
<1>1. PromptsTyped
    BY RolloutAssumption DEF Init, PromptsTyped, RolloutAssumption, Places
<1>2. ASSUME NEW id \in Ranks \X Places
      PROVE  \E len \in PromptLens, queue \in Queues : Played[id] = NewSample(id, len, queue)
    <2> DEFINE r == id[1]
               i == id[2]
    <2>1. r \in Ranks /\ i \in Places /\ id = <<r, i>>
        OBVIOUS
    <2>2. PlaceOf(r, i) \in Places /\ SortOrder(r)[PlaceOf(r, i)] = i
        BY <1>1, <2>1, PlaceOfIsInjective, SortOrderIsPermutation
    <2> DEFINE k == PlaceOf(r, i)
    <2>3. Played[id] = states[r][k]
        BY DEF Played
    <2>4. states[r][k] = NewSample(<<r, SortOrder(r)[k]>>, prompts[r][SortOrder(r)[k]].len,
                                   prompts[r][SortOrder(r)[k]].queue)
        BY <2>1, <2>2 DEF Init
    <2>5. prompts[r][i].len \in PromptLens /\ prompts[r][i].queue \in Queues
        BY <1>1, <2>1 DEF PromptsTyped
    <2> QED
        BY <2>1, <2>2, <2>3, <2>4, <2>5
<1>3. DOMAIN Played = Ranks \X Places
    BY DEF Played
<1> QED
    BY <1>2, <1>3, SameSamples DEF Solo!Init, Played

(* Every step of the rollout is a turn of one episode, or none.            *)
LEMMA SoloStep == RolloutInv /\ [Next]_vars => [Solo!Next]_Played
<1> SUFFICES ASSUME RolloutInv, [Next]_vars
             PROVE  [Solo!Next]_Played
    OBVIOUS
<1>1. prompts' = prompts
    BY DEF Next, RankStep, StartRound, ProcessOutput, EndLoop, AllReduce, vars
<1>2. \A r \in Ranks, i \in Places : PlaceOf(r, i)' = PlaceOf(r, i)
    BY <1>1 DEF PlaceOf
<1>3. PromptsTyped
    BY DEF RolloutInv, TypeOK, PromptsTyped
<1>4. Played' = [id \in Ranks \X Places |-> states'[id[1]][PlaceOf(id[1], id[2])]]
    BY <1>2 DEF Played
<1>5. CASE states' = states
    BY <1>4, <1>5 DEF Played
<1>6. CASE states' # states
    <2>1. PICK r \in Ranks, k \in Places :
             LET s == states[r][k] IN
             /\ s \in SampleType /\ Active(s)
             /\ OutputLimit(r, s) \in Int
             /\ OutputLimit(r, s) <= MaxCtx - s.ctx
             /\ \E out \in Outputs(OutputLimit(r, s)) :
                   states' = [states EXCEPT ![r][k] = TakeTurn(s, out)]
        BY <1>6, OneSampleTurns
    <2>a. PICK i \in Places : i = SortOrder(r)[k] /\ PlaceOf(r, i) = k
        BY <1>3, SortOrderIsPermutation
    <2> DEFINE s == states[r][k]
               id == <<r, i>>
               own   == MaxModelTokens - s.n_model_tokens
               room  == MaxCtx - s.ctx
               least == IF own < room THEN own ELSE room
    <2>2. PICK out \in Outputs(OutputLimit(r, s)) :
             states' = [states EXCEPT ![r][k] = TakeTurn(s, out)]
        BY <2>1
    <2>3. i \in Places /\ PlaceOf(r, i) = k /\ id \in Ranks \X Places
        BY <2>a
    <2>4. Played[id] = s
        BY <2>3 DEF Played
    <2>5. PICK alone \in Outputs(least) : TakeTurn(s, alone) = TakeTurn(s, out)
        <3> HIDE DEF s
        <3> QED
            BY <2>1, TurnAlone DEF s
    <2>6. Played' = [Played EXCEPT ![id] = TakeTurn(s, alone)]
        <3> DEFINE turned == TakeTurn(s, out)
        <3>1. \A q \in Ranks, j \in Places :
                 states'[q][j] = IF q = r /\ j = k THEN turned ELSE states[q][j]
            BY <2>2 DEF RolloutInv, TypeOK
        <3> HIDE DEF turned
        <3>2. ASSUME NEW other \in Ranks \X Places
              PROVE  states'[other[1]][PlaceOf(other[1], other[2])] =
                        IF other = id THEN turned ELSE Played[other]
            <4> DEFINE q == other[1]
                       j == other[2]
            <4>1. q \in Ranks /\ j \in Places /\ other = <<q, j>> /\ PlaceOf(q, j) \in Places
                BY <1>3, PlaceOfIsInjective
            <4>2. q = r /\ PlaceOf(q, j) = k <=> other = id
                <5>1. q = r /\ PlaceOf(q, j) = k => j = i
                    BY <1>3, <2>3, <4>1, PlaceOfIsInjective
                <5> QED
                    BY <2>3, <4>1, <5>1
            <4>3. Played[other] = states[q][PlaceOf(q, j)]
                BY DEF Played
            <4> QED
                BY <3>1, <4>1, <4>2, <4>3
        <3>3. Played' = [other \in Ranks \X Places |-> IF other = id THEN turned ELSE Played[other]]
            BY <1>4, <3>2
        <3>4. DOMAIN Played = Ranks \X Places
            BY DEF Played
        <3> QED
            BY <2>5, <3>3, <3>4 DEF turned
    <2>7. /\ Active(Played[id])
          /\ \E out_alone \in Outputs(least) : Played' = [Played EXCEPT ![id] = TakeTurn(Played[id], out_alone)]
        BY <2>1, <2>4, <2>5, <2>6
    <2>8. Solo!Turn(id)
        BY <2>4, <2>7, SameSamples DEF Solo!Turn, Played
    <2> QED
        BY <2>3, <2>8 DEF Solo!Next
<1> QED
    BY <1>5, <1>6

(* The steps of ImplementsEpisodes, without its fairness: sorting, rounds, *)
(* shared limits and other ranks add nothing to what a sample may become.  *)
THEOREM PlaysEpisodes == Spec => Solo!Init /\ [][Solo!Next]_Played
BY SoloInit, SoloStep, RolloutInvariant, PTL DEF Spec
=============================================================================
