------------------------- MODULE PhasedRolloutProofs -------------------------
(***************************************************************************)
(* For any samples, prompts, replies and budgets of the two other loops:   *)
(* thinking is closed once, the counters agree with the response and keep  *)
(* their budgets, and each loop fails only in its own way.                 *)
(***************************************************************************)
EXTENDS PhasedRollout, FiniteSetTheorems, TLAPS

\* The lemmas on folds, which are about no rollout in particular.
Folded == INSTANCE MultiTurnRolloutProofs WITH
              Ranks <- {0}, Size <- 1, PromptLens <- {}, Queues <- {}, Batches <- {},
              rounds <- 0, outputs <- 0, width <- 0

(* They are about the same folds.                                          *)
LEMMA SameFolds ==
    /\ \A seq : Folded!Tokens(seq) = Tokens(seq)
    /\ \A seq, S : Folded!Only(seq, S) = Only(seq, S)
<1>1. \A seq : Folded!Tokens(seq) = Tokens(seq)
    BY DEF Folded!Tokens, Tokens, Folded!FoldLeft, FoldLeft,
           Folded!MapThenFoldSet, MapThenFoldSet, Folded!Max, Max
<1>2. \A seq, S : Folded!Only(seq, S) = Only(seq, S)
    BY DEF Folded!Only, Only, Folded!FoldLeft, FoldLeft,
           Folded!MapThenFoldSet, MapThenFoldSet, Folded!Max, Max
<1> QED
    BY <1>1, <1>2

(* What they assume of the constants.                                      *)
LEMMA FoldedAssumptions == Folded!SampleAssumption /\ Folded!RolloutAssumption
<1>1. Folded!SampleAssumption
    BY SampleAssumption DEF SampleAssumption, Folded!SampleAssumption
<1>2. Folded!IsFiniteSet({0})
    <2>1. IsFiniteSet({0})
        BY FS_Singleton
    <2> QED
        BY <2>1 DEF IsFiniteSet, Folded!IsFiniteSet
<1>3. {0} # {} /\ 1 \in Nat \ {0} /\ {} \subseteq Nat /\ {} \subseteq Seq(Nat \cup {Blank})
    OBVIOUS
<1>4. Folded!RolloutAssumption
    BY <1>2, <1>3 DEF Folded!RolloutAssumption
<1> QED
    BY <1>1, <1>4

(* One more segment in a count of tokens.                                  *)
LEMMA TokensAppend ==
    ASSUME NEW A, NEW seq \in Seq(A), NEW x \in A, \A y \in A : y.n \in Nat
    PROVE  Tokens(seq) \in Nat /\ Tokens(Append(seq, x)) = Tokens(seq) + x.n
<1> DEFINE more == Append(seq, x)
<1>1. /\ Len(more) = Len(seq) + 1 /\ more[Len(more)] = x /\ more \in Seq(A)
      /\ \A k \in 1..Len(seq) : more[k].n = seq[k].n
    OBVIOUS
<1> HIDE DEF more
<1>2. ASSUME NEW any \in Seq(A)
      PROVE  Folded!Summable(any)
    <2>1. /\ Len(any) \in Nat /\ DOMAIN any = 1..Len(any)
          /\ \A k \in 1..Len(any) : any[k] \in A
        OBVIOUS
    <2> QED
        BY <2>1 DEF Folded!Summable
<1>3. Folded!Tokens(seq) \in Nat /\ Folded!Tokens(more) = Folded!Tokens(seq) + more[Len(more)].n
    BY <1>1, <1>2, Folded!TokensAppend, FoldedAssumptions
       DEF Folded!SampleAssumption, Folded!RolloutAssumption
<1> QED
    BY <1>1, <1>3, SameFolds DEF more

(* One more element in a selection.                                        *)
LEMMA OnlyAppend ==
    ASSUME NEW A, NEW seq \in Seq(A), NEW x \in A, NEW S
    PROVE  /\ Only(seq, S) \in Seq(A)
           /\ Only(Append(seq, x), S) = IF x \in S THEN Append(Only(seq, S), x) ELSE Only(seq, S)
<1>1. Folded!Only(seq, S) \in Seq(A)
    BY Folded!OnlyAppend, FoldedAssumptions
       DEF Folded!SampleAssumption, Folded!RolloutAssumption
<1>2. Folded!Only(Append(seq, x), S) = IF x \in S THEN Append(Folded!Only(seq, S), x)
                                       ELSE Folded!Only(seq, S)
    BY Folded!OnlyAppend, FoldedAssumptions
       DEF Folded!SampleAssumption, Folded!RolloutAssumption
<1> QED
    BY <1>1, <1>2, SameFolds

(* No segments.                                                            *)
LEMMA FoldsOfEmpty == Tokens(<< >>) = 0 /\ \A S : Only(<< >>, S) = << >>
BY Folded!FoldsOfEmpty, SameFolds, FoldedAssumptions
   DEF Folded!SampleAssumption, Folded!RolloutAssumption

(* Every nonempty set of natural numbers has a Min.                        *)
LEMMA MinOfNat ==
    ASSUME NEW T \in SUBSET Nat, T # {}
    PROVE  Min(T) \in T /\ \A n \in T : Min(T) <= n
<1>1. Folded!Min(T) \in T /\ \A n \in T : Folded!Min(T) <= n
    BY Folded!MinOfNat, FoldedAssumptions
       DEF Folded!SampleAssumption, Folded!RolloutAssumption
<1>2. Folded!Min(T) = Min(T)
    BY DEF Folded!Min, Min
<1> QED
    BY <1>1, <1>2

(* The Min and the Max of two numbers.                                     *)
LEMMA MinMaxOfTwo ==
    ASSUME NEW m \in Int, NEW n \in Int
    PROVE  /\ Min({m, n}) \in Int /\ Min({m, n}) <= m /\ Min({m, n}) <= n
           /\ Min({m, n}) \in {m, n}
           /\ Max({m, n}) \in Int /\ Max({m, n}) >= m /\ Max({m, n}) >= n
           /\ Max({m, n}) \in {m, n}
<1>1. \E least \in {m, n} : \A k \in {m, n} : least <= k
    OBVIOUS
<1>2. \E most \in {m, n} : \A k \in {m, n} : most >= k
    OBVIOUS
<1>3. Min({m, n}) \in {m, n} /\ \A k \in {m, n} : Min({m, n}) <= k
    BY <1>1 DEF Min
<1>4. Max({m, n}) \in {m, n} /\ \A k \in {m, n} : Max({m, n}) >= k
    BY <1>2 DEF Max
<1> QED
    BY <1>3, <1>4

-----------------------------------------------------------------------------
(* Types, and what the operations on a sample change.                      *)

Segment == [by : {"model", "env"}, n : Nat, ending : Endings]

Reply == Nat \cup {Blank}

SampleType ==
    [ id               : Places,
      ctx              : Nat,
      response         : Seq(Segment),
      n_model_tokens   : Nat,
      n_env_calls      : Nat,
      finished         : BOOLEAN,
      env_replies      : Seq(Reply),
      env_replies_used : Seq(Reply) ]

(* The counters of a sample agree with its response.                       *)
Counted(s, len) ==
    /\ s.n_model_tokens = Tokens(SegmentsBy(s, "model"))
    /\ s.ctx = len + Tokens(s.response)

(* The fields of a segment.                                                *)
LEMMA SegmentFields ==
    ASSUME NEW seg \in Segment
    PROVE  /\ seg.n \in Nat /\ seg.by \in {"model", "env"} /\ seg.ending \in Endings
           /\ seg = [by |-> seg.by, n |-> seg.n, ending |-> seg.ending]
BY DEF Segment

(* One more segment in the counters.                                       *)
LEMMA OneMoreSegment ==
    ASSUME NEW s, s.response \in Seq(Segment), NEW seg \in Segment,
           NEW t, t.response = Append(s.response, seg)
    PROVE  /\ Tokens(s.response) \in Nat
           /\ Tokens(t.response) = Tokens(s.response) + seg.n
           /\ Tokens(SegmentsBy(s, "model")) \in Nat
           /\ Tokens(SegmentsBy(t, "model")) = Tokens(SegmentsBy(s, "model"))
                                                  + (IF seg.by = "model" THEN seg.n ELSE 0)
<1>1. ASSUME NEW seq \in Seq(Segment)
      PROVE  Tokens(seq) \in Nat /\ Tokens(Append(seq, seg)) = Tokens(seq) + seg.n
    BY TokensAppend, SegmentFields
<1>2. seg.n \in Nat
    BY SegmentFields
<1> DEFINE S == [by : {"model"}, n : Nat, ending : Endings]
           seq == s.response
           own == SegmentsBy(s, "model")
<1>3. seg \in S <=> seg.by = "model"
    <2>1. seg \in S => seg.by = "model"
        OBVIOUS
    <2>2. ASSUME seg.by = "model"
          PROVE  [by |-> seg.by, n |-> seg.n, ending |-> seg.ending] \in S
        BY <2>2, SegmentFields
    <2> QED
        BY <2>1, <2>2, SegmentFields
<1>4. own = Only(seq, S) /\ SegmentsBy(t, "model") = Only(t.response, S)
    BY DEF SegmentsBy
<1>5. seq \in Seq(Segment) /\ t.response = Append(seq, seg)
    OBVIOUS
<1> HIDE DEF S, seq, own
<1>6. Only(seq, S) \in Seq(Segment)
    BY <1>5, OnlyAppend
<1>7. Only(Append(seq, seg), S) = IF seg \in S THEN Append(Only(seq, S), seg) ELSE Only(seq, S)
    BY <1>5, OnlyAppend
<1>8. own \in Seq(Segment) /\ SegmentsBy(t, "model") = IF seg.by = "model" THEN Append(own, seg) ELSE own
    BY <1>3, <1>4, <1>5, <1>6, <1>7
<1>9. Tokens(own) \in Nat /\ Tokens(Append(own, seg)) = Tokens(own) + seg.n
    BY <1>1, <1>8
<1>10. Tokens(seq) \in Nat /\ Tokens(Append(seq, seg)) = Tokens(seq) + seg.n
    BY <1>1, <1>5
<1>11. Tokens(seq) \in Nat /\ Tokens(t.response) = Tokens(seq) + seg.n
    BY <1>5, <1>10
<1>12. Tokens(SegmentsBy(t, "model")) = Tokens(own) + (IF seg.by = "model" THEN seg.n ELSE 0)
    <2>1. CASE seg.by = "model"
        BY <1>8, <1>9, <2>1
    <2>2. CASE seg.by # "model"
        BY <1>8, <1>9, <2>2
    <2> QED
        BY <2>1, <2>2
<1> QED
    BY <1>9, <1>11, <1>12 DEF seq, own

(* Tokens of the model are one more segment, and counted.                  *)
LEMMA AppendModelChanges ==
    ASSUME NEW s \in SampleType, NEW n \in Nat, NEW ending \in Endings
    PROVE  LET t   == AppendModel(s, n, ending)
               seg == [by |-> "model", n |-> n, ending |-> ending]
           IN /\ t \in SampleType
              /\ seg \in Segment /\ t.response = Append(s.response, seg)
              /\ t.n_model_tokens = s.n_model_tokens + n
              /\ t.n_env_calls = s.n_env_calls /\ t.finished = s.finished
              /\ \A len \in Nat : Counted(s, len) => Counted(t, len)
<1> DEFINE seg == [by |-> "model", n |-> n, ending |-> ending]
<1>1. seg \in Segment /\ seg.by = "model" /\ seg.n = n
    BY DEF Segment
<1>2. AppendModel(s, n, ending) = [s EXCEPT !.ctx = @ + n, !.response = Append(@, seg),
                                            !.n_model_tokens = @ + n]
    BY DEF AppendModel
<1> HIDE DEF seg
<1>3. s.response \in Seq(Segment) /\ Append(s.response, seg) \in Seq(Segment)
    BY <1>1 DEF SampleType
<1> DEFINE t == [s EXCEPT !.ctx = @ + n, !.response = Append(@, seg), !.n_model_tokens = @ + n]
<1>4. t.response = Append(s.response, seg) /\ t.ctx = s.ctx + n
    BY DEF SampleType
<1>5. t.n_model_tokens = s.n_model_tokens + n /\ t.n_env_calls = s.n_env_calls
    BY DEF SampleType
<1>6. t.finished = s.finished
    BY DEF SampleType
<1>7. t \in SampleType
    <2>1. ASSUME NEW ctx \in Nat, NEW response \in Seq(Segment), NEW m \in Nat
          PROVE  [s EXCEPT !.ctx = ctx, !.response = response, !.n_model_tokens = m] \in SampleType
        BY DEF SampleType
    <2>2. s.ctx + n \in Nat /\ s.n_model_tokens + n \in Nat
        BY DEF SampleType
    <2> QED
        BY <1>3, <2>1, <2>2
<1> HIDE DEF t
<1>8. ASSUME NEW len \in Nat, Counted(s, len)
      PROVE  Counted(t, len)
    <2>1. /\ Tokens(s.response) \in Nat /\ Tokens(t.response) = Tokens(s.response) + n
          /\ Tokens(SegmentsBy(t, "model")) = Tokens(SegmentsBy(s, "model")) + n
        BY <1>1, <1>3, <1>4, OneMoreSegment
    <2> QED
        BY <1>4, <1>5, <1>8, <2>1 DEF Counted
<1>9. AppendModel(s, n, ending) = t
    BY <1>2 DEF t
<1> QED
    BY <1>1, <1>4, <1>5, <1>6, <1>7, <1>8, <1>9 DEF seg

(* Finishing a sample changes nothing else.                                *)
LEMMA FinishChanges ==
    ASSUME NEW s \in SampleType
    PROVE  LET t == Finish(s) IN
           /\ t \in SampleType
           /\ t.response = s.response /\ t.n_model_tokens = s.n_model_tokens
           /\ t.n_env_calls = s.n_env_calls
           /\ \A len : Counted(s, len) => Counted(t, len)
<1> DEFINE t == Finish(s)
<1>1. t \in SampleType
    BY DEF Finish, SampleType
<1>2. t.response = s.response /\ t.n_model_tokens = s.n_model_tokens
    BY DEF Finish, SampleType
<1>3. t.n_env_calls = s.n_env_calls /\ t.ctx = s.ctx
    BY DEF Finish, SampleType
<1> HIDE DEF t
<1>4. \A len : Counted(s, len) => Counted(t, len)
    BY <1>2, <1>3 DEF Counted, SegmentsBy
<1> QED
    BY <1>1, <1>2, <1>3, <1>4 DEF t

(* A call of the environment is counted, and adds at most a segment that   *)
(* is not the model's.                                                     *)
LEMMA CallEnvChanges ==
    ASSUME NEW s \in SampleType
    PROVE  LET t == CallEnv(s) IN
           /\ t \in SampleType
           /\ t.n_model_tokens = s.n_model_tokens
           /\ t.n_env_calls = s.n_env_calls + 1
           /\ \/ t.response = s.response
              \/ \E n \in Nat : t.response = Append(s.response, [by |-> "env", n |-> n, ending |-> "none"])
           /\ \A len \in Nat : Counted(s, len) => Counted(t, len)
<1> DEFINE called == [s EXCEPT !.n_env_calls = @ + 1]
           reply  == NextReply(called)[1]
           popped == NextReply(called)[2]
           used   == [popped EXCEPT !.env_replies_used = Append(@, reply)]
           spoken == AppendEnv(used, reply)
           heard  == IF reply = Blank THEN Finish(popped)
                     ELSE IF reply = 0 THEN used
                     ELSE spoken
           Kept(x) == /\ x \in SampleType
                      /\ x.n_env_calls = s.n_env_calls + 1
                      /\ x.n_model_tokens = s.n_model_tokens
           Silent(x) == x.ctx = s.ctx /\ x.response = s.response
           Same(x) == Kept(x) /\ Silent(x)
           seg == [by |-> "env", n |-> reply, ending |-> "none"]
<1>1. CallEnv(s) = IF heard.n_env_calls >= MaxEnvCalls THEN Finish(heard) ELSE heard
    BY DEF CallEnv
<1>2. Same(called) /\ called.env_replies = s.env_replies
    <2>1. called \in SampleType
        <3>1. ASSUME NEW n \in Nat
              PROVE  [s EXCEPT !.n_env_calls = n] \in SampleType
            BY DEF SampleType
        <3>2. s.n_env_calls + 1 \in Nat
            BY DEF SampleType
        <3> QED
            BY <3>1, <3>2
    <2>2. called.n_env_calls = s.n_env_calls + 1 /\ called.n_model_tokens = s.n_model_tokens
        BY DEF SampleType
    <2>3. Silent(called)
        BY DEF SampleType
    <2>4. called.env_replies = s.env_replies
        BY DEF SampleType
    <2> QED
        BY <2>1, <2>2, <2>3, <2>4
<1>3. reply \in Reply /\ Same(popped)
    <2> HIDE DEF called
    <2>1. CASE called.env_replies = << >>
        <3>1. reply = Blank /\ popped = called
            BY <2>1 DEF NextReply
        <3> QED
            BY <1>2, <3>1 DEF Reply
    <2>2. CASE called.env_replies # << >>
        <3>1. reply = Head(called.env_replies)
            BY <2>2 DEF NextReply
        <3>2. popped = [called EXCEPT !.env_replies = Tail(called.env_replies)]
            BY <2>2 DEF NextReply
        <3>3. called.env_replies \in Seq(Reply)
            BY <1>2 DEF SampleType
        <3>4. Head(called.env_replies) \in Reply /\ Tail(called.env_replies) \in Seq(Reply)
            BY <2>2, <3>3
        <3>5. ASSUME NEW rest \in Seq(Reply)
              PROVE  Same([called EXCEPT !.env_replies = rest])
            BY <1>2 DEF SampleType
        <3> QED
            BY <3>1, <3>2, <3>4, <3>5
    <2> QED
        BY <2>1, <2>2
<1> HIDE DEF called, reply, popped
<1>4. Same(used)
    <2>1. popped.env_replies_used \in Seq(Reply)
        BY <1>3 DEF SampleType
    <2>2. Append(popped.env_replies_used, reply) \in Seq(Reply)
        BY <1>3, <2>1
    <2>3. ASSUME NEW replies \in Seq(Reply)
          PROVE  Same([popped EXCEPT !.env_replies_used = replies])
        BY <1>3 DEF SampleType
    <2> QED
        BY <2>2, <2>3
<1> HIDE DEF used
<1>5. Same(Finish(popped))
    <2>1. Finish(popped) \in SampleType
        BY <1>3, FinishChanges
    <2>2. Finish(popped).ctx = popped.ctx
        BY <1>3 DEF Finish, SampleType
    <2> QED
        BY <1>3, <2>1, <2>2, FinishChanges
<1>6. reply \in Nat => /\ Kept(spoken) /\ seg \in Segment /\ seg.by = "env" /\ seg.n = reply
                       /\ spoken.ctx = s.ctx + reply /\ spoken.response = Append(s.response, seg)
    <2> SUFFICES ASSUME reply \in Nat
                 PROVE  /\ Kept(spoken) /\ seg \in Segment /\ seg.by = "env" /\ seg.n = reply
                        /\ spoken.ctx = s.ctx + reply /\ spoken.response = Append(s.response, seg)
        OBVIOUS
    <2>1. seg \in Segment /\ seg.by = "env" /\ seg.n = reply
        BY DEF Segment, Endings
    <2>2. spoken = [used EXCEPT !.ctx = @ + reply, !.response = Append(@, seg)]
        BY DEF AppendEnv
    <2> HIDE DEF seg, spoken
    <2>3. /\ used.ctx + reply \in Nat
          /\ used.response \in Seq(Segment) /\ Append(used.response, seg) \in Seq(Segment)
        BY <1>4, <2>1 DEF SampleType
    <2>4. ASSUME NEW ctx \in Nat, NEW response \in Seq(Segment)
          PROVE  LET t == [used EXCEPT !.ctx = ctx, !.response = response] IN
                 t \in SampleType /\ t.ctx = ctx /\ t.response = response
        BY <1>4 DEF SampleType
    <2>5. /\ spoken.n_env_calls = used.n_env_calls
          /\ spoken.n_model_tokens = used.n_model_tokens
        BY <1>4, <2>2 DEF SampleType
    <2>6. /\ spoken \in SampleType /\ spoken.ctx = used.ctx + reply
          /\ spoken.response = Append(used.response, seg)
        BY <2>2, <2>3, <2>4
    <2> QED
        BY <1>4, <2>1, <2>5, <2>6
<1> HIDE DEF spoken, seg
<1>7. /\ Kept(heard)
      /\ \/ Silent(heard)
         \/ /\ reply \in Nat /\ heard.ctx = s.ctx + reply
            /\ heard.response = Append(s.response, seg)
    <2>1. CASE reply = Blank
        BY <1>5, <2>1
    <2>2. CASE reply # Blank /\ reply = 0
        BY <1>4, <2>2
    <2>3. CASE reply # Blank /\ reply # 0
        BY <1>3, <1>6, <2>3 DEF Reply
    <2> QED
        BY <2>1, <2>2, <2>3
<1> HIDE DEF heard
<1>8. /\ Kept(CallEnv(s)) /\ CallEnv(s).response = heard.response
      /\ \A len \in Nat : Counted(heard, len) => Counted(CallEnv(s), len)
    BY <1>1, <1>7, FinishChanges
<1>9. ASSUME NEW len \in Nat, Counted(s, len)
      PROVE  Counted(heard, len)
    <2>1. CASE Silent(heard)
        BY <1>7, <1>9, <2>1 DEF Counted, SegmentsBy
    <2>2. CASE ~ Silent(heard)
        <3>1. /\ s.response \in Seq(Segment) /\ seg \in Segment /\ seg.by = "env" /\ seg.n = reply
              /\ reply \in Nat /\ heard.ctx = s.ctx + reply /\ heard.response = Append(s.response, seg)
            BY <1>6, <1>7, <2>2 DEF SampleType
        <3>2. /\ Tokens(s.response) \in Nat /\ Tokens(heard.response) = Tokens(s.response) + seg.n
              /\ Tokens(SegmentsBy(s, "model")) \in Nat
              /\ Tokens(SegmentsBy(heard, "model")) = Tokens(SegmentsBy(s, "model"))
            <4>1. /\ Tokens(s.response) \in Nat /\ Tokens(heard.response) = Tokens(s.response) + seg.n
                  /\ Tokens(SegmentsBy(s, "model")) \in Nat
                  /\ Tokens(SegmentsBy(heard, "model")) = Tokens(SegmentsBy(s, "model"))
                                                            + (IF seg.by = "model" THEN seg.n ELSE 0)
                BY <3>1, OneMoreSegment
            <4> QED
                BY <3>1, <4>1
        <3> QED
            BY <1>7, <1>9, <3>1, <3>2 DEF Counted
    <2> QED
        BY <2>1, <2>2
<1> QED
    BY <1>7, <1>8, <1>9 DEF seg

-----------------------------------------------------------------------------
(* The inductive invariant.                                                *)

PhaseTypeOK ==
    /\ mode \in Modes
    /\ prompts \in [Places -> [len : PromptLens, queue : Queues]]
    /\ states \in [Places -> SampleType]
    /\ in_thinking \in [Places -> BOOLEAN]
    /\ pc \in {"thinking", "answer", "done", "raised", "rejected"}
    /\ pending \in SUBSET Places
    /\ roundTokens \in Nat

(* Only thoughts so far.                                                   *)
Open(s) ==
    \A k \in DOMAIN s.response :
        s.response[k].by = "model" /\ s.response[k].ending \in {"sep", "none"}

(* One of its segments closes the thinking.                                *)
Closed(s) ==
    \E j \in DOMAIN s.response :
        /\ s.response[j].ending = "close"
        /\ \A k \in DOMAIN s.response :
              /\ k < j => s.response[k].by = "model" /\ s.response[k].ending \in {"sep", "none"}
              /\ k > j => s.response[k].ending \in {"call", "none"}

(* What holds of a sample in both loops.                                   *)
Settled(s, len) ==
    /\ Counted(s, len)
    /\ s.response # << >> => s.n_model_tokens > 0
    /\ s.n_env_calls <= MaxEnvCalls

(* What holds of one that thinks, and of one that has thought.             *)
IsThinking(s) == Open(s) /\ ~ s.finished /\ s.n_model_tokens <= ThinkingBudget

HasThought(s, closing) ==
    /\ Closed(s)
    /\ s.n_model_tokens <= (IF closing THEN ThinkingBudget + 1 ELSE TotalBudget)

SamplesSettled == \A i \in Places : Settled(states[i], prompts[i].len)

Thoughts ==
    mode = "tts" =>
        \A i \in Places :
            IF in_thinking[i] THEN pc \in {"thinking", "rejected"} /\ IsThinking(states[i])
            ELSE HasThought(states[i], pc = "thinking")

Rounds ==
    mode # "tts" => pc # "thinking" /\ \A i \in Places : states[i].n_model_tokens <= MaxModelTokens

(* What is to be processed was active when the round began.                *)
PendingIsActive ==
    pending # {} => pc \in {"thinking", "answer"} /\ pending \subseteq ActivePlaces

PhaseInv ==
    PhaseTypeOK /\ SamplesSettled /\ Thoughts /\ Rounds /\ PendingIsActive /\ FailuresOfModes

-----------------------------------------------------------------------------
(* What an output does to a sample.                                        *)

(* How one more segment leaves the thinking of a sample.                   *)
LEMMA ThinkingAppend ==
    ASSUME NEW s, s.response \in Seq(Segment), NEW seg \in Segment,
           NEW t, t.response = Append(s.response, seg)
    PROVE  /\ Open(s) /\ seg.by = "model" /\ seg.ending \in {"sep", "none"} => Open(t)
           /\ Open(s) /\ seg.ending = "close" => Closed(t)
           /\ Closed(s) /\ seg.ending \in {"call", "none"} => Closed(t)
<1> DEFINE n == Len(s.response)
<1>1. /\ n \in Nat /\ DOMAIN s.response = 1..n /\ DOMAIN t.response = 1..(n + 1)
      /\ t.response[n + 1] = seg
      /\ \A k \in 1..n : t.response[k] = s.response[k]
    OBVIOUS
<1> HIDE DEF n
<1>2. \A k \in 1..(n + 1) : k = n + 1 \/ k \in 1..n
    BY <1>1
<1>3. ASSUME Open(s), seg.by = "model", seg.ending \in {"sep", "none"}
      PROVE  Open(t)
    BY <1>1, <1>2, <1>3 DEF Open
<1>4. ASSUME Open(s), seg.ending = "close"
      PROVE  Closed(t)
    <2>1. n + 1 \in DOMAIN t.response
        BY <1>1
    <2>2. ASSUME NEW k \in DOMAIN t.response
          PROVE  /\ k < n + 1 => t.response[k].by = "model" /\ t.response[k].ending \in {"sep", "none"}
                 /\ ~ (k > n + 1)
        BY <1>1, <1>2, <1>4 DEF Open
    <2> QED
        BY <1>1, <1>4, <2>1, <2>2 DEF Closed
<1>5. ASSUME Closed(s), seg.ending \in {"call", "none"}
      PROVE  Closed(t)
    <2>1. PICK j \in 1..n :
             /\ s.response[j].ending = "close"
             /\ \A k \in 1..n :
                   /\ k < j => s.response[k].by = "model" /\ s.response[k].ending \in {"sep", "none"}
                   /\ k > j => s.response[k].ending \in {"call", "none"}
        BY <1>1, <1>5 DEF Closed
    <2>2. j \in DOMAIN t.response /\ t.response[j].ending = "close"
        BY <1>1, <2>1
    <2>3. ASSUME NEW k \in DOMAIN t.response
          PROVE  /\ k < j => t.response[k].by = "model" /\ t.response[k].ending \in {"sep", "none"}
                 /\ k > j => t.response[k].ending \in {"call", "none"}
        BY <1>1, <1>2, <1>5, <2>1
    <2> QED
        BY <2>2, <2>3 DEF Closed
<1> QED
    BY <1>3, <1>4, <1>5

(* Clipping leaves an output that fits.                                    *)
LEMMA ClipFits ==
    ASSUME NEW out, out.n \in Nat, NEW remaining \in Nat
    PROVE  /\ Clip(out, remaining).n \in Nat /\ Clip(out, remaining).n <= remaining
           /\ Clip(out, remaining).ending \in {out.ending, "none"}
BY DEF Clip

(* A longer response.                                                      *)
LEMMA AppendModelSettled ==
    ASSUME NEW s \in SampleType, NEW n \in Nat \ {0}, NEW ending \in Endings,
           NEW len \in Nat, Settled(s, len)
    PROVE  LET t == AppendModel(s, n, ending) IN
           /\ t \in SampleType /\ Settled(t, len)
           /\ t.n_model_tokens = s.n_model_tokens + n
           /\ t.n_env_calls = s.n_env_calls /\ t.finished = s.finished
           /\ Open(s) /\ ending \in {"sep", "none"} => Open(t)
           /\ Open(s) /\ ending = "close" => Closed(t)
           /\ Closed(s) /\ ending \in {"call", "none"} => Closed(t)
<1> DEFINE t == AppendModel(s, n, ending)
           seg == [by |-> "model", n |-> n, ending |-> ending]
<1>1. /\ t \in SampleType
      /\ seg \in Segment /\ t.response = Append(s.response, seg)
      /\ t.n_model_tokens = s.n_model_tokens + n
      /\ t.n_env_calls = s.n_env_calls /\ t.finished = s.finished
      /\ Counted(t, len)
    BY AppendModelChanges DEF Settled
<1>2. seg.by = "model" /\ seg.ending = ending
    OBVIOUS
<1> HIDE DEF t, seg
<1>3. s.response \in Seq(Segment) /\ s.n_model_tokens \in Nat
    BY DEF SampleType
<1>4. /\ Open(s) /\ ending \in {"sep", "none"} => Open(t)
      /\ Open(s) /\ ending = "close" => Closed(t)
      /\ Closed(s) /\ ending \in {"call", "none"} => Closed(t)
    BY <1>1, <1>2, <1>3, ThinkingAppend
<1>5. Settled(t, len)
    BY <1>1, <1>3 DEF Settled
<1> QED
    BY <1>1, <1>4, <1>5 DEF t

(* Thinking is closed with a token that may exceed the thinking budget.    *)
LEMMA ForceCloseKeeps ==
    ASSUME NEW s \in SampleType, NEW len \in Nat, Settled(s, len),
           Open(s), s.n_model_tokens <= ThinkingBudget
    PROVE  /\ ForceClose(s) \in SampleType /\ Settled(ForceClose(s), len)
           /\ HasThought(ForceClose(s), TRUE)
<1> USE PhasedAssumption DEF PhasedAssumption
<1>1. "close" \in Endings /\ 1 \in Nat \ {0}
    BY DEF Endings
<1>2. /\ ForceClose(s) \in SampleType /\ Settled(ForceClose(s), len) /\ Closed(ForceClose(s))
      /\ ForceClose(s).n_model_tokens = s.n_model_tokens + 1
    BY <1>1, AppendModelSettled DEF ForceClose
<1>3. s.n_model_tokens \in Nat
    BY DEF SampleType
<1> QED
    BY <1>2, <1>3 DEF HasThought

(* A thought is within the thinking budget, but for a forced </T>, and     *)
(* either goes on or is closed.                                            *)
LEMMA ThinkKeeps ==
    ASSUME NEW s \in SampleType, IsThinking(s), s.n_model_tokens < ThinkingBudget,
           NEW len \in Nat, Settled(s, len),
           NEW out, out.n \in Nat, out.ending \in {"close", "none"}
    PROVE  LET thought == Think(s, out) IN
           /\ thought.sample \in SampleType /\ thought.goesOn \in BOOLEAN
           /\ Settled(thought.sample, len)
           /\ IF thought.goesOn THEN IsThinking(thought.sample) ELSE HasThought(thought.sample, TRUE)
<1> USE PhasedAssumption DEF PhasedAssumption
<1> DEFINE tokens == Clip(out, ThinkingBudget - s.n_model_tokens)
           Stops(x) == x \in SampleType /\ Settled(x, len) /\ HasThought(x, TRUE)
           GoesOn(x) == x \in SampleType /\ Settled(x, len) /\ IsThinking(x)
<1>1. s.n_model_tokens \in Nat /\ ThinkingBudget - s.n_model_tokens \in Nat
    BY DEF SampleType
<1>2. /\ tokens.n \in Nat /\ s.n_model_tokens + tokens.n <= ThinkingBudget
      /\ tokens.ending \in {"close", "none"}
    <2>1. /\ tokens.n \in Nat /\ tokens.n <= ThinkingBudget - s.n_model_tokens
          /\ tokens.ending \in {out.ending, "none"}
        BY <1>1, ClipFits
    <2> HIDE DEF tokens
    <2> QED
        BY <1>1, <2>1
<1>3. Think(s, out) =
          IF tokens.n = 0 THEN [sample |-> ForceClose(s), goesOn |-> FALSE]
          ELSE IF tokens.ending # "close"
          THEN [sample |-> ForceClose(AppendModel(s, tokens.n, tokens.ending)), goesOn |-> FALSE]
          ELSE IF s.n_model_tokens + tokens.n < ThinkingBudget
          THEN [sample |-> AppendModel(s, tokens.n, "sep"), goesOn |-> TRUE]
          ELSE [sample |-> AppendModel(s, tokens.n, "close"), goesOn |-> FALSE]
    BY DEF Think
<1> HIDE DEF tokens
<1>4. ASSUME NEW x \in SampleType, Settled(x, len), Open(x), x.n_model_tokens <= ThinkingBudget
      PROVE  Stops(ForceClose(x))
    BY <1>4, ForceCloseKeeps
<1>5. ASSUME tokens.n # 0, NEW ending \in {"sep", "close", "none"}
      PROVE  LET x == AppendModel(s, tokens.n, ending) IN
             /\ x \in SampleType /\ Settled(x, len)
             /\ x.n_model_tokens = s.n_model_tokens + tokens.n
             /\ x.finished = s.finished
             /\ IF ending = "close" THEN Closed(x) ELSE Open(x)
    <2>1. ending \in Endings /\ tokens.n \in Nat \ {0} /\ Open(s)
        BY <1>2, <1>5 DEF Endings, IsThinking
    <2> QED
        BY <2>1, AppendModelSettled
<1>6. ASSUME NEW x, Stops(x), Think(s, out) = [sample |-> x, goesOn |-> FALSE]
      PROVE  LET thought == Think(s, out) IN
             /\ thought.sample \in SampleType /\ thought.goesOn \in BOOLEAN
             /\ Settled(thought.sample, len)
             /\ IF thought.goesOn THEN IsThinking(thought.sample) ELSE HasThought(thought.sample, TRUE)
    <2> DEFINE thought == Think(s, out)
    <2>1. thought.sample = x
        BY <1>6
    <2>2. thought.goesOn = FALSE
        BY <1>6
    <2> HIDE DEF thought
    <2>3. thought.goesOn \in BOOLEAN /\ ~ thought.goesOn
        BY <2>2
    <2>4. thought.sample \in SampleType /\ Settled(thought.sample, len) /\ HasThought(thought.sample, TRUE)
        BY <1>6, <2>1
    <2> QED
        BY <2>3, <2>4 DEF thought
<1>7. CASE tokens.n = 0
    <2>1. Stops(ForceClose(s))
        BY <1>4 DEF IsThinking
    <2>2. Think(s, out) = [sample |-> ForceClose(s), goesOn |-> FALSE]
        BY <1>3, <1>7
    <2> QED
        BY <1>6, <2>1, <2>2
<1>8. CASE tokens.n # 0 /\ tokens.ending # "close"
    <2> DEFINE longer == AppendModel(s, tokens.n, tokens.ending)
    <2>1. /\ longer \in SampleType /\ Settled(longer, len) /\ Open(longer)
          /\ longer.n_model_tokens = s.n_model_tokens + tokens.n
        BY <1>2, <1>5, <1>8
    <2>2. Think(s, out) = [sample |-> ForceClose(longer), goesOn |-> FALSE]
        BY <1>3, <1>8
    <2> HIDE DEF longer
    <2>3. Stops(ForceClose(longer))
        BY <1>2, <1>4, <2>1
    <2> QED
        BY <1>6, <2>2, <2>3
<1>9. CASE tokens.n # 0 /\ tokens.ending = "close" /\ s.n_model_tokens + tokens.n < ThinkingBudget
    <2> DEFINE longer == AppendModel(s, tokens.n, "sep")
    <2>1. /\ longer \in SampleType /\ Settled(longer, len) /\ Open(longer)
          /\ longer.n_model_tokens = s.n_model_tokens + tokens.n
          /\ longer.finished = s.finished
        BY <1>5, <1>9
    <2>2. Think(s, out) = [sample |-> longer, goesOn |-> TRUE]
        BY <1>3, <1>9
    <2> HIDE DEF longer
    <2>3. GoesOn(longer)
        BY <1>2, <2>1 DEF IsThinking
    <2> QED
        BY <2>2, <2>3
<1>10. CASE /\ tokens.n # 0 /\ tokens.ending = "close"
           /\ ~ (s.n_model_tokens + tokens.n < ThinkingBudget)
    <2> DEFINE longer == AppendModel(s, tokens.n, "close")
    <2>1. /\ longer \in SampleType /\ Settled(longer, len) /\ Closed(longer)
          /\ longer.n_model_tokens = s.n_model_tokens + tokens.n
        BY <1>5, <1>10
    <2>2. Think(s, out) = [sample |-> longer, goesOn |-> FALSE]
        BY <1>3, <1>10
    <2> HIDE DEF longer
    <2>3. Stops(longer)
        BY <1>1, <1>2, <2>1 DEF HasThought
    <2> QED
        BY <1>6, <2>2, <2>3
<1> QED
    BY <1>7, <1>8, <1>9, <1>10

(* A sample t that followed s in a round with so many tokens at most.      *)
Follows(s, t, cap, len) ==
    /\ t \in SampleType /\ Settled(t, len)
    /\ t.n_model_tokens <= cap
    /\ Closed(s) => Closed(t)

(* The three ways a round leaves a sample.                                 *)
LEMMA RoundKeeps ==
    ASSUME NEW s \in SampleType, NEW len \in Nat, Settled(s, len), NEW cap \in Nat,
           s.n_env_calls < MaxEnvCalls, s.n_model_tokens <= cap
    PROVE  /\ Follows(s, Finish(s), cap, len)
           /\ \A n \in Nat \ {0} : s.n_model_tokens + n <= cap =>
                 /\ Follows(s, Finish(AppendModel(s, n, "none")), cap, len)
                 /\ Follows(s, CallEnv(AppendModel(s, n, "call")), cap, len)
<1> USE SampleAssumption DEF SampleAssumption
<1>1. ASSUME NEW x \in SampleType, Follows(s, x, cap, len)
      PROVE  Follows(s, Finish(x), cap, len)
    <2> DEFINE t == Finish(x)
    <2>1. /\ t \in SampleType /\ t.response = x.response /\ t.n_model_tokens = x.n_model_tokens
          /\ t.n_env_calls = x.n_env_calls /\ (Counted(x, len) => Counted(t, len))
        BY FinishChanges
    <2> HIDE DEF t
    <2>2. Settled(t, len)
        BY <1>1, <2>1 DEF Follows, Settled
    <2>3. Closed(x) => Closed(t)
        BY <2>1 DEF Closed
    <2> QED
        BY <1>1, <2>1, <2>2, <2>3 DEF Follows, t
<1>2. Follows(s, s, cap, len)
    BY DEF Follows
<1>3. ASSUME NEW n \in Nat \ {0}, s.n_model_tokens + n <= cap, NEW ending \in {"call", "none"}
      PROVE  LET x == AppendModel(s, n, ending) IN
             Follows(s, x, cap, len) /\ x.n_env_calls = s.n_env_calls
    <2>1. ending \in Endings
        BY DEF Endings
    <2> QED
        BY <1>3, <2>1, AppendModelSettled DEF Follows
<1>4. ASSUME NEW x \in SampleType, Follows(s, x, cap, len), x.n_env_calls = s.n_env_calls,
             x.n_model_tokens > 0
      PROVE  Follows(s, CallEnv(x), cap, len)
    <2> DEFINE t == CallEnv(x)
    <2>1. /\ t \in SampleType /\ t.n_model_tokens = x.n_model_tokens
          /\ t.n_env_calls = x.n_env_calls + 1
          /\ \/ t.response = x.response
             \/ \E n \in Nat : t.response = Append(x.response, [by |-> "env", n |-> n, ending |-> "none"])
          /\ Counted(x, len) => Counted(t, len)
        BY CallEnvChanges
    <2> HIDE DEF t
    <2>2. Settled(t, len)
        <3>1. s.n_env_calls \in Nat
            BY DEF SampleType
        <3> QED
            BY <1>4, <2>1, <3>1 DEF Follows, Settled
    <2>3. Closed(x) => Closed(t)
        <3>1. CASE t.response = x.response
            BY <3>1 DEF Closed
        <3>2. ASSUME NEW n \in Nat,
                     t.response = Append(x.response, [by |-> "env", n |-> n, ending |-> "none"])
              PROVE  Closed(x) => Closed(t)
            <4> DEFINE seg == [by |-> "env", n |-> n, ending |-> "none"]
            <4>1. seg \in Segment /\ seg.ending = "none" /\ x.response \in Seq(Segment)
                BY DEF Segment, Endings, SampleType
            <4>2. t.response = Append(x.response, seg)
                BY <3>2
            <4> HIDE DEF seg
            <4> QED
                BY <4>1, <4>2, ThinkingAppend
        <3> QED
            BY <2>1, <3>1, <3>2
    <2> QED
        BY <1>4, <2>1, <2>2, <2>3 DEF Follows, t
<1>5. ASSUME NEW n \in Nat \ {0}, s.n_model_tokens + n <= cap
      PROVE  /\ Follows(s, Finish(AppendModel(s, n, "none")), cap, len)
             /\ Follows(s, CallEnv(AppendModel(s, n, "call")), cap, len)
    <2> DEFINE said == AppendModel(s, n, "none")
               called == AppendModel(s, n, "call")
    <2>1. /\ Follows(s, said, cap, len)
          /\ Follows(s, called, cap, len) /\ called.n_env_calls = s.n_env_calls
        BY <1>3, <1>5
    <2>2. called.n_model_tokens > 0
        <3>1. called.n_model_tokens = s.n_model_tokens + n /\ s.n_model_tokens \in Nat
            <4>1. "call" \in Endings
                BY DEF Endings
            <4> QED
                BY <4>1, AppendModelSettled DEF SampleType
        <3> HIDE DEF called
        <3> QED
            BY <3>1
    <2> HIDE DEF said, called
    <2>3. said \in SampleType /\ called \in SampleType
        BY <2>1 DEF Follows
    <2> QED
        BY <1>1, <1>4, <2>1, <2>2, <2>3 DEF said, called
<1> QED
    BY <1>1, <1>2, <1>5

(* An answer, and a round without a stop token.                            *)
LEMMA AnswerKeeps ==
    ASSUME NEW s \in SampleType, NEW len \in Nat, Settled(s, len),
           s.n_env_calls < MaxEnvCalls, s.n_model_tokens < TotalBudget,
           NEW out, out.n \in Nat, out.ending \in {"call", "none"}
    PROVE  Follows(s, Tts!TakeTurn(s, out), TotalBudget, len)
<1> USE SampleAssumption, PhasedAssumption DEF SampleAssumption, PhasedAssumption
<1> DEFINE tokens == Clip(out, TotalBudget - s.n_model_tokens)
<1>1. TotalBudget \in Nat /\ s.n_model_tokens \in Nat /\ TotalBudget - s.n_model_tokens \in Nat
    BY DEF TotalBudget, SampleType
<1>2. Tts!TakeTurn(s, out) =
          IF tokens.n = 0 THEN Finish(s)
          ELSE IF tokens.ending = "call" THEN CallEnv(AppendModel(s, tokens.n, "call"))
          ELSE Finish(AppendModel(s, tokens.n, tokens.ending))
    <2>1. \A x : Tts!Finish(x) = Finish(x)
        BY DEF Tts!Finish, Finish
    <2>2. \A x, n, ending : Tts!AppendModel(x, n, ending) = AppendModel(x, n, ending)
        BY DEF Tts!AppendModel, AppendModel
    <2>3. \A x, n : Tts!AppendEnv(x, n) = AppendEnv(x, n)
        BY DEF Tts!AppendEnv, AppendEnv
    <2>4. \A x : Tts!NextReply(x) = NextReply(x)
        BY DEF Tts!NextReply, NextReply
    <2>5. \A x : Tts!CallEnv(x) = CallEnv(x)
        BY <2>1, <2>3, <2>4 DEF Tts!CallEnv, CallEnv
    <2>6. \A o, n : Tts!Clip(o, n) = Clip(o, n)
        BY DEF Tts!Clip, Clip
    <2> QED
        BY <2>1, <2>2, <2>5, <2>6 DEF Tts!TakeTurn
<1>3. /\ tokens.n \in Nat /\ tokens.n <= TotalBudget - s.n_model_tokens
      /\ tokens.ending \in {"call", "none"}
    BY <1>1, ClipFits
<1> HIDE DEF tokens
<1>4. s.n_model_tokens + tokens.n <= TotalBudget
    BY <1>1, <1>3
<1>5. CASE tokens.n = 0
    BY <1>1, <1>2, <1>5, RoundKeeps
<1>6. CASE tokens.n # 0
    <2>1. tokens.n \in Nat \ {0}
        BY <1>3, <1>6
    <2>2. /\ Follows(s, Finish(AppendModel(s, tokens.n, "none")), TotalBudget, len)
          /\ Follows(s, CallEnv(AppendModel(s, tokens.n, "call")), TotalBudget, len)
        BY <1>1, <1>4, <2>1, RoundKeeps
    <2> QED
        BY <1>2, <1>3, <1>6, <2>2
<1> QED
    BY <1>5, <1>6

(* A round of "nostop" stays in the budget, whatever move it is cut after.  *)
LEMMA PlayKeeps ==
    ASSUME NEW s \in SampleType, NEW len \in Nat, Settled(s, len),
           s.n_env_calls < MaxEnvCalls, s.n_model_tokens < MaxModelTokens,
           NEW out, out.n \in Nat, out.ending \in {"eos", "none"},
           NEW move \in 0..Body(Clip(out, MaxModelTokens - s.n_model_tokens))
    PROVE  Follows(s, PlayMove(s, Clip(out, MaxModelTokens - s.n_model_tokens), move),
                   MaxModelTokens, len)
<1> USE SampleAssumption DEF SampleAssumption
<1> DEFINE tokens == Clip(out, MaxModelTokens - s.n_model_tokens)
           body == Body(tokens)
<1>1. /\ MaxModelTokens \in Nat /\ s.n_model_tokens \in Nat
      /\ MaxModelTokens - s.n_model_tokens \in Nat
    BY DEF SampleType
<1>2. tokens.n \in Nat /\ tokens.n <= MaxModelTokens - s.n_model_tokens
    BY <1>1, ClipFits
<1>3. /\ body \in Int /\ body <= tokens.n /\ (tokens.n # 0 => body \in Nat)
      /\ move \in Nat /\ move <= body
    <2> HIDE DEF tokens
    <2>1. body = tokens.n \/ body = tokens.n - 1
        BY DEF Body
    <2> QED
        BY <1>2, <2>1 DEF tokens
<1>4. PlayMove(s, tokens, move) =
          IF tokens.n = 0 THEN Finish(s)
          ELSE IF body = 0 THEN Finish(AppendModel(s, tokens.n, "none"))
          ELSE IF move = 0 THEN Finish(AppendModel(s, body, "none"))
          ELSE CallEnv(AppendModel(s, move, "call"))
    BY DEF PlayMove
<1>5. ASSUME NEW n \in Nat \ {0}, n <= tokens.n
      PROVE  /\ Follows(s, Finish(AppendModel(s, n, "none")), MaxModelTokens, len)
             /\ Follows(s, CallEnv(AppendModel(s, n, "call")), MaxModelTokens, len)
    <2>1. s.n_model_tokens + n <= MaxModelTokens
        BY <1>1, <1>2, <1>5
    <2> QED
        BY <1>1, <2>1, RoundKeeps
<1>6. Follows(s, Finish(s), MaxModelTokens, len)
    BY <1>1, RoundKeeps
<1> HIDE DEF tokens, body
<1>7. CASE tokens.n = 0
    BY <1>4, <1>6, <1>7 DEF tokens
<1>8. CASE tokens.n # 0 /\ body = 0
    BY <1>2, <1>4, <1>5, <1>8 DEF tokens
<1>9. CASE tokens.n # 0 /\ body # 0 /\ move = 0
    BY <1>2, <1>3, <1>4, <1>5, <1>9 DEF tokens
<1>10. CASE tokens.n # 0 /\ body # 0 /\ move # 0
    <2>1. move \in Nat \ {0} /\ move <= tokens.n
        BY <1>2, <1>3, <1>10
    <2> QED
        BY <1>4, <1>5, <1>10, <2>1 DEF tokens
<1> QED
    BY <1>7, <1>8, <1>9, <1>10

-----------------------------------------------------------------------------
(* The steps.                                                              *)

(* The loops start with no token, and one in thinking for every sample.    *)
LEMMA PhaseInit == Init => PhaseInv
<1> SUFFICES ASSUME Init
             PROVE  PhaseInv
    OBVIOUS
<1> USE PhasedAssumption, SampleAssumption DEF PhasedAssumption, SampleAssumption
<1>1. ASSUME NEW i \in Places
      PROVE  prompts[i].len \in Nat /\ prompts[i].queue \in Seq(Reply)
    <2>1. prompts[i] \in [len : PromptLens, queue : Queues]
        BY DEF Init
    <2>2. prompts[i].len \in PromptLens /\ prompts[i].queue \in Queues
        BY <2>1
    <2>3. prompts[i].len \in Nat
        <3>1. MaxCtx \in Nat
            OBVIOUS
        <3>2. \A len \in PromptLens : len \in 0..MaxCtx
            OBVIOUS
        <3>3. \A len \in PromptLens : len \in Nat
            BY <3>1, <3>2
        <3> QED
            BY <2>2, <3>3
    <2>4. Queues \subseteq Seq(Reply)
        BY DEF Reply
    <2> QED
        BY <2>2, <2>3, <2>4
<1>2. ASSUME NEW i \in Places
      PROVE  /\ states[i] = NewSample(i, prompts[i].len, prompts[i].queue)
             /\ states[i] \in SampleType
             /\ Settled(states[i], prompts[i].len)
             /\ IsThinking(states[i]) /\ states[i].n_model_tokens = 0
    <2> DEFINE s == NewSample(i, prompts[i].len, prompts[i].queue)
    <2>1. states[i] = s
        BY DEF Init
    <2>2. s \in SampleType
        BY <1>1 DEF NewSample, SampleType
    <2>3. s.response = << >> /\ s.n_model_tokens = 0 /\ s.n_env_calls = 0
        BY DEF NewSample
    <2>4. s.ctx = prompts[i].len /\ s.finished = FALSE
        BY DEF NewSample
    <2> HIDE DEF s
    <2>5. Counted(s, prompts[i].len)
        <3>1. Tokens(s.response) = 0
            BY <2>3, FoldsOfEmpty
        <3>2. SegmentsBy(s, "model") = << >>
            BY <2>3, FoldsOfEmpty DEF SegmentsBy
        <3>3. Tokens(SegmentsBy(s, "model")) = 0
            BY <3>2, FoldsOfEmpty
        <3>4. s.ctx = prompts[i].len + Tokens(s.response)
            BY <1>1, <2>4, <3>1
        <3> QED
            BY <2>3, <3>3, <3>4 DEF Counted
    <2>6. Settled(s, prompts[i].len)
        BY <2>3, <2>5 DEF Settled
    <2>7. IsThinking(s)
        BY <2>3, <2>4 DEF IsThinking, Open
    <2> QED
        BY <2>1, <2>2, <2>3, <2>6, <2>7 DEF s
<1>3. \A i \in Places : in_thinking[i] = (mode = "tts")
    BY DEF Init
<1>4. PhaseTypeOK
    <2>1. states = [i \in Places |-> states[i]]
        BY DEF Init
    <2>2. states \in [Places -> SampleType]
        BY <1>2, <2>1
    <2>3. in_thinking \in [Places -> BOOLEAN]
        BY DEF Init
    <2> QED
        BY <2>2, <2>3 DEF Init, PhaseTypeOK
<1>5. SamplesSettled
    BY <1>2 DEF SamplesSettled
<1>6. Thoughts
    BY <1>2, <1>3 DEF Init, Thoughts
<1>7. Rounds
    BY <1>2 DEF Init, Rounds
<1>8. PendingIsActive /\ FailuresOfModes
    BY DEF Init, PendingIsActive, FailuresOfModes
<1> QED
    BY <1>4, <1>5, <1>6, <1>7, <1>8 DEF PhaseInv

(* A round is started with its active samples; it is rejected only where   *)
(* the context limit is not tested.                                        *)
LEMMA StartRoundStep == PhaseInv /\ StartRound => PhaseInv'
<1> SUFFICES ASSUME PhaseInv, StartRound
             PROVE  PhaseInv'
    OBVIOUS
<1> USE PhasedAssumption, SampleAssumption DEF PhasedAssumption, SampleAssumption, PhaseInv
<1>1. /\ UNCHANGED <<mode, prompts, states, in_thinking>>
      /\ pc \in {"thinking", "answer"} /\ ActivePlaces # {} /\ ActivePlaces \subseteq Places
    BY DEF StartRound, ActivePlaces
<1>2. CASE \E i \in ActivePlaces : states[i].ctx > MaxCtx
    <2>1. pc' = "rejected" /\ pending' = {} /\ roundTokens' = roundTokens
        BY <1>2 DEF StartRound
    <2>2. mode = "tts"
        <3> SUFFICES ASSUME mode # "tts"
                     PROVE  FALSE
            OBVIOUS
        <3>1. mode = "nostop" /\ pc = "answer"
            BY <1>1 DEF Rounds, PhaseTypeOK
        <3>2. PICK i \in ActivePlaces : states[i].ctx > MaxCtx
            BY <1>2
        <3>3. states[i].ctx < MaxCtx /\ states[i].ctx \in Nat
            BY <1>1, <3>1 DEF ActivePlaces, Answering, Active, PhaseTypeOK, SampleType
        <3> QED
            BY <3>2, <3>3
    <2>3. PhaseTypeOK'
        BY <1>1, <2>1 DEF PhaseTypeOK
    <2>4. SamplesSettled'
        BY <1>1 DEF SamplesSettled, Settled, Counted, SegmentsBy
    <2>5. Thoughts'
        <3>1. ASSUME NEW i \in Places, ~ in_thinking[i]
              PROVE  HasThought(states[i], FALSE)
            <4>1. HasThought(states[i], pc = "thinking") /\ states[i].n_model_tokens \in Nat
                BY <2>2, <3>1 DEF Thoughts, PhaseTypeOK, SampleType
            <4> QED
                BY <4>1 DEF HasThought, TotalBudget
        <3>2. ASSUME NEW i \in Places, in_thinking[i]
              PROVE  IsThinking(states[i])
            BY <2>2, <3>2 DEF Thoughts
        <3> QED
            BY <1>1, <2>1, <3>1, <3>2 DEF Thoughts, HasThought, IsThinking, Open, Closed, TotalBudget
    <2>6. Rounds'
        BY <1>1, <2>2 DEF Rounds
    <2>7. PendingIsActive' /\ FailuresOfModes'
        BY <1>1, <2>1, <2>2 DEF PendingIsActive, FailuresOfModes
    <2> QED
        BY <2>3, <2>4, <2>5, <2>6, <2>7
<1>3. CASE ~ \E i \in ActivePlaces : states[i].ctx > MaxCtx
    <2>1. pc' = pc /\ pending' = ActivePlaces /\ roundTokens' = NextRoundTokens
        BY <1>3 DEF StartRound
    <2>2. NextRoundTokens \in Nat
        <3>1. LeastUsed \in Nat
            <4> DEFINE T == {states[i].n_model_tokens : i \in ActivePlaces}
            <4>1. ASSUME NEW i \in ActivePlaces
                  PROVE  states[i].n_model_tokens \in Nat
                BY <1>1 DEF PhaseTypeOK, SampleType
            <4>2. T \in SUBSET Nat
                BY <4>1
            <4>3. T # {}
                <5>1. PICK i \in ActivePlaces : TRUE
                    BY <1>1
                <5>2. states[i].n_model_tokens \in T
                    OBVIOUS
                <5> QED
                    BY <5>2
            <4> HIDE DEF T
            <4>4. Min(T) \in Nat
                BY <4>2, <4>3, MinOfNat
            <4> QED
                BY <4>4 DEF T, LeastUsed
        <3>2. ASSUME NEW m \in Int
              PROVE  Max({m, 1}) \in Nat
            <4> DEFINE one == 1
            <4>1. one \in Int /\ one >= 0
                OBVIOUS
            <4> HIDE DEF one
            <4>2. Max({m, one}) \in Int /\ Max({m, one}) >= one
                BY <4>1, MinMaxOfTwo
            <4>3. Max({m, one}) \in Nat
                BY <4>1, <4>2
            <4> QED
                BY <4>3 DEF one
        <3>3. ASSUME NEW m \in Nat
              PROVE  Min({RoundMaxTokens, m}) \in Nat
            <4>1. RoundMaxTokens \in Int /\ m \in Int
                OBVIOUS
            <4>2. Min({RoundMaxTokens, m}) \in {RoundMaxTokens, m}
                BY <4>1, MinMaxOfTwo
            <4> QED
                BY <4>2
        <3>4. /\ ThinkingBudget - LeastUsed \in Int /\ TotalBudget - LeastUsed \in Int
              /\ MaxModelTokens - LeastUsed \in Int
            BY <3>1 DEF TotalBudget
        <3>5. /\ Max({ThinkingBudget - LeastUsed, 1}) \in Nat
              /\ Max({TotalBudget - LeastUsed, 1}) \in Nat
              /\ Min({RoundMaxTokens, Max({MaxModelTokens - LeastUsed, 1})}) \in Nat
            BY <3>2, <3>3, <3>4
        <3> QED
            BY <3>5 DEF NextRoundTokens
    <2>3. PhaseTypeOK'
        BY <1>1, <2>1, <2>2 DEF PhaseTypeOK
    <2>4. SamplesSettled'
        BY <1>1 DEF SamplesSettled, Settled, Counted, SegmentsBy
    <2>5. Thoughts' /\ Rounds'
        BY <1>1, <2>1 DEF Thoughts, Rounds, HasThought, IsThinking, Open, Closed, TotalBudget
    <2>6. ActivePlaces' = ActivePlaces
        BY <1>1, <2>1 DEF ActivePlaces, Thinking, Answering, Active, TotalBudget
    <2>7. PendingIsActive' /\ FailuresOfModes'
        BY <1>1, <2>1, <2>6 DEF PendingIsActive, FailuresOfModes
    <2> QED
        BY <2>3, <2>4, <2>5, <2>7
<1> QED
    BY <1>2, <1>3

(* What is generated has a length, and ends as it may.                     *)
LEMMA GeneratedFields ==
    ASSUME NEW s \in SampleType, roundTokens \in Nat, NEW endings, NEW out \in Generated(s, endings)
    PROVE  out.n \in Nat /\ out.ending \in endings \cup {"none"}
<1> USE SampleAssumption DEF SampleAssumption
<1>1. OutputLimit(s) \in Int
    <2>1. MaxCtx - s.ctx \in Int
        BY DEF SampleType
    <2> DEFINE room == MaxCtx - s.ctx
               one == 1
               most == Max({room, one})
    <2>2. room \in Int /\ one \in Int
        BY <2>1
    <2> HIDE DEF room, one
    <2>3. most \in Int
        BY <2>2, MinMaxOfTwo
    <2> HIDE DEF most
    <2>4. Min({roundTokens, most}) \in Int
        <3>1. roundTokens \in Int
            OBVIOUS
        <3> QED
            BY <2>3, <3>1, MinMaxOfTwo
    <2> QED
        BY <2>4 DEF OutputLimit, most, room, one
<1>2. CASE out = [n |-> 0, ending |-> "none"]
    BY <1>2
<1>3. CASE out \in [n : 1..OutputLimit(s), ending : endings]
    BY <1>1, <1>3
<1> QED
    BY <1>2, <1>3 DEF Generated

(* The step on the sample in turn leaves the others pending.               *)
LEMMA OthersArePending ==
    ASSUME PhaseTypeOK, PendingIsActive, NEW i \in Places,
           mode' = mode, pc' = pc, pending' = pending \ {i},
           \A j \in Places \ {i} : states'[j] = states[j] /\ in_thinking'[j] = in_thinking[j]
    PROVE  PendingIsActive'
<1>1. ASSUME NEW j \in pending'
      PROVE  j \in ActivePlaces'
    <2>1. j \in Places \ {i} /\ j \in ActivePlaces
        BY <1>1 DEF PendingIsActive, PhaseTypeOK
    <2>2. states'[j] = states[j] /\ in_thinking'[j] = in_thinking[j]
        BY <2>1
    <2> QED
        BY <2>1, <2>2 DEF ActivePlaces, Thinking, Answering, Active, TotalBudget
<1>2. pending' # {} => pc' \in {"thinking", "answer"}
    BY DEF PendingIsActive
<1> QED
    BY <1>1, <1>2 DEF PendingIsActive

(* A thought is processed: the sample goes on, or has thought.             *)
LEMMA ProcessThoughtStep == PhaseInv /\ ProcessThought => PhaseInv'
<1> SUFFICES ASSUME PhaseInv, ProcessThought
             PROVE  PhaseInv'
    OBVIOUS
<1> USE PhasedAssumption, SampleAssumption
        DEF PhasedAssumption, SampleAssumption, PhaseInv
<1> DEFINE i == Min(pending)
           s == states[i]
           len == prompts[i].len
<1>1. /\ pc = "thinking" /\ pending # {}
      /\ pending' = pending \ {i}
      /\ UNCHANGED <<mode, prompts, pc, roundTokens>>
    BY DEF ProcessThought
<1>2. i \in pending
    <2>1. pending \in SUBSET Nat
        BY DEF PhaseTypeOK
    <2> QED
        BY <1>1, <2>1, MinOfNat
<1>3. PICK out \in Generated(s, {"close", "none"}) :
         /\ states' = [states EXCEPT ![i] = Think(s, out).sample]
         /\ in_thinking' = [in_thinking EXCEPT ![i] = Think(s, out).goesOn]
    BY DEF ProcessThought
<1> DEFINE thought == Think(s, out)
<1>4. i \in Places /\ in_thinking[i] /\ s.n_model_tokens < ThinkingBudget
    BY <1>1, <1>2 DEF PendingIsActive, PhaseTypeOK, ActivePlaces, Thinking
<1>5. mode = "tts"
    BY <1>1 DEF Rounds
<1> HIDE DEF i
<1>6. s \in SampleType /\ len \in Nat /\ roundTokens \in Nat
    <2>1. prompts[i] \in [len : PromptLens, queue : Queues]
        BY <1>4 DEF PhaseTypeOK
    <2>2. PromptLens \subseteq Nat
        <3>1. \A n \in PromptLens : n \in 0..MaxCtx
            OBVIOUS
        <3> QED
            BY <3>1
    <2>3. len \in PromptLens
        BY <2>1
    <2> QED
        BY <1>4, <2>2, <2>3 DEF PhaseTypeOK
<1>7. Settled(s, len) /\ IsThinking(s)
    BY <1>4, <1>5 DEF SamplesSettled, Thoughts
<1>8. out.n \in Nat /\ out.ending \in {"close", "none"}
    <2>1. out.n \in Nat /\ out.ending \in {"close", "none"} \cup {"none"}
        BY <1>3, <1>6, GeneratedFields
    <2> QED
        BY <2>1
<1> HIDE DEF s, len
<1>9. /\ thought.sample \in SampleType /\ thought.goesOn \in BOOLEAN
      /\ Settled(thought.sample, len)
      /\ IF thought.goesOn THEN IsThinking(thought.sample) ELSE HasThought(thought.sample, TRUE)
    BY <1>4, <1>6, <1>7, <1>8, ThinkKeeps
<1> HIDE DEF thought
<1>10. /\ states' = [states EXCEPT ![i] = thought.sample]
       /\ in_thinking' = [in_thinking EXCEPT ![i] = thought.goesOn]
    BY <1>3 DEF thought
<1>11. /\ states'[i] = thought.sample /\ in_thinking'[i] = thought.goesOn
       /\ \A j \in Places \ {i} : states'[j] = states[j] /\ in_thinking'[j] = in_thinking[j]
    BY <1>4, <1>10 DEF PhaseTypeOK
<1>12. PhaseTypeOK'
    <2>1. states' \in [Places -> SampleType]
        BY <1>9, <1>10 DEF PhaseTypeOK
    <2>2. in_thinking' \in [Places -> BOOLEAN]
        BY <1>9, <1>10 DEF PhaseTypeOK
    <2> QED
        BY <1>1, <2>1, <2>2 DEF PhaseTypeOK
<1>13. SamplesSettled'
    <2>1. ASSUME NEW j \in Places
          PROVE  Settled(states'[j], prompts'[j].len)
        <3>1. CASE j = i
            BY <1>1, <1>9, <1>11, <3>1 DEF len
        <3>2. CASE j # i
            BY <1>1, <1>11, <3>2 DEF SamplesSettled
        <3> QED
            BY <3>1, <3>2
    <2> QED
        BY <2>1 DEF SamplesSettled, Settled, Counted, SegmentsBy
<1>14. Thoughts'
    <2>1. ASSUME NEW j \in Places
          PROVE  IF in_thinking'[j] THEN IsThinking(states'[j]) ELSE HasThought(states'[j], TRUE)
        <3>1. CASE j = i
            BY <1>9, <1>11, <3>1
        <3>2. CASE j # i
            BY <1>1, <1>5, <1>11, <3>2 DEF Thoughts
        <3> QED
            BY <3>1, <3>2
    <2> QED
        BY <1>1, <2>1 DEF Thoughts, IsThinking, HasThought, Open, Closed, TotalBudget
<1>15. Rounds' /\ FailuresOfModes'
    BY <1>1, <1>5 DEF Rounds, FailuresOfModes
<1>16. PendingIsActive'
    BY <1>1, <1>4, <1>11, OthersArePending
<1> QED
    BY <1>12, <1>13, <1>14, <1>15, <1>16

(* Where thinking goes on it has not been closed, and is closed now.       *)
LEMMA EndThinkingStep == PhaseInv /\ EndThinking => PhaseInv'
<1> SUFFICES ASSUME PhaseInv, EndThinking
             PROVE  PhaseInv'
    OBVIOUS
<1> USE PhasedAssumption, SampleAssumption
        DEF PhasedAssumption, SampleAssumption, PhaseInv
<1>1. /\ pc = "thinking" /\ pc' = "answer" /\ pending = {}
      /\ UNCHANGED <<mode, prompts, pending, roundTokens>>
    BY DEF EndThinking
<1>2. mode = "tts"
    BY <1>1 DEF Rounds
<1>3. ThinkingBudget + 1 <= TotalBudget
    BY DEF TotalBudget
<1>4. ASSUME NEW i \in Places
      PROVE  /\ states'[i] \in SampleType /\ Settled(states'[i], prompts[i].len)
             /\ HasThought(states'[i], FALSE)
             /\ ~ in_thinking'[i]
    <2> DEFINE s == states[i]
               len == prompts[i].len
    <2>1. /\ states'[i] = IF in_thinking[i] /\ ~ s.finished /\ ~ ClosedByItself(s)
                          THEN ForceClose(s) ELSE s
          /\ in_thinking'[i] = (in_thinking[i] /\ s.finished)
        BY DEF EndThinking
    <2>2. s \in SampleType /\ len \in Nat /\ Settled(s, len)
        <3>1. prompts[i] \in [len : PromptLens, queue : Queues]
            BY DEF PhaseTypeOK
        <3>2. PromptLens \subseteq Nat
            <4>1. \A n \in PromptLens : n \in 0..MaxCtx
                OBVIOUS
            <4> QED
                BY <4>1
        <3>3. len \in PromptLens
            BY <3>1
        <3> QED
            BY <3>2, <3>3 DEF PhaseTypeOK, SamplesSettled
    <2>3. /\ in_thinking[i] => IsThinking(s)
          /\ ~ in_thinking[i] => HasThought(s, TRUE)
        BY <1>1, <1>2 DEF Thoughts
    <2> HIDE DEF s, len
    <2>4. CASE in_thinking[i]
        <3>1. ~ ClosedByItself(s)
            <4>1. ASSUME s.response # << >>
                  PROVE  Len(s.response) \in DOMAIN s.response
                <5>1. s.response \in Seq(Segment)
                    BY <2>2 DEF SampleType
                <5> QED
                    BY <4>1, <5>1
            <4> QED
                BY <2>3, <2>4, <4>1 DEF ClosedByItself, IsThinking, Open, Last
        <3>2. states'[i] = ForceClose(s) /\ ~ in_thinking'[i]
            BY <2>1, <2>3, <2>4, <3>1 DEF IsThinking
        <3>3. /\ ForceClose(s) \in SampleType /\ Settled(ForceClose(s), len)
              /\ HasThought(ForceClose(s), TRUE)
            BY <2>2, <2>3, <2>4, ForceCloseKeeps DEF IsThinking
        <3>4. HasThought(ForceClose(s), FALSE)
            <4>1. ForceClose(s).n_model_tokens \in Nat /\ TotalBudget \in Nat
                BY <3>3 DEF SampleType, TotalBudget
            <4> QED
                BY <1>3, <3>3, <4>1 DEF HasThought
        <3> QED
            BY <3>2, <3>3, <3>4 DEF len
    <2>5. CASE ~ in_thinking[i]
        <3>1. states'[i] = s /\ ~ in_thinking'[i]
            BY <2>1, <2>5
        <3>2. HasThought(s, FALSE)
            <4>1. s.n_model_tokens \in Nat /\ TotalBudget \in Nat
                BY <2>2 DEF SampleType, TotalBudget
            <4> QED
                BY <1>3, <2>3, <2>5, <4>1 DEF HasThought
        <3> QED
            BY <2>2, <3>1, <3>2 DEF len
    <2> QED
        BY <2>4, <2>5
<1>5. PhaseTypeOK'
    <2>1. states' = [i \in Places |-> states'[i]]
        BY DEF EndThinking
    <2>2. states' \in [Places -> SampleType]
        BY <1>4, <2>1
    <2>3. in_thinking' = [i \in Places |-> FALSE]
        <3>1. /\ in_thinking' = [i \in Places |-> in_thinking[i] /\ states[i].finished]
              /\ \A i \in Places : ~ in_thinking'[i]
            BY <1>4 DEF EndThinking
        <3>2. \A i \in Places : (in_thinking[i] /\ states[i].finished) = FALSE
            BY <3>1
        <3> QED
            BY <3>1, <3>2
    <2>4. in_thinking' \in [Places -> BOOLEAN]
        BY <2>3
    <2> QED
        BY <1>1, <2>2, <2>4 DEF PhaseTypeOK
<1>6. SamplesSettled'
    BY <1>1, <1>4 DEF SamplesSettled, Settled, Counted, SegmentsBy
<1>7. Thoughts'
    BY <1>1, <1>4 DEF Thoughts, HasThought, Closed, TotalBudget
<1>8. Rounds' /\ PendingIsActive' /\ FailuresOfModes'
    BY <1>1, <1>2 DEF Rounds, PendingIsActive, FailuresOfModes
<1> QED
    BY <1>5, <1>6, <1>7, <1>8

(* An answer is processed, or a round without a stop token.                *)
LEMMA ProcessAnswerStep == PhaseInv /\ ProcessAnswer => PhaseInv'
<1> SUFFICES ASSUME PhaseInv, ProcessAnswer
             PROVE  PhaseInv'
    OBVIOUS
<1> USE PhasedAssumption, SampleAssumption
        DEF PhasedAssumption, SampleAssumption, PhaseInv
<1> DEFINE i == Min(pending)
           s == states[i]
           len == prompts[i].len
           cap == IF mode = "tts" THEN TotalBudget ELSE MaxModelTokens
<1>1. /\ pc = "answer" /\ pending # {}
      /\ pending' = pending \ {i}
      /\ UNCHANGED <<mode, prompts, in_thinking, pc, roundTokens>>
    BY DEF ProcessAnswer
<1>2. i \in pending
    <2>1. pending \in SUBSET Nat
        BY DEF PhaseTypeOK
    <2> QED
        BY <1>1, <2>1, MinOfNat
<1>3. PICK t \in (IF mode = "tts" THEN Answer(s) ELSE Play(s)) :
         states' = [states EXCEPT ![i] = t]
    BY DEF ProcessAnswer
<1>4. i \in Places /\ Answering(i)
    BY <1>1, <1>2 DEF PendingIsActive, PhaseTypeOK, ActivePlaces
<1> HIDE DEF i
<1>5. mode = "tts" \/ mode = "nostop"
    BY DEF PhaseTypeOK
<1>6. s.n_env_calls < MaxEnvCalls /\ s.n_model_tokens < cap
    BY <1>4, <1>5 DEF Answering, Active
<1>7. s \in SampleType /\ len \in Nat /\ roundTokens \in Nat
    <2>1. prompts[i] \in [len : PromptLens, queue : Queues]
        BY <1>4 DEF PhaseTypeOK
    <2>2. PromptLens \subseteq Nat
        <3>1. \A n \in PromptLens : n \in 0..MaxCtx
            OBVIOUS
        <3> QED
            BY <3>1
    <2>3. len \in PromptLens
        BY <2>1
    <2> QED
        BY <1>4, <2>2, <2>3 DEF PhaseTypeOK
<1>8. Settled(s, len)
    BY <1>4 DEF SamplesSettled
<1> HIDE DEF s, len
<1>9. Follows(s, t, cap, len)
    <2>1. CASE mode = "tts"
        <3>1. PICK out \in Generated(s, {"call", "none"}) : t = Tts!TakeTurn(s, out)
            BY <1>3, <2>1 DEF Answer
        <3>2. out.n \in Nat /\ out.ending \in {"call", "none"} \cup {"none"}
            BY <1>7, <3>1, GeneratedFields
        <3>3. out.ending \in {"call", "none"}
            BY <3>2
        <3>4. s.n_model_tokens < TotalBudget
            BY <1>6, <2>1
        <3>5. Follows(s, Tts!TakeTurn(s, out), TotalBudget, len)
            BY <1>6, <1>7, <1>8, <3>2, <3>3, <3>4, AnswerKeeps
        <3> QED
            BY <2>1, <3>1, <3>5
    <2>2. CASE mode # "tts"
        <3>1. PICK out \in Generated(s, {"eos", "none"}) :
                 \E move \in 0..Body(Clip(out, MaxModelTokens - s.n_model_tokens)) :
                    t = PlayMove(s, Clip(out, MaxModelTokens - s.n_model_tokens), move)
            BY <1>3, <2>2 DEF Play
        <3> PICK move \in 0..Body(Clip(out, MaxModelTokens - s.n_model_tokens)) :
                 t = PlayMove(s, Clip(out, MaxModelTokens - s.n_model_tokens), move)
            BY <3>1
        <3>2. out.n \in Nat /\ out.ending \in {"eos", "none"} \cup {"none"}
            BY <1>7, <3>1, GeneratedFields
        <3>3. out.ending \in {"eos", "none"}
            BY <3>2
        <3>4. s.n_model_tokens < MaxModelTokens
            BY <1>6, <2>2
        <3>5. Follows(s, PlayMove(s, Clip(out, MaxModelTokens - s.n_model_tokens), move),
                      MaxModelTokens, len)
            BY <1>6, <1>7, <1>8, <3>1, <3>2, <3>3, <3>4, PlayKeeps
        <3> QED
            BY <2>2, <3>1, <3>5
    <2> QED
        BY <2>1, <2>2
<1>10. /\ states'[i] = t
       /\ \A j \in Places \ {i} : states'[j] = states[j] /\ in_thinking'[j] = in_thinking[j]
    BY <1>1, <1>3, <1>4 DEF PhaseTypeOK
<1>11. PhaseTypeOK'
    <2>1. states' \in [Places -> SampleType]
        BY <1>3, <1>9 DEF PhaseTypeOK, Follows
    <2> QED
        BY <1>1, <2>1 DEF PhaseTypeOK
<1>12. SamplesSettled'
    <2>1. ASSUME NEW j \in Places
          PROVE  Settled(states'[j], prompts'[j].len)
        <3>1. CASE j = i
            BY <1>1, <1>9, <1>10, <3>1 DEF len, Follows
        <3>2. CASE j # i
            BY <1>1, <1>10, <3>2 DEF SamplesSettled
        <3> QED
            BY <3>1, <3>2
    <2> QED
        BY <2>1 DEF SamplesSettled, Settled, Counted, SegmentsBy
<1>13. Thoughts'
    <2> SUFFICES ASSUME mode = "tts"
                 PROVE  \A j \in Places : ~ in_thinking'[j] /\ HasThought(states'[j], FALSE)
        BY <1>1 DEF Thoughts, HasThought, Closed, TotalBudget
    <2>1. ASSUME NEW j \in Places
          PROVE  ~ in_thinking[j] /\ HasThought(states[j], FALSE)
        BY <1>1 DEF Thoughts
    <2>2. ASSUME NEW j \in Places
          PROVE  HasThought(states'[j], FALSE)
        <3>1. CASE j = i
            BY <1>9, <1>10, <2>1, <3>1 DEF Follows, HasThought, s
        <3>2. CASE j # i
            BY <1>10, <2>1, <3>2
        <3> QED
            BY <3>1, <3>2
    <2> QED
        BY <1>1, <2>1, <2>2
<1>14. Rounds'
    <2>1. ASSUME mode # "tts", NEW j \in Places
          PROVE  states'[j].n_model_tokens <= MaxModelTokens
        <3>1. CASE j = i
            BY <1>9, <1>10, <2>1, <3>1 DEF Follows
        <3>2. CASE j # i
            BY <1>10, <2>1, <3>2 DEF Rounds
        <3> QED
            BY <3>1, <3>2
    <2> QED
        BY <1>1, <2>1 DEF Rounds
<1>15. FailuresOfModes'
    BY <1>1 DEF FailuresOfModes
<1>16. PendingIsActive'
    BY <1>1, <1>4, <1>10, OthersArePending
<1> QED
    BY <1>11, <1>12, <1>13, <1>14, <1>15, <1>16

(* A sample that has thought has tokens, so only the loop without thinking *)
(* can fail, on a sample whose response is empty.                          *)
LEMMA AssembleStep == PhaseInv /\ Assemble => PhaseInv'
<1> SUFFICES ASSUME PhaseInv, Assemble
             PROVE  PhaseInv'
    OBVIOUS
<1> USE PhasedAssumption DEF PhasedAssumption, PhaseInv
<1>1. /\ pc = "answer" /\ pending = {}
      /\ UNCHANGED <<mode, prompts, states, in_thinking, pending, roundTokens>>
      /\ pc' \in {"done", "raised"}
      /\ pc' = "raised" => \E i \in Places : ~ (states[i].n_model_tokens > 0)
    BY DEF Assemble
<1>2. PhaseTypeOK'
    BY <1>1 DEF PhaseTypeOK
<1>3. SamplesSettled'
    BY <1>1 DEF SamplesSettled, Settled, Counted, SegmentsBy
<1>4. Thoughts' /\ Rounds'
    BY <1>1 DEF Thoughts, Rounds, HasThought, Closed, TotalBudget
<1>5. PendingIsActive'
    BY <1>1 DEF PendingIsActive
<1>6. ASSUME pc' = "raised"
      PROVE  mode = "nostop" /\ \E i \in Places : states[i].response = << >>
    <2>1. PICK i \in Places : ~ (states[i].n_model_tokens > 0)
        BY <1>1, <1>6
    <2>2. states[i].response = << >>
        BY <2>1 DEF SamplesSettled, Settled
    <2>3. mode # "tts"
        BY <1>1, <2>2 DEF Thoughts, HasThought, Closed
    <2> QED
        BY <2>2, <2>3 DEF PhaseTypeOK
<1>7. FailuresOfModes'
    BY <1>1, <1>6 DEF FailuresOfModes
<1> QED
    BY <1>2, <1>3, <1>4, <1>5, <1>7

(* Every step keeps the invariant.                                         *)
LEMMA PhaseStep == PhaseInv /\ [Next]_vars => PhaseInv'
<1>1. CASE PhaseInv /\ UNCHANGED vars
    <2>1. UNCHANGED <<mode, prompts, states, in_thinking, pc, pending, roundTokens>>
        BY <1>1 DEF vars
    <2>2. PhaseTypeOK'
        BY <1>1, <2>1 DEF PhaseInv, PhaseTypeOK
    <2>3. SamplesSettled'
        BY <1>1, <2>1 DEF PhaseInv, SamplesSettled, Settled, Counted, SegmentsBy
    <2>4. Thoughts' /\ Rounds'
        BY <1>1, <2>1 DEF PhaseInv, Thoughts, Rounds, IsThinking, HasThought, Open, Closed, TotalBudget
    <2>5. ActivePlaces' = ActivePlaces
        BY <2>1 DEF ActivePlaces, Thinking, Answering, Active, TotalBudget
    <2>6. PendingIsActive' /\ FailuresOfModes'
        BY <1>1, <2>1, <2>5 DEF PhaseInv, PendingIsActive, FailuresOfModes
    <2> QED
        BY <2>2, <2>3, <2>4, <2>6 DEF PhaseInv
<1> QED
    BY <1>1, StartRoundStep, ProcessThoughtStep, EndThinkingStep, ProcessAnswerStep,
       AssembleStep DEF Next

(* The invariant the properties below follow from: of every sample, its    *)
(* counters and budgets, and where its thinking stands; of the batch, that *)
(* the samples still to be processed are active.                           *)
THEOREM PhaseInvariant == Spec => []PhaseInv
<1> QED
    BY PhaseInit, PhaseStep, PTL DEF Spec

(* A thinking that was closed was closed once, before any call or reply,   *)
(* and did not go on.                                                      *)
LEMMA ClosedOnce ==
    ASSUME NEW s \in SampleType, Closed(s)
    PROVE  /\ Cardinality(Closings(s)) = 1
           /\ \A j \in Closings(s), k \in DOMAIN s.response :
                 IF k < j THEN s.response[k].by = "model" /\ s.response[k].ending # "call"
                 ELSE s.response[k].ending # "sep"
<1>1. PICK j \in DOMAIN s.response :
         /\ s.response[j].ending = "close"
         /\ \A k \in DOMAIN s.response :
               /\ k < j => s.response[k].by = "model" /\ s.response[k].ending \in {"sep", "none"}
               /\ k > j => s.response[k].ending \in {"call", "none"}
    BY DEF Closed
<1>2. DOMAIN s.response \subseteq Nat
    <2>1. s.response \in Seq(Segment)
        BY DEF SampleType
    <2> QED
        BY <2>1
<1>3. \A k \in DOMAIN s.response : k < j \/ k = j \/ k > j
    BY <1>2
<1>4. Closings(s) = {j}
    <2>1. ASSUME NEW k \in Closings(s)
          PROVE  k = j
        BY <1>1, <1>3, <2>1 DEF Closings
    <2>2. j \in Closings(s)
        BY <1>1 DEF Closings
    <2> QED
        BY <2>1, <2>2
<1>5. Cardinality(Closings(s)) = 1
    BY <1>4, FS_Singleton
<1>6. ASSUME NEW k \in DOMAIN s.response
      PROVE  IF k < j THEN s.response[k].by = "model" /\ s.response[k].ending # "call"
             ELSE s.response[k].ending # "sep"
    BY <1>1, <1>3
<1> QED
    BY <1>4, <1>5, <1>6

(* ThinkingClosedOnce: of a sample of "tts", either it thinks, and no </T> *)
(* was written, or it has thought, and exactly one was; and no sample      *)
(* thinks any more when the answers begin.                                 *)
THEOREM ThinkingAlwaysClosedOnce == Spec => []ThinkingClosedOnce
<1>1. ASSUME PhaseInv, mode = "tts", NEW i \in Places
      PROVE  LET s == states[i] IN
             /\ ~ in_thinking[i] <=> Cardinality(Closings(s)) = 1
             /\ \A j \in Closings(s), k \in DOMAIN s.response :
                   IF k < j THEN s.response[k].by = "model" /\ s.response[k].ending # "call"
                   ELSE s.response[k].ending # "sep"
             /\ pc = "answer" => ~ in_thinking[i]
    <2> DEFINE s == states[i]
    <2>1. s \in SampleType
        BY <1>1 DEF PhaseInv, PhaseTypeOK
    <2>2. IF in_thinking[i] THEN pc \in {"thinking", "rejected"} /\ Open(s) ELSE Closed(s)
        BY <1>1 DEF PhaseInv, Thoughts, IsThinking, HasThought
    <2> HIDE DEF s
    <2>3. CASE in_thinking[i]
        <3>1. Closings(s) = {}
            BY <2>2, <2>3 DEF Closings, Open
        <3>2. Cardinality(Closings(s)) = 0
            BY <3>1, FS_EmptySet
        <3> QED
            BY <2>2, <2>3, <3>1, <3>2 DEF s
    <2>4. CASE ~ in_thinking[i]
        BY <2>1, <2>2, <2>4, ClosedOnce DEF s
    <2> QED
        BY <2>3, <2>4
<1>2. PhaseInv => ThinkingClosedOnce
    BY <1>1 DEF ThinkingClosedOnce
<1> QED
    BY <1>2, PhaseInvariant, PTL

(* PhaseBudgets: no sample outgrows the budgets although a round is given  *)
(* the budget of the sample that used least of it, and the counters agree  *)
(* with the response.                                                      *)
THEOREM PhaseBudgetsAlwaysHold == Spec => []PhaseBudgets
<1> USE SampleAssumption, PhasedAssumption DEF SampleAssumption, PhasedAssumption
<1>1. ASSUME PhaseInv, NEW i \in Places
      PROVE  LET s == states[i] IN
             /\ s.n_model_tokens = Tokens(SegmentsBy(s, "model"))
             /\ s.ctx = prompts[i].len + Tokens(s.response)
             /\ pc = "thinking" => s.n_model_tokens <= ThinkingBudget + 1
             /\ s.n_model_tokens <= (IF mode = "tts" THEN TotalBudget ELSE MaxModelTokens)
             /\ s.n_env_calls <= MaxEnvCalls
    <2> DEFINE s == states[i]
               len == prompts[i].len
    <2>1. Settled(s, len) /\ s \in SampleType
        BY <1>1 DEF PhaseInv, PhaseTypeOK, SamplesSettled
    <2>2. CASE mode = "tts"
        <3>1. \/ s.n_model_tokens <= ThinkingBudget
              \/ s.n_model_tokens <= (IF pc = "thinking" THEN ThinkingBudget + 1 ELSE TotalBudget)
            BY <1>1, <2>2 DEF PhaseInv, Thoughts, IsThinking, HasThought
        <3>2. s.n_model_tokens \in Nat /\ TotalBudget \in Nat /\ ThinkingBudget + 1 <= TotalBudget
            BY <2>1 DEF SampleType, TotalBudget
        <3> HIDE DEF s, len
        <3>3. /\ pc = "thinking" => s.n_model_tokens <= ThinkingBudget + 1
              /\ s.n_model_tokens <= TotalBudget
            BY <3>1, <3>2
        <3> QED
            BY <2>1, <2>2, <3>3 DEF Settled, Counted, s, len
    <2>3. CASE mode # "tts"
        <3>1. pc # "thinking" /\ s.n_model_tokens <= MaxModelTokens
            BY <1>1, <2>3 DEF PhaseInv, Rounds
        <3> QED
            BY <2>1, <2>3, <3>1 DEF Settled, Counted
    <2> QED
        BY <2>2, <2>3
<1>2. PhaseInv => PhaseBudgets
    BY <1>1 DEF PhaseBudgets
<1> QED
    BY <1>2, PhaseInvariant, PTL

(* FailuresOfModes: "nostop" sends no request that is too long, and "tts"  *)
(* never fails the assertions on its batch.                                *)
THEOREM FailuresAlwaysOfModes == Spec => []FailuresOfModes
<1>1. PhaseInv => FailuresOfModes
    BY DEF PhaseInv
<1> QED
    BY <1>1, PhaseInvariant, PTL
=============================================================================
