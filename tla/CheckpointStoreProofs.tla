------------------------ MODULE CheckpointStoreProofs ------------------------
(***************************************************************************)
(* For every number of steps, launches and images, and for every rotation  *)
(* setting but "keep one", the checkpoint the tracker names is whole.      *)
(***************************************************************************)
EXTENDS CheckpointStore, TLAPS

(* Every step keeps the variables in their types.                          *)
LEMMA StoreTypeStep == StoreTypeOK /\ [Next]_storeVars => StoreTypeOK'
<1> SUFFICES ASSUME StoreTypeOK, [Next]_storeVars
             PROVE  StoreTypeOK'
    OBVIOUS
<1> USE StoreAssumption DEF StoreAssumption, StoreTypeOK, Steps
<1>1. CASE Launch
    BY <1>1 DEF Launch
<1>2. CASE Stop
    <2>1. step' \in Steps
        BY <1>2 DEF Stop
    <2>2. saved' \in [Managed -> Seq(Steps)]
        BY <1>2 DEF Stop
    <2>3. up' \in BOOLEAN /\ cur' \in Parts \cup {"idle", "tracker"}
        BY <1>2 DEF Stop
    <2>4. stage' \in {"rotate", "write", "close"}
        BY <1>2 DEF Stop
    <2> QED
        BY <1>2, <2>1, <2>2, <2>3, <2>4 DEF Stop
<1>3. ASSUME NEW s \in Steps, BeginSave(s, Image)
      PROVE  StoreTypeOK'
    BY <1>3 DEF BeginSave, Parts, Managed
<1>4. CASE Rotate
    <2> DEFINE n == Excess(cur)
    <2>1. n \in Nat
        BY <1>4 DEF Rotate, Excess
    <2>2. SubSeq(saved[cur], n + 1, Len(saved[cur])) \in Seq(Steps)
        BY <1>4, <2>1 DEF Rotate
    <2>3. saved' \in [Managed -> Seq(Steps)]
        BY <1>4, <2>2 DEF Rotate
    <2>4. files' \in [Parts -> [Steps -> Image \cup {Absent, Torn}]]
        BY <1>4 DEF Rotate, Parts
    <2> QED
        BY <1>4, <2>3, <2>4 DEF Rotate
<1>5. CASE OpenPart
    BY <1>5 DEF OpenPart
<1>6. CASE ClosePart
    <2>1. After(cur) \in Parts \cup {"idle", "tracker"}
        BY <1>6 DEF ClosePart, After, Parts, Managed
    <2>2. saved' \in [Managed -> Seq(Steps)]
        BY <1>6 DEF ClosePart
    <2>3. files' \in [Parts -> [Steps -> Image \cup {Absent, Torn}]]
        BY <1>6 DEF ClosePart
    <2> QED
        BY <1>6, <2>1, <2>2, <2>3 DEF ClosePart
<1>7. CASE OpenTracker
    BY <1>7 DEF OpenTracker
<1>8. CASE CloseTracker
    BY <1>8 DEF CloseTracker
<1>9. CASE UNCHANGED storeVars
    BY <1>9 DEF storeVars
<1> QED
    BY <1>1, <1>2, <1>3, <1>4, <1>5, <1>6, <1>7, <1>8, <1>9 DEF Next, SaveStep

(* An empty store has its type.                                            *)
LEMMA StoreTypeInit == StoreInit => StoreTypeOK
<1> SUFFICES ASSUME StoreInit PROVE StoreTypeOK
    OBVIOUS
<1>1. files \in [Parts -> [Steps -> Image \cup {Absent, Torn}]]
    BY DEF StoreInit
<1>2. saved \in [Managed -> Seq(Steps)]
    BY DEF StoreInit
<1>3. step \in Steps /\ launches \in 0..MaxLaunches
    BY StoreAssumption DEF StoreAssumption, StoreInit, Steps
<1> QED
    BY <1>1, <1>2, <1>3 DEF StoreInit, StoreTypeOK

(* Type correctness of the checkpoint store.                               *)
THEOREM StoreTypeCorrect == Spec => []StoreTypeOK
BY StoreTypeInit, StoreTypeStep, PTL DEF Spec

(* What is left of a sequence without its first k elements.                *)
LEMMA DropFirst ==
    ASSUME NEW S, NEW seq \in Seq(S), NEW k \in Nat, k < Len(seq)
    PROVE  /\ Len(SubSeq(seq, k + 1, Len(seq))) = Len(seq) - k
           /\ \A i \in 1..(Len(seq) - k) : SubSeq(seq, k + 1, Len(seq))[i] = seq[i + k]
<1>1. Len(seq) \in Nat
    OBVIOUS
<1>2. Len(SubSeq(seq, k + 1, Len(seq))) = Len(seq) - k
    BY <1>1
<1>3. ASSUME NEW i \in 1..(Len(seq) - k)
      PROVE  SubSeq(seq, k + 1, Len(seq))[i] = seq[i + k]
    BY <1>1
<1> QED
    BY <1>2, <1>3

(* Rotation with Keep # 1 drops a proper prefix of a manager's paths: it   *)
(* is empty, or it leaves the newest path.                                 *)
LEMMA ExcessIsProper ==
    ASSUME Keep # 1, StoreTypeOK, NEW m \in Managed
    PROVE  /\ Excess(m) \in Nat
           /\ Excess(m) = 0 \/ Excess(m) < Len(saved[m])
<1> USE StoreAssumption DEF StoreAssumption
<1>1. Len(saved[m]) \in Nat
    BY DEF StoreTypeOK
<1> QED
    BY <1>1 DEF Excess

(* A step keeps the invariant: a save writes at a step that is not tracked,*)
(* a rotation drops only paths older than the tracked one, and the tracker *)
(* moves when every part holds the image.                                  *)
LEMMA InvStep == Keep # 1 /\ StoreInv /\ [Next]_storeVars => StoreInv'
<1> SUFFICES ASSUME Keep # 1, StoreInv, [Next]_storeVars
             PROVE  StoreInv'
    OBVIOUS
<1> USE StoreAssumption DEF StoreAssumption
<1>t. StoreTypeOK /\ StoreTypeOK'
    BY StoreTypeStep DEF StoreInv
<1>n. Steps \subseteq Nat
    BY DEF Steps
<1> DEFINE Rest == SaveIsAhead /\ WrittenHoldsImage /\ NewestIsTracked /\ TrackedIsWhole
<1>r. Rest
    BY DEF StoreInv
<1>1. CASE Launch \/ Stop
    <2>1. saved' = [m \in Managed |-> << >>] /\ files' = files /\ tracker' = tracker
        BY <1>1 DEF Launch, Stop
    <2>2. NewestIsTracked'
        BY <2>1 DEF NewestIsTracked, Ascending
    <2>3. TrackedIsWhole'
        BY <1>r, <2>1 DEF TrackedIsWhole, Whole
    <2>4. CASE Launch
        BY <1>t, <1>r, <2>2, <2>3, <2>4
        DEF Launch, SaveIsAhead, WrittenHoldsImage, Written, StoreInv
    <2>5. CASE Stop
        BY <1>t, <2>2, <2>3, <2>5
        DEF Stop, SaveIsAhead, WrittenHoldsImage, Written, StoreInv
    <2> QED
        BY <1>1, <2>4, <2>5
<1>3. ASSUME NEW s \in Steps, tracker \in Nat => s > tracker, BeginSave(s, Image)
      PROVE  StoreInv'
    <2>1. SaveIsAhead'
        BY <1>3 DEF BeginSave, SaveIsAhead
    <2>2. Written = {} /\ Written' = {}
        BY <1>3 DEF BeginSave, Written
    <2>3. NewestIsTracked'
        BY <1>r, <1>3, <2>2 DEF BeginSave, NewestIsTracked
    <2>4. TrackedIsWhole'
        BY <1>r, <1>3 DEF BeginSave, TrackedIsWhole, Whole
    <2> QED
        BY <1>t, <2>1, <2>2, <2>3, <2>4 DEF StoreInv, WrittenHoldsImage
<1>4. CASE Rotate
    <2> DEFINE n       == Excess(cur)
               dropped == {saved[cur][i] : i \in 1..n}
               len     == Len(saved[cur])
    <2>1. cur \in Managed /\ cur \in Parts /\ cur \notin Written /\ cur # "idle"
        BY <1>4 DEF Rotate, Written, Managed, Parts
    <2>2. n \in Nat /\ len \in Nat /\ (n = 0 \/ n < len)
        BY <1>t, <2>1, ExcessIsProper DEF StoreTypeOK
    <2>3. tracker \notin dropped
        <3>1. CASE n = 0
            BY <3>1
        <3>2. CASE n < len
            <4>1. saved[cur][len] = tracker
                BY <1>r, <2>1, <2>2, <3>2 DEF NewestIsTracked
            <4>2. ASSUME NEW i \in 1..n PROVE saved[cur][i] < saved[cur][len]
                BY <1>r, <2>1, <2>2, <3>2 DEF NewestIsTracked, Ascending
            <4>3. \A i \in 1..len : saved[cur][i] \in Nat
                <5>1. saved[cur] \in Seq(Steps)
                    BY <1>t, <2>1 DEF StoreTypeOK
                <5>2. \A i \in 1..Len(saved[cur]) : saved[cur][i] \in Steps
                    BY <5>1
                <5> QED
                    BY <1>n, <5>2
            <4> QED
                BY <2>2, <3>2, <4>1, <4>2, <4>3
        <3> QED
            BY <2>2, <3>1, <3>2
    <2>4. /\ files' = [files EXCEPT ![cur] =
                          [s \in Steps |-> IF s \in dropped THEN Absent ELSE @[s]]]
          /\ saved' = [saved EXCEPT ![cur] = SubSeq(@, n + 1, len)]
          /\ UNCHANGED <<up, tracker, cur, step, image>>
        BY <1>4 DEF Rotate
    <2>5. Written' = Written
        BY <2>4 DEF Written
    <2>6. SaveIsAhead'
        BY <1>r, <2>4 DEF SaveIsAhead
    <2>7. WrittenHoldsImage'
        BY <1>r, <1>t, <2>1, <2>4, <2>5 DEF WrittenHoldsImage, StoreTypeOK, Written, Managed, Parts
    <2>8. ASSUME NEW p \in Parts, tracker \in Nat
          PROVE  files'[p][tracker] = files[p][tracker]
        BY <1>t, <2>1, <2>3, <2>4, <2>8 DEF StoreTypeOK
    <2>9. TrackedIsWhole'
        BY <1>r, <2>4, <2>8 DEF TrackedIsWhole, Whole
    <2>10. NewestIsTracked'
        <3> SUFFICES ASSUME NEW m \in Managed
                     PROVE  /\ Ascending(saved'[m])
                            /\ saved'[m] # << >> =>
                                  saved'[m][Len(saved'[m])] =
                                      (IF m \in Written THEN step ELSE tracker)
            BY <2>4, <2>5 DEF NewestIsTracked
        <3>1. CASE m # cur
            BY <1>t, <1>r, <2>4, <3>1 DEF NewestIsTracked, StoreTypeOK
        <3>2. CASE m = cur
            <4>1. saved'[m] = SubSeq(saved[cur], n + 1, len)
                BY <1>t, <2>1, <2>4, <3>2 DEF StoreTypeOK
            <4>2. saved[cur] \in Seq(Steps)
                BY <1>t, <2>1 DEF StoreTypeOK
            <4>3. CASE len = 0
                BY <2>2, <4>1, <4>2, <4>3 DEF Ascending
            <4>4. CASE len # 0
                <5>1. n < len
                    BY <2>2, <4>4
                <5>2. /\ Len(saved'[m]) = len - n
                      /\ \A i \in 1..(len - n) : saved'[m][i] = saved[cur][i + n]
                    BY <2>2, <4>1, <4>2, <5>1, DropFirst
                <5>3. Ascending(saved'[m])
                    <6>1. Ascending(saved[cur])
                        BY <1>r, <2>1 DEF NewestIsTracked
                    <6> SUFFICES ASSUME NEW i \in 1..(len - n), NEW j \in 1..(len - n), i < j
                                 PROVE  saved'[m][i] < saved'[m][j]
                        BY <2>2, <5>1, <5>2 DEF Ascending
                    <6>2. i + n \in 1..len /\ j + n \in 1..len /\ i + n < j + n
                        BY <2>2, <5>1
                    <6>3. saved[cur][i + n] < saved[cur][j + n]
                        BY <6>1, <6>2 DEF Ascending
                    <6> QED
                        BY <5>2, <6>3
                <5>4. saved'[m][Len(saved'[m])] = saved[cur][len]
                    BY <2>2, <5>1, <5>2
                <5>5. saved[cur][len] = tracker
                    BY <1>r, <2>1, <2>2, <4>2, <4>4 DEF NewestIsTracked
                <5> QED
                    BY <2>1, <3>2, <5>3, <5>4, <5>5
            <4> QED
                BY <4>3, <4>4
        <3> QED
            BY <3>1, <3>2
    <2> QED
        BY <1>t, <2>6, <2>7, <2>9, <2>10 DEF StoreInv
<1>5. CASE OpenPart
    <2>1. cur \in Parts /\ cur \notin Written /\ cur # "idle"
        BY <1>5 DEF OpenPart, Written, Parts, Managed
    <2>2. /\ files' = [files EXCEPT ![cur][step] = Torn]
          /\ UNCHANGED <<up, tracker, saved, cur, step, image>>
        BY <1>5 DEF OpenPart
    <2>3. Written' = Written
        BY <2>2 DEF Written
    <2>4. SaveIsAhead' /\ NewestIsTracked'
        BY <1>r, <2>2, <2>3 DEF SaveIsAhead, NewestIsTracked
    <2>5. WrittenHoldsImage'
        BY <1>r, <1>t, <2>1, <2>2, <2>3 DEF WrittenHoldsImage, StoreTypeOK, Written, Managed, Parts
    <2>6. tracker \in Nat => tracker \in Steps /\ step \in Nat /\ tracker # step
        BY <1>r, <1>t, <1>n, <2>1 DEF SaveIsAhead, StoreTypeOK
    <2>7. ASSUME NEW p \in Parts, tracker \in Nat
          PROVE  files'[p][tracker] = files[p][tracker]
        BY <1>t, <2>1, <2>2, <2>6, <2>7 DEF StoreTypeOK
    <2>8. TrackedIsWhole'
        BY <1>r, <2>2, <2>7 DEF TrackedIsWhole, Whole
    <2> QED
        BY <1>t, <2>4, <2>5, <2>8 DEF StoreInv
<1>6. CASE ClosePart
    <2>1. cur \in Parts /\ cur \notin Written /\ cur # "idle"
        BY <1>6 DEF ClosePart, Written, Parts, Managed
    <2>2. /\ files' = [files EXCEPT ![cur][step] = image]
          /\ saved' = IF cur \in Managed
                      THEN [saved EXCEPT ![cur] = Append(@, step)]
                      ELSE saved
          /\ cur' = After(cur)
          /\ UNCHANGED <<up, tracker, step, image>>
        BY <1>6 DEF ClosePart
    <2>3. Written' = Written \cup {cur} /\ Written' \subseteq Parts
        BY <2>1, <2>2 DEF Written, After, Parts, Managed
    <2>4. SaveIsAhead'
        BY <1>r, <2>1, <2>2 DEF SaveIsAhead
    <2>5. WrittenHoldsImage'
        BY <1>r, <1>t, <2>1, <2>2, <2>3 DEF WrittenHoldsImage, StoreTypeOK
    <2>6. tracker \in Nat => tracker \in Steps /\ step \in Nat /\ step > tracker
        BY <1>r, <1>t, <1>n, <2>1 DEF SaveIsAhead, StoreTypeOK
    <2>7. ASSUME NEW p \in Parts, tracker \in Nat
          PROVE  files'[p][tracker] = files[p][tracker]
        BY <1>t, <1>n, <2>1, <2>2, <2>6, <2>7 DEF StoreTypeOK
    <2>8. TrackedIsWhole'
        BY <1>r, <2>2, <2>7 DEF TrackedIsWhole, Whole
    <2>9. NewestIsTracked'
        <3> SUFFICES ASSUME NEW m \in Managed
                     PROVE  /\ Ascending(saved'[m])
                            /\ saved'[m] # << >> =>
                                  saved'[m][Len(saved'[m])] =
                                      (IF m \in Written' THEN step ELSE tracker)
            BY <2>2 DEF NewestIsTracked
        <3>1. CASE m # cur
            BY <1>t, <1>r, <2>2, <2>3, <3>1 DEF NewestIsTracked, StoreTypeOK
        <3>2. CASE m = cur
            <4>1. saved[m] \in Seq(Steps) /\ step \in Steps
                BY <1>t DEF StoreTypeOK
            <4>2. saved'[m] = Append(saved[m], step)
                BY <1>t, <2>2, <3>2 DEF StoreTypeOK
            <4> DEFINE len == Len(saved[m])
            <4>3. /\ len \in Nat
                  /\ Len(saved'[m]) = len + 1
                  /\ saved'[m][len + 1] = step
                  /\ \A i \in 1..len : saved'[m][i] = saved[m][i]
                BY <4>1, <4>2
            <4>4. \A i \in 1..len : saved[m][i] \in Nat /\ saved[m][i] < step
                <5>1. Ascending(saved[m])
                    BY <1>r DEF NewestIsTracked
                <5>2. len # 0 => saved[m][len] = tracker
                    BY <1>r, <2>1, <3>2, <4>1 DEF NewestIsTracked
                <5>3. \A i \in 1..len : saved[m][i] \in Nat
                    BY <1>n, <4>1
                <5>4. ASSUME NEW i \in 1..len
                      PROVE  saved[m][i] < step
                    <6>1. saved[m][len] = tracker /\ tracker \in Nat
                        BY <4>3, <5>2, <5>3
                    <6>2. i = len \/ saved[m][i] < saved[m][len]
                        BY <4>3, <5>1 DEF Ascending
                    <6> QED
                        BY <2>6, <5>3, <6>1, <6>2
                <5> QED
                    BY <5>3, <5>4
            <4>5. Ascending(saved'[m])
                <5>1. Ascending(saved[m])
                    BY <1>r DEF NewestIsTracked
                <5> SUFFICES ASSUME NEW i \in 1..(len + 1), NEW j \in 1..(len + 1), i < j
                             PROVE  saved'[m][i] < saved'[m][j]
                    BY <4>3 DEF Ascending
                <5>2. i \in 1..len
                    BY <4>3
                <5>3. CASE j = len + 1
                    BY <4>3, <4>4, <5>2, <5>3
                <5>4. CASE j # len + 1
                    <6>1. j \in 1..len
                        BY <4>3, <5>4
                    <6> QED
                        BY <4>3, <5>1, <5>2, <6>1 DEF Ascending
                <5> QED
                    BY <5>3, <5>4
            <4> QED
                BY <2>3, <3>2, <4>3, <4>5
        <3> QED
            BY <3>1, <3>2
    <2> QED
        BY <1>t, <2>4, <2>5, <2>8, <2>9 DEF StoreInv
<1>7. CASE OpenTracker
    <2>1. Written' = Written /\ Managed \subseteq Written
        BY <1>7 DEF OpenTracker, Written, Parts
    <2>2. NewestIsTracked'
        BY <1>r, <1>7, <2>1 DEF OpenTracker, NewestIsTracked
    <2>3. SaveIsAhead' /\ WrittenHoldsImage' /\ TrackedIsWhole'
        BY <1>r, <1>7, <2>1 DEF OpenTracker, SaveIsAhead, WrittenHoldsImage, TrackedIsWhole
    <2> QED
        BY <1>t, <2>2, <2>3 DEF StoreInv
<1>8. CASE CloseTracker
    <2>1. Written' = {} /\ Written = Parts /\ Managed \subseteq Parts
        BY <1>8 DEF CloseTracker, Written, Parts
    <2>2. NewestIsTracked'
        BY <1>r, <1>8, <2>1 DEF CloseTracker, NewestIsTracked
    <2>3. SaveIsAhead' /\ WrittenHoldsImage'
        BY <1>8, <2>1 DEF CloseTracker, SaveIsAhead, WrittenHoldsImage
    <2>4. TrackedIsWhole'
        BY <1>r, <1>t, <1>8, <2>1
        DEF CloseTracker, TrackedIsWhole, Whole, WrittenHoldsImage, StoreTypeOK
    <2> QED
        BY <1>t, <2>2, <2>3, <2>4 DEF StoreInv
<1>9. CASE UNCHANGED storeVars
    <2>1. Written' = Written
        BY <1>9 DEF storeVars, Written
    <2> QED
        BY <1>t, <1>r, <1>9, <2>1
        DEF storeVars, StoreInv, SaveIsAhead, WrittenHoldsImage, NewestIsTracked,
            TrackedIsWhole, Whole
<1> QED
    BY <1>1, <1>3, <1>4, <1>5, <1>6, <1>7, <1>8, <1>9 DEF Next, SaveStep

(* An empty store satisfies the invariant.                                 *)
LEMMA InvInit == StoreInit => StoreInv
<1> SUFFICES ASSUME StoreInit PROVE StoreInv
    OBVIOUS
<1>1. tracker \notin Nat /\ cur = "idle" /\ Written = {}
    BY StoreAssumption DEF StoreAssumption, StoreInit, Written
<1>2. NewestIsTracked
    BY DEF StoreInit, NewestIsTracked, Ascending
<1> QED
    BY <1>1, <1>2, StoreTypeInit
    DEF StoreInv, SaveIsAhead, WrittenHoldsImage, TrackedIsWhole

(* Unless a manager keeps a single checkpoint, the checkpoint that a       *)
(* relaunch would load is whole and comes from one save, wherever earlier  *)
(* processes died.                                                         *)
THEOREM TrackedAlwaysWhole == Keep # 1 /\ Spec => []TrackedIsWhole
<1> SUFFICES ASSUME Keep # 1
             PROVE  Spec => []TrackedIsWhole
    OBVIOUS
<1>1. StoreInv /\ [Next]_storeVars => StoreInv'
    BY InvStep
<1>2. StoreInv => TrackedIsWhole
    BY DEF StoreInv
<1> QED
    BY <1>1, <1>2, InvInit, PTL DEF Spec
=============================================================================
