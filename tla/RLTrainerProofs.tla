---------------------------- MODULE RLTrainerProofs ----------------------------
(***************************************************************************)
(* For any prompts, epochs, steps, crashes and relaunches, unless managers *)
(* keep a single checkpoint: the trainer uses the store as it requires, so *)
(* that the theorems about the store hold in it; the weights have received *)
(* every step once; and filtered prompts stay filtered.                    *)
(***************************************************************************)
EXTENDS RLTrainer, FiniteSetTheorems, TLAPS

Stored == INSTANCE CheckpointStoreProofs WITH Image <- Snapshot

(* The updates that the steps up to n apply.                               *)
UpdatesAfter(n) == Cardinality({s \in 1..n : s >= CriticWarmup})

(* An image that may be saved at step s.                                   *)
Fits(saving, s) ==
    /\ saving.updates <= s
    /\ ~ FilterEnabled => saving.updates = UpdatesAfter(s)
    /\ saving.left \subseteq saving.loader

(* A process that saves is up; each one may go a step past the total, and  *)
(* is ahead of the tracker but after a save.                               *)
StepsInOrder ==
    /\ pc \notin {"saving", "lastSave"} => cur = "idle"
    /\ up => launches >= 1 /\ globalSteps \in 1..(TotalSteps + launches - 1)
    /\ tracker \in Nat => tracker <= TotalSteps + launches - 1
    /\ tracker \in Nat /\ up => tracker <= globalSteps
    /\ tracker \in Nat /\ pc = "top" => tracker < globalSteps
    /\ cur # "idle" => step = globalSteps
    /\ pc = "lastSave" => FilterEnabled

UpdatesInOrder ==
    /\ pc = "top" =>
          /\ updates <= globalSteps - 1
          /\ ~ FilterEnabled => updates = UpdatesAfter(globalSteps - 1)
    /\ pc = "saving" =>
          /\ updates <= globalSteps
          /\ ~ FilterEnabled => updates = UpdatesAfter(globalSteps)

DataInOrder == up => left \subseteq loader /\ measured \subseteq loader

(* What was saved, and what is being saved, fits its step.                 *)
ImagesFit ==
    /\ cur # "idle" =>
          /\ Fits(image, step)
          /\ image.loader = loader /\ image.filterOn = filterOn
    /\ \A p \in Store!Parts, s \in Store!Steps :
          files[p][s] \in Snapshot => Fits(files[p][s], s)

(* The inductive invariant.                                                *)
TrainerInv ==
    /\ Store!StoreInv
    /\ TypeOK
    /\ StepsInOrder
    /\ UpdatesInOrder
    /\ DataInOrder
    /\ ImagesFit
    /\ FilterSurvivesRestart

(* The steps of the store keep its invariant.                              *)
LEMMA StoreKeepsInv == Keep # 1 /\ Store!StoreInv /\ [Store!Next]_storeVars => Store!StoreInv'
<1>1. Keep # 1 /\ Stored!StoreInv /\ [Stored!Next]_Stored!storeVars => Stored!StoreInv'
    BY StoreParameters, Stored!InvStep DEF Store!StoreAssumption, Stored!StoreAssumption
<1>2. Stored!StoreInv <=> Store!StoreInv
    BY DEF Store!StoreInv, Stored!StoreInv, Store!StoreTypeOK,
           Stored!StoreTypeOK, Store!SaveIsAhead, Stored!SaveIsAhead,
           Store!WrittenHoldsImage, Stored!WrittenHoldsImage,
           Store!NewestIsTracked, Stored!NewestIsTracked, Store!TrackedIsWhole,
           Stored!TrackedIsWhole, Store!Whole, Stored!Whole, Store!Ascending,
           Stored!Ascending, Store!Written, Stored!Written, Store!Managed,
           Stored!Managed, Store!Parts, Stored!Parts, Store!Steps, Stored!Steps
<1>3. Stored!StoreInv' <=> Store!StoreInv'
    BY DEF Store!StoreInv, Stored!StoreInv, Store!StoreTypeOK,
           Stored!StoreTypeOK, Store!SaveIsAhead, Stored!SaveIsAhead,
           Store!WrittenHoldsImage, Stored!WrittenHoldsImage,
           Store!NewestIsTracked, Stored!NewestIsTracked, Store!TrackedIsWhole,
           Stored!TrackedIsWhole, Store!Whole, Stored!Whole, Store!Ascending,
           Stored!Ascending, Store!Written, Stored!Written, Store!Managed,
           Stored!Managed, Store!Parts, Stored!Parts, Store!Steps, Stored!Steps
<1>4. [Store!Next]_storeVars => [Stored!Next]_Stored!storeVars
    BY DEF storeVars, Stored!storeVars,
           Store!Next, Stored!Next, Store!Launch, Stored!Launch, Store!Stop,
           Stored!Stop, Store!BeginSave, Stored!BeginSave, Store!SaveStep,
           Stored!SaveStep, Store!Rotate, Stored!Rotate, Store!OpenPart,
           Stored!OpenPart, Store!ClosePart, Stored!ClosePart,
           Store!OpenTracker, Stored!OpenTracker, Store!CloseTracker,
           Stored!CloseTracker, Store!Excess, Stored!Excess, Store!After,
           Stored!After, Store!CanLaunch, Stored!CanLaunch, Store!HasLatest,
           Stored!HasLatest, Store!FolderExists, Stored!FolderExists,
           Store!StoreInit, Stored!StoreInit, Store!Managed, Stored!Managed,
           Store!Parts, Stored!Parts, Store!Steps, Stored!Steps
<1> QED
    BY <1>1, <1>2, <1>3, <1>4

(* No step is counted before the first; each one adds its own update.      *)
LEMMA UpdatesCount ==
    /\ UpdatesAfter(0) = 0
    /\ \A n \in Nat : /\ UpdatesAfter(n) \in Nat
                      /\ UpdatesAfter(n + 1) = IF CriticWarmup <= n + 1
                                               THEN UpdatesAfter(n) + 1 ELSE UpdatesAfter(n)
<1> USE TrainerAssumption DEF TrainerAssumption
<1> DEFINE Counted(n) == {s \in 1..n : s >= CriticWarmup}
<1>1. Counted(0) = {}
    OBVIOUS
<1>2. ASSUME NEW n \in Nat
      PROVE  IsFiniteSet(Counted(n)) /\ Cardinality(Counted(n)) \in Nat
    <2>1. IsFiniteSet(1..n)
        BY FS_Interval
    <2>2. Counted(n) \in SUBSET (1..n)
        OBVIOUS
    <2> QED
        BY <2>1, <2>2, FS_Subset, FS_CardinalityType
<1>3. ASSUME NEW n \in Nat
      PROVE  /\ Counted(n + 1) = IF CriticWarmup <= n + 1 THEN Counted(n) \cup {n + 1}
                                                          ELSE Counted(n)
             /\ n + 1 \notin Counted(n)
    OBVIOUS
<1>4. ASSUME NEW n \in Nat
      PROVE  Cardinality(Counted(n + 1)) = IF CriticWarmup <= n + 1
                                           THEN Cardinality(Counted(n)) + 1
                                           ELSE Cardinality(Counted(n))
    <2>1. Cardinality(Counted(n) \cup {n + 1}) = Cardinality(Counted(n)) + 1
        <3> HIDE DEF Counted
        <3> QED BY <1>2, <1>3, FS_AddElement
    <2> QED
        BY <1>3, <2>1
<1> QED
    BY <1>1, <1>2, <1>4, FS_EmptySet DEF UpdatesAfter

-----------------------------------------------------------------------------
(* The type invariant without the store's.                                 *)
FitTypeOK ==
    /\ pc \in {"down", "top", "saving", "lastSave", "returned"}
    /\ up <=> pc \in {"top", "saving", "lastSave"}
    /\ globalSteps \in 0..(MaxStep + 1)
    /\ epoch \in 0..(TotalEpochs - 1)
    /\ updates \in 0..MaxStep
    /\ loader \subseteq Prompts /\ left \subseteq Prompts
    /\ firstPass \in BOOLEAN /\ filterOn \in BOOLEAN
    /\ measured \subseteq Prompts
    /\ furthest \in 0..MaxStep

(* The step of a running process has a place in the store.                 *)
LEMMA StepIsBounded ==
    ASSUME TrainerInv, up
    PROVE  /\ globalSteps \in 1..MaxStep /\ globalSteps \in Store!Steps
           /\ launches \in Nat /\ TotalSteps \in Nat /\ MaxStep \in Nat
           /\ TotalSteps + launches <= MaxStep
<1>1. /\ TotalSteps \in Nat /\ MaxStep \in Nat /\ MaxLaunches \in Nat
      /\ MaxStep >= TotalSteps + MaxLaunches
    BY TrainerAssumption, StoreParameters DEF TrainerAssumption, Store!StoreAssumption
<1>2. launches \in 0..MaxLaunches
    BY DEF TrainerInv, Store!StoreInv, Store!StoreTypeOK
<1>3. globalSteps \in 1..(TotalSteps + launches - 1)
    BY DEF TrainerInv, StepsInOrder
<1> QED
    BY <1>1, <1>2, <1>3 DEF Store!Steps

(* A process that stops leaves the directory as it is.                     *)
LEMMA Stopped ==
    ASSUME Keep # 1, TrainerInv, Store!Stop, FitTypeOK', pc' \in {"down", "returned"},
           UNCHANGED filterEpoch
    PROVE  TrainerInv'
<1>1. /\ ~ up' /\ cur' = "idle"
      /\ UNCHANGED <<launches, files, tracker, image>>
    BY DEF Store!Stop
<1>2. Store!StoreInv'
    BY StoreKeepsInv DEF TrainerInv, Store!Next
<1>3. TypeOK'
    BY <1>2 DEF TypeOK, FitTypeOK, Store!StoreInv
<1>4. StepsInOrder' /\ UpdatesInOrder' /\ DataInOrder' /\ FilterSurvivesRestart'
    BY <1>1 DEF TrainerInv, StepsInOrder, UpdatesInOrder, DataInOrder, FilterSurvivesRestart
<1>5. ImagesFit'
    BY <1>1 DEF TrainerInv, ImagesFit, Fits, UpdatesAfter, FilterEnabled, Store!Parts,
                Store!Managed, Store!Steps
<1> QED
    BY <1>2, <1>3, <1>4, <1>5 DEF TrainerInv

(* A process goes on to a step; the directory is not touched.              *)
LEMMA WentOn ==
    ASSUME Keep # 1, TrainerInv, UNCHANGED <<filterEpoch, storeVars>>, FitTypeOK',
           up, pc' = "top", cur = "idle",
           globalSteps' \in 1..(TotalSteps + launches - 1),
           tracker \in Nat => tracker < globalSteps',
           UpdatesInOrder',
           left' \subseteq loader', measured' \subseteq loader',
           loader' \subseteq loader, filterOn => filterOn'
    PROVE  TrainerInv'
<1>1. UNCHANGED <<up, launches, files, tracker, saved, cur, stage, step, image>>
    BY DEF storeVars
<1>2. Store!StoreInv'
    BY StoreKeepsInv DEF TrainerInv
<1>3. TypeOK'
    BY <1>2 DEF TypeOK, FitTypeOK, Store!StoreInv
<1>4. StepsInOrder'
    <2>1. globalSteps' \in Nat /\ (tracker \in Nat => tracker <= globalSteps')
        OBVIOUS
    <2> QED
        BY <1>1, <2>1 DEF TrainerInv, StepsInOrder
<1>5. DataInOrder'
    BY <1>1 DEF DataInOrder
<1>6. FilterSurvivesRestart'
    BY <1>1 DEF TrainerInv, FilterSurvivesRestart
<1>7. ImagesFit'
    BY <1>1 DEF TrainerInv, ImagesFit, Fits, UpdatesAfter, FilterEnabled, Store!Parts,
                Store!Managed, Store!Steps
<1> QED
    BY <1>2, <1>3, <1>4, <1>5, <1>6, <1>7 DEF TrainerInv

(* A save begins, at a step after the tracked one.                         *)
LEMMA SaveBegan ==
    ASSUME Keep # 1, TrainerInv, pc = "top", FitTypeOK',
           NEW saving \in Snapshot, Store!BeginSave(globalSteps, {saving}),
           Fits(saving, globalSteps),
           saving.loader = loader', saving.filterOn = filterOn',
           UNCHANGED <<filterEpoch, globalSteps, loader, filterOn>>,
           pc' = "saving" \/ (pc' = "lastSave" /\ FilterEnabled),
           UpdatesInOrder',
           left' \subseteq loader', measured' \subseteq loader'
    PROVE  TrainerInv' /\ Store!Next
<1>1. /\ up /\ cur = "idle" /\ cur' = "actor" /\ step' = globalSteps /\ image' = saving
      /\ UNCHANGED <<up, launches, files, tracker, saved>>
    BY DEF Store!BeginSave
<1>2. globalSteps \in Store!Steps /\ (tracker \in Nat => globalSteps > tracker)
    BY <1>1, StepIsBounded DEF TrainerInv, StepsInOrder, Store!Steps
<1>3. Store!BeginSave(globalSteps, Snapshot)
    BY DEF Store!BeginSave
<1>4. Store!Next
    BY <1>2, <1>3 DEF Store!Next
<1>5. Store!StoreInv'
    BY <1>4, StoreKeepsInv DEF TrainerInv
<1>6. TypeOK'
    BY <1>5 DEF TypeOK, FitTypeOK, Store!StoreInv
<1>7. StepsInOrder'
    <2>1. globalSteps \in Nat /\ (tracker \in Nat => tracker <= globalSteps)
        BY <1>2, StepIsBounded, <1>1 DEF Store!Steps
    <2> QED
        BY <1>1, <2>1 DEF TrainerInv, StepsInOrder, FilterEnabled
<1>8. DataInOrder'
    BY DEF DataInOrder
<1>9. FilterSurvivesRestart'
    BY <1>1 DEF TrainerInv, FilterSurvivesRestart
<1>10. ImagesFit'
    BY <1>1 DEF TrainerInv, ImagesFit, Fits, UpdatesAfter, FilterEnabled, Store!Parts,
                Store!Managed, Store!Steps
<1> QED
    BY <1>4, <1>5, <1>6, <1>7, <1>8, <1>9, <1>10 DEF TrainerInv

-----------------------------------------------------------------------------
(* A turn of the batch loop draws prompts of the loader and adds its own   *)
(* update.                                                                 *)
LEMMA TrainStepKeeps ==
    ASSUME Keep # 1, TrainerInv, TrainStep, UNCHANGED filterEpoch
    PROVE  TrainerInv' /\ [Store!Next]_storeVars
<1> USE DEF TrainerInv
<1>1. /\ pc = "top" /\ up /\ cur = "idle"
      /\ UNCHANGED <<epoch, loader, firstPass, filterOn>>
      /\ updates' = IF CriticWarmup <= globalSteps THEN updates + 1 ELSE updates
      /\ furthest' = IF globalSteps > furthest THEN globalSteps ELSE furthest
    BY DEF TrainStep, TypeOK, StepsInOrder
<1>2. /\ globalSteps \in 1..MaxStep /\ globalSteps - 1 \in Nat
      /\ launches \in Nat /\ TotalSteps \in Nat /\ MaxStep \in Nat
      /\ globalSteps <= TotalSteps + launches - 1 /\ launches >= 1
      /\ (globalSteps - 1) + 1 = globalSteps
    BY <1>1, StepIsBounded DEF StepsInOrder
<1>3. /\ left' \subseteq loader' /\ measured' \subseteq loader'
      /\ loader' \subseteq Prompts
    <2>1. left \subseteq loader /\ measured \subseteq loader
          /\ loader \subseteq Prompts
        BY <1>1 DEF DataInOrder, TypeOK
    <2>2. PICK batch \in SUBSET left :
              /\ left' = left \ batch
              /\ measured' = IF FilterEnabled THEN measured \cup batch ELSE measured
        BY DEF TrainStep
    <2>3. CASE FilterEnabled
        BY <1>1, <2>1, <2>2, <2>3
    <2>4. CASE ~ FilterEnabled
        BY <1>1, <2>1, <2>2, <2>4
    <2> QED
        BY <2>3, <2>4
<1>4. /\ updates' \in 0..MaxStep /\ updates' <= globalSteps
      /\ ~ FilterEnabled => updates' = UpdatesAfter(globalSteps)
    <2>1. updates \in Nat /\ updates <= globalSteps - 1
        BY <1>1 DEF UpdatesInOrder, TypeOK
    <2>2. updates' \in 0..MaxStep /\ updates' <= globalSteps
        BY <1>1, <1>2, <2>1
    <2>3. ASSUME ~ FilterEnabled
          PROVE  updates' = UpdatesAfter(globalSteps)
        <3>1. updates = UpdatesAfter(globalSteps - 1)
            BY <1>1, <2>3 DEF UpdatesInOrder
        <3>2. UpdatesAfter((globalSteps - 1) + 1) =
                  IF CriticWarmup <= (globalSteps - 1) + 1
                  THEN UpdatesAfter(globalSteps - 1) + 1 ELSE UpdatesAfter(globalSteps - 1)
            BY <1>2, UpdatesCount
        <3> QED
            BY <1>1, <1>2, <3>1, <3>2
    <2> QED
        BY <2>2, <2>3
<1>5. furthest' \in 0..MaxStep
    BY <1>1, <1>2 DEF TypeOK
<1>6. ASSUME pc' \in {"top", "saving", "lastSave", "returned"},
             up' <=> pc' \in {"top", "saving", "lastSave"},
             globalSteps' \in 0..(MaxStep + 1)
      PROVE  FitTypeOK'
    BY <1>1, <1>3, <1>4, <1>5, <1>6 DEF FitTypeOK, TypeOK
<1>7. PICK esi \in {FALSE, EsiMayExpire} :
          IF ShouldSave(esi)
          THEN /\ Store!BeginSave(globalSteps,
                     {[updates |-> updates', loader |-> loader, left |-> left',
                      firstPass |-> firstPass, filterOn |-> filterOn]})
               /\ pc' = "saving"
               /\ UNCHANGED globalSteps
          ELSE EndStep
    BY DEF TrainStep
<1>8. CASE ShouldSave(esi)
    <2> DEFINE saving == [updates |-> updates', loader |-> loader, left |-> left',
                          firstPass |-> firstPass, filterOn |-> filterOn]
    <2>1. /\ Store!BeginSave(globalSteps, {saving})
          /\ pc' = "saving" /\ globalSteps' = globalSteps
        BY <1>7, <1>8
    <2>2. saving \in Snapshot
        BY <1>1, <1>3, <1>4 DEF Snapshot, TypeOK
    <2>3. Fits(saving, globalSteps)
        BY <1>1, <1>3, <1>4 DEF Fits
    <2>4. saving.loader = loader' /\ saving.filterOn = filterOn'
        BY <1>1
    <2> HIDE DEF saving
    <2>5. up'
        BY <1>1, <2>1 DEF Store!BeginSave
    <2>6. FitTypeOK'
        BY <1>2, <1>6, <2>1, <2>5
    <2>7. UpdatesInOrder'
        BY <1>4, <2>1 DEF UpdatesInOrder, FilterEnabled, UpdatesAfter
    <2> QED
        BY <1>1, <1>3, <2>1, <2>2, <2>3, <2>4, <2>6, <2>7, SaveBegan
<1>9. CASE ~ ShouldSave(esi) /\ IsLastStep
    <2>1. pc' = "returned" /\ Store!Stop /\ globalSteps' = globalSteps
        BY <1>7, <1>9 DEF EndStep
    <2>2. FitTypeOK'
        BY <1>2, <1>6, <2>1 DEF Store!Stop
    <2> QED
        BY <2>1, <2>2, Stopped DEF Store!Next
<1>10. CASE ~ ShouldSave(esi) /\ ~ IsLastStep
    <2>1. pc' = "top" /\ globalSteps' = globalSteps + 1 /\ UNCHANGED storeVars
        BY <1>7, <1>10 DEF EndStep
    <2>2. globalSteps + 1 \in 1..(TotalSteps + launches - 1)
        BY <1>2, <1>10 DEF IsLastStep
    <2>3. tracker \in Nat => tracker < globalSteps'
        BY <1>1, <1>2, <2>1 DEF StepsInOrder
    <2>4. UpdatesInOrder'
        <3>1. globalSteps' - 1 = globalSteps
            BY <1>2, <2>1
        <3>2. updates' <= globalSteps' - 1
            BY <1>4, <3>1
        <3>3. ~ FilterEnabled => updates' = UpdatesAfter(globalSteps' - 1)
            BY <1>4, <3>1
        <3> QED
            BY <2>1, <3>2, <3>3 DEF UpdatesInOrder, FilterEnabled, UpdatesAfter
    <2>5. FitTypeOK'
        BY <1>1, <1>2, <1>6, <2>1 DEF storeVars
    <2> QED
        BY <1>1, <1>3, <2>1, <2>2, <2>3, <2>4, <2>5, WentOn
<1> QED
    BY <1>8, <1>9, <1>10

(* After a save the loop goes on to the next step, or fit returns.         *)
LEMMA AfterSaveKeeps ==
    ASSUME Keep # 1, TrainerInv, AfterSave, UNCHANGED filterEpoch
    PROVE  TrainerInv' /\ [Store!Next]_storeVars
<1> USE DEF TrainerInv
<1>1. /\ pc = "saving" /\ up /\ cur = "idle" /\ EndStep
      /\ UNCHANGED <<dataVars, epoch, updates, measured, furthest>>
    BY DEF AfterSave, TypeOK
<1>2. /\ globalSteps \in 1..MaxStep
      /\ launches \in Nat /\ TotalSteps \in Nat /\ MaxStep \in Nat
      /\ launches >= 1
    BY <1>1, StepIsBounded DEF StepsInOrder
<1>6. ASSUME pc' \in {"top", "returned"}, up' <=> pc' = "top",
             globalSteps' \in 0..(MaxStep + 1)
      PROVE  FitTypeOK'
    BY <1>1, <1>6 DEF FitTypeOK, TypeOK, dataVars
<1>7. CASE IsLastStep
    <2>1. pc' = "returned" /\ Store!Stop /\ globalSteps' = globalSteps
        BY <1>1, <1>7 DEF EndStep
    <2>2. FitTypeOK'
        BY <1>2, <1>6, <2>1 DEF Store!Stop
    <2> QED
        BY <2>1, <2>2, Stopped DEF Store!Next
<1>8. CASE ~ IsLastStep
    <2>1. pc' = "top" /\ globalSteps' = globalSteps + 1 /\ UNCHANGED storeVars
        BY <1>1, <1>8 DEF EndStep
    <2>2. globalSteps + 1 \in 1..(TotalSteps + launches - 1)
        BY <1>2, <1>8 DEF IsLastStep
    <2>3. tracker \in Nat => tracker < globalSteps'
        BY <1>1, <1>2, <2>1 DEF StepsInOrder
    <2>4. UpdatesInOrder'
        <3>1. globalSteps' - 1 = globalSteps
            BY <1>2, <2>1
        <3>2. /\ updates' <= globalSteps' - 1
              /\ ~ FilterEnabled => updates' = UpdatesAfter(globalSteps' - 1)
            BY <1>1, <3>1 DEF UpdatesInOrder
        <3> QED
            BY <2>1, <3>2 DEF UpdatesInOrder, FilterEnabled, UpdatesAfter
    <2>5. FitTypeOK'
        BY <1>1, <1>2, <1>6, <2>1 DEF storeVars
    <2>6. left' \subseteq loader' /\ measured' \subseteq loader' /\ loader' \subseteq loader
          /\ filterOn' = filterOn
        BY <1>1 DEF DataInOrder, dataVars
    <2> QED
        BY <1>1, <2>1, <2>2, <2>3, <2>4, <2>5, <2>6, WentOn
<1> QED
    BY <1>7, <1>8

(* At the end of a pass the data set is kept or shrinks.                   *)
LEMMA NextEpochKeeps ==
    ASSUME Keep # 1, TrainerInv, pc = "top", NextEpoch,
           loader' \subseteq loader, left' \subseteq loader',
           measured' = {},
           firstPass' \in BOOLEAN, filterOn' \in BOOLEAN, filterOn => filterOn',
           UNCHANGED <<globalSteps, updates, furthest>>, UNCHANGED filterEpoch
    PROVE  TrainerInv' /\ [Store!Next]_storeVars
<1> USE DEF TrainerInv
<1>1. up /\ cur = "idle" /\ globalSteps \in 1..(TotalSteps + launches - 1)
    BY DEF TypeOK, StepsInOrder
<1>2. ASSUME pc' \in {"top", "returned"}, up' <=> pc' = "top",
             epoch' \in 0..(TotalEpochs - 1)
      PROVE  FitTypeOK'
    BY <1>2 DEF FitTypeOK, TypeOK
<1>3. CASE epoch + 1 = TotalEpochs
    <2>1. pc' = "returned" /\ Store!Stop /\ epoch' = epoch
        BY <1>3 DEF NextEpoch
    <2>2. FitTypeOK'
        BY <1>2, <2>1 DEF Store!Stop, TypeOK
    <2> QED
        BY <2>1, <2>2, Stopped DEF Store!Next
<1>4. CASE epoch + 1 # TotalEpochs
    <2>1. pc' = "top" /\ epoch' = epoch + 1 /\ UNCHANGED storeVars
        BY <1>4 DEF NextEpoch
    <2>2. epoch' \in 0..(TotalEpochs - 1)
        BY <1>4, <2>1, TrainerAssumption DEF TypeOK, TrainerAssumption
    <2>3. FitTypeOK'
        BY <1>1, <1>2, <2>1, <2>2 DEF storeVars
    <2>4. UpdatesInOrder'
        BY <2>1 DEF UpdatesInOrder, FilterEnabled, UpdatesAfter
    <2>5. tracker \in Nat => tracker < globalSteps'
        BY DEF StepsInOrder
    <2> QED
        BY <1>1, <2>1, <2>3, <2>4, <2>5, WentOn
<1> QED
    BY <1>3, <1>4

(* The end of a pass, whichever it is, and every way fit ends.             *)
LEMMA PassEndKeeps ==
    ASSUME Keep # 1, TrainerInv,
           FilterPrompts \/ StopEarly \/ AfterLastSave \/ EndPass \/ Crash, UNCHANGED filterEpoch
    PROVE  TrainerInv' /\ [Store!Next]_storeVars
<1> USE DEF TrainerInv
<1>1. CASE FilterPrompts
    <2>1. pc = "top" /\ measured \subseteq loader
        BY <1>1 DEF FilterPrompts, PassIsOver, TypeOK, DataInOrder
    <2> QED
        BY <1>1, <2>1, NextEpochKeeps DEF FilterPrompts
<1>2. CASE EndPass
    BY <1>2, NextEpochKeeps DEF EndPass, PassIsOver, TypeOK
<1>3. CASE AfterLastSave \/ Crash
    <2>1. /\ pc' \in {"down", "returned"} /\ Store!Stop
          /\ UNCHANGED <<dataVars, globalSteps, epoch, updates, measured, furthest>>
        BY <1>3 DEF AfterLastSave, Crash
    <2>2. FitTypeOK'
        BY <2>1 DEF FitTypeOK, TypeOK, dataVars, Store!Stop
    <2> QED
        BY <2>1, <2>2, Stopped DEF Store!Next
<1>4. CASE StopEarly
    <2>1. /\ pc = "top" /\ FilterEnabled /\ up
          /\ UNCHANGED <<loader, left, firstPass, filterOn, globalSteps, epoch, updates,
                         measured, furthest>>
        BY <1>4 DEF StopEarly, PassIsOver, AtBoundary, dataVars, TypeOK
    <2>2. ASSUME pc' \in {"lastSave", "returned"}, up' <=> pc' = "lastSave"
          PROVE  FitTypeOK'
        BY <2>1, <2>2 DEF FitTypeOK, TypeOK
    <2>3. CASE ~ (SaveFreq > 0)
        <3>1. pc' = "returned" /\ Store!Stop
            BY <1>4, <2>3 DEF StopEarly
        <3>2. FitTypeOK'
            BY <2>2, <3>1 DEF Store!Stop
        <3> QED
            BY <3>1, <3>2, Stopped DEF Store!Next
    <2>4. CASE SaveFreq > 0
        <3> DEFINE saving == [updates |-> updates, loader |-> loader, left |-> loader,
                              firstPass |-> firstPass, filterOn |-> filterOn]
        <3>1. pc' = "lastSave" /\ Store!BeginSave(globalSteps, {saving})
            BY <1>4, <2>4 DEF StopEarly
        <3>2. saving \in Snapshot
            BY DEF Snapshot, TypeOK
        <3>3. Fits(saving, globalSteps)
            <4>1. updates <= globalSteps - 1 /\ updates \in Nat /\ globalSteps \in Nat
                BY <2>1 DEF UpdatesInOrder, TypeOK
            <4> QED
                BY <2>1, <4>1 DEF Fits
        <3>4. saving.loader = loader' /\ saving.filterOn = filterOn'
            BY <2>1
        <3> HIDE DEF saving
        <3>5. FitTypeOK'
            BY <2>1, <2>2, <3>1 DEF Store!BeginSave
        <3>6. UpdatesInOrder'
            BY <3>1 DEF UpdatesInOrder
        <3>7. left' \subseteq loader' /\ measured' \subseteq loader'
            BY <2>1 DEF DataInOrder
        <3> QED
            BY <2>1, <3>1, <3>2, <3>3, <3>4, <3>5, <3>6, <3>7, SaveBegan
    <2> QED
        BY <2>3, <2>4
<1> QED
    BY <1>1, <1>2, <1>3, <1>4

(* A step of a save writes what fits, and only beside what is tracked.     *)
LEMMA SaveStepKeeps ==
    ASSUME Keep # 1, TrainerInv, SaveStep, UNCHANGED filterEpoch
    PROVE  TrainerInv' /\ [Store!Next]_storeVars
<1> USE DEF TrainerInv
<1>1. /\ UNCHANGED <<loader, left, firstPass, filterOn, pc, globalSteps, epoch, updates,
                     measured, furthest>>
      /\ Store!SaveStep
    BY DEF SaveStep, dataVars, fitVars
<1>2. /\ UNCHANGED <<up, launches, image>> /\ cur # "idle"
      /\ cur' # "idle" => step' = step
    BY <1>1 DEF Store!SaveStep, Store!Rotate, Store!OpenPart, Store!ClosePart,
                Store!OpenTracker, Store!CloseTracker, Store!Parts, Store!Managed
<1>3. Store!Next
    BY <1>1 DEF Store!Next
<1>4. Store!StoreInv'
    BY <1>3, StoreKeepsInv
<1>5. TypeOK'
    BY <1>1, <1>2, <1>4 DEF TypeOK, Store!StoreInv
<1>6. pc \in {"saving", "lastSave"} /\ step = globalSteps /\ up /\ globalSteps \in Nat
    BY <1>2 DEF StepsInOrder, TypeOK
<1>7. tracker' = tracker \/ tracker' = Truncated \/ (tracker' = step /\ cur = "tracker" /\ files' = files)
    BY <1>1 DEF Store!SaveStep, Store!Rotate, Store!OpenPart, Store!ClosePart,
                Store!OpenTracker, Store!CloseTracker
<1>8. Truncated \notin Nat
    BY StoreParameters DEF Store!StoreAssumption
<1>9. StepsInOrder'
    <2>1. tracker' \in Nat => tracker' <= globalSteps
        BY <1>6, <1>7, <1>8 DEF StepsInOrder
    <2>2. globalSteps <= TotalSteps + launches - 1 /\ TotalSteps + launches - 1 \in Int
        BY <1>6, StepIsBounded DEF StepsInOrder
    <2>3. tracker' \in Nat => tracker' <= TotalSteps + launches - 1
        BY <1>6, <2>1, <2>2
    <2> QED
        BY <1>1, <1>2, <1>6, <2>1, <2>3 DEF StepsInOrder, FilterEnabled
<1>10. UpdatesInOrder' /\ DataInOrder'
    BY <1>1, <1>2 DEF UpdatesInOrder, DataInOrder, FilterEnabled, UpdatesAfter
<1>11. /\ files \in [Store!Parts -> [Store!Steps -> Snapshot \cup {Absent, Torn}]]
       /\ Absent \notin Snapshot /\ Torn \notin Snapshot /\ step \in Store!Steps
    BY StoreParameters DEF Store!StoreInv, Store!StoreTypeOK, Store!StoreAssumption
<1>12. ASSUME NEW p \in Store!Parts, NEW s \in Store!Steps
       PROVE  \/ files'[p][s] \in {files[p][s], Absent, Torn}
              \/ files'[p][s] = image /\ s = step
    BY <1>1, <1>11 DEF Store!SaveStep, Store!Rotate, Store!OpenPart, Store!ClosePart,
                Store!OpenTracker, Store!CloseTracker
<1>13. ImagesFit'
    <2>1. /\ Fits(image, step) /\ image.loader = loader /\ image.filterOn = filterOn
        BY <1>2 DEF ImagesFit
    <2>2. ASSUME NEW p \in Store!Parts, NEW s \in Store!Steps, files'[p][s] \in Snapshot
          PROVE  Fits(files'[p][s], s)
        BY <1>11, <1>12, <2>1, <2>2 DEF ImagesFit
    <2> QED
        BY <1>1, <1>2, <2>1, <2>2
           DEF ImagesFit, Fits, UpdatesAfter, FilterEnabled, Store!Parts, Store!Managed,
               Store!Steps
<1>14. FilterSurvivesRestart'
    <2> SUFFICES ASSUME tracker' \in Nat
                 PROVE  LET filter == files'["filter"][tracker']
                        IN filter.filterOn => filterOn /\ loader \subseteq filter.loader
        BY <1>1, <1>2, <1>6 DEF FilterSurvivesRestart, DataInOrder
    <2>1. CASE tracker' = step /\ cur = "tracker" /\ files' = files
        <3>1. files["filter"][step] = image
            BY <2>1 DEF Store!StoreInv, Store!WrittenHoldsImage, Store!Written, Store!Parts
        <3> QED
            BY <1>2, <2>1, <3>1 DEF ImagesFit
    <2>2. CASE tracker' = tracker
        <3>1. step > tracker /\ tracker \in Nat /\ tracker \in Store!Steps /\ step \in Nat
            BY <1>2, <1>6, <1>8, <2>2, StoreParameters
               DEF Store!StoreInv, Store!SaveIsAhead, Store!StoreTypeOK, Store!StoreAssumption
        <3>2. "filter" \in Store!Parts /\ "filter" \notin Store!Managed
            BY DEF Store!Parts, Store!Managed
        <3>3. files'["filter"][tracker] = files["filter"][tracker]
            BY <1>1, <1>11, <3>1, <3>2 DEF Store!SaveStep, Store!Rotate, Store!OpenPart,
                Store!ClosePart, Store!OpenTracker, Store!CloseTracker
        <3> QED
            BY <1>6, <2>2, <3>1, <3>3 DEF FilterSurvivesRestart
    <2> QED
        BY <1>7, <1>8, <2>1, <2>2
<1> QED
    BY <1>3, <1>4, <1>5, <1>9, <1>10, <1>13, <1>14

(* What a process loads was saved together and fits the step it starts at. *)
LEMMA LaunchKeeps ==
    ASSUME Keep # 1, TrainerInv, Launch
    PROVE  TrainerInv' /\ [Store!Next]_storeVars
<1> USE DEF TrainerInv
<1>1. /\ Store!Launch /\ firstPass' = TRUE /\ epoch' = 0 /\ measured' = {}
      /\ pc' = "top" /\ UNCHANGED <<filterEpoch, furthest>> /\ cur = "idle"
      /\ ~ up /\ up' /\ launches' = launches + 1
      /\ UNCHANGED <<files, tracker, cur, stage, step, image>>
    BY DEF Launch, Store!Launch, StepsInOrder
<1>2. Store!Next
    BY <1>1 DEF Store!Next
<1>3. Store!StoreInv'
    BY <1>2, StoreKeepsInv
<1>4. /\ launches \in Nat /\ launches + 1 <= MaxLaunches /\ MaxLaunches \in Nat
      /\ TotalSteps \in Nat /\ TotalSteps >= 1 /\ TotalEpochs \in Nat /\ TotalEpochs >= 1
      /\ MaxStep \in Nat /\ MaxStep >= TotalSteps + MaxLaunches
    BY <1>1, StoreParameters, TrainerAssumption
       DEF Store!Launch, Store!StoreInv, Store!StoreTypeOK, Store!StoreAssumption,
           TrainerAssumption
<1>5. Absent \notin Snapshot /\ Torn \notin Snapshot /\ "data" \in Store!Parts
      /\ "actor" \in Store!Parts /\ "filter" \in Store!Parts
    BY StoreParameters DEF Store!StoreAssumption, Store!Parts, Store!Managed
<1>6. /\ updates' \in 0..MaxStep /\ updates' <= globalSteps' - 1
      /\ ~ FilterEnabled => updates' = UpdatesAfter(globalSteps' - 1)
      /\ globalSteps' \in 1..(TotalSteps + launches)
      /\ tracker \in Nat => tracker < globalSteps'
      /\ filterOn' \in BOOLEAN /\ left' \subseteq loader' /\ loader' \subseteq Prompts
      /\ tracker \in Nat =>
            LET filter == files["filter"][tracker]
            IN filter.filterOn => filterOn' /\ loader' \subseteq filter.loader
    <2>1. CASE Store!HasLatest
        <3> DEFINE saving == files["actor"][tracker]
        <3>1. tracker \in Nat /\ tracker \in Store!Steps /\ tracker <= TotalSteps + launches - 1
            BY <2>1, StoreParameters
               DEF Store!HasLatest, Store!StoreInv, Store!StoreTypeOK, Store!StoreAssumption,
                   StepsInOrder
        <3>2. /\ saving \in Snapshot
              /\ files["data"][tracker] = saving /\ files["filter"][tracker] = saving
            BY <1>5, <3>1 DEF Store!StoreInv, Store!TrackedIsWhole, Store!Whole
        <3>3. Fits(saving, tracker)
            BY <1>5, <3>1, <3>2 DEF ImagesFit
        <3> HIDE DEF saving
        <3>4. /\ saving # Absent
              /\ saving.updates \in 0..MaxStep /\ saving.filterOn \in BOOLEAN
              /\ saving.loader \subseteq Prompts /\ saving.left \subseteq Prompts
            BY <1>5, <3>2 DEF Snapshot
        <3>5. Restore
            BY <2>1 DEF Launch
        <3>6. /\ updates' = saving.updates /\ globalSteps' = tracker + 1
              /\ filterOn' = saving.filterOn
              /\ loader' = KeptPrompts
              /\ left' \in RestoredLeft(saving, KeptPrompts)
            BY <3>2, <3>4, <3>5 DEF Restore, StepAfterLoad, saving
        <3>7. KeptPrompts = IF saving.filterOn THEN saving.loader ELSE Prompts
            BY <3>2, <3>4 DEF KeptPrompts
        <3>8. left' \subseteq loader' /\ loader' \subseteq Prompts
            BY <3>3, <3>4, <3>6, <3>7 DEF RestoredLeft, Fits
        <3>9. globalSteps' \in 1..(TotalSteps + launches) /\ tracker < globalSteps'
              /\ globalSteps' - 1 = tracker
            BY <1>4, <3>1, <3>6
        <3>10. /\ updates' <= tracker
               /\ ~ FilterEnabled => updates' = UpdatesAfter(tracker)
            BY <3>3, <3>6 DEF Fits
        <3> QED
            BY <3>2, <3>4, <3>6, <3>7, <3>8, <3>9, <3>10
    <2>2. CASE ~ Store!HasLatest
        <3>1. tracker \notin Nat
            <4> SUFFICES ASSUME tracker \in Nat
                         PROVE  FALSE
                OBVIOUS
            <4>1. files["data"][tracker] # Absent
                BY <1>5 DEF Store!StoreInv, Store!TrackedIsWhole, Store!Whole
            <4> QED
                BY <1>5, <2>2, <4>1 DEF Store!HasLatest, Store!FolderExists
        <3>2. FromScratch
            BY <2>2 DEF Launch
        <3>3. globalSteps' - 1 = 0
            BY <3>2 DEF FromScratch
        <3>4. updates' = UpdatesAfter(globalSteps' - 1)
            BY <3>2, <3>3, UpdatesCount DEF FromScratch
        <3>5. updates' = 0 /\ globalSteps' = 1
            BY <3>2 DEF FromScratch
        <3>6. filterOn' = FALSE /\ left' = Prompts /\ loader' = Prompts
            BY <3>2 DEF FromScratch
        <3>7. updates' \in 0..MaxStep /\ updates' <= globalSteps' - 1
            BY <1>4, <3>5
        <3>8. globalSteps' \in 1..(TotalSteps + launches)
            BY <1>4, <3>5
        <3> QED
            BY <3>1, <3>4, <3>6, <3>7, <3>8
    <2> QED
        BY <2>1, <2>2
<1>7. TypeOK'
    <2>1. globalSteps' \in 0..(MaxStep + 1) /\ epoch' \in 0..(TotalEpochs - 1)
        BY <1>1, <1>4, <1>6
    <2> QED
        BY <1>1, <1>3, <1>6, <2>1 DEF TypeOK, Store!StoreInv
<1>8. StepsInOrder'
    <2>1. launches' >= 1 /\ TotalSteps + launches' - 1 = TotalSteps + launches
        BY <1>1, <1>4
    <2>2. tracker \in Nat => tracker <= TotalSteps + launches
        BY <1>4 DEF StepsInOrder
    <2>3. tracker \in Nat => tracker <= globalSteps'
        BY <1>4, <1>6
    <2> QED
        BY <1>1, <1>6, <2>1, <2>2, <2>3 DEF StepsInOrder
<1>9. UpdatesInOrder' /\ DataInOrder'
    BY <1>1, <1>6 DEF UpdatesInOrder, DataInOrder, FilterEnabled, UpdatesAfter
<1>10. ImagesFit'
    BY <1>1 DEF ImagesFit, Fits, UpdatesAfter, FilterEnabled, Store!Parts, Store!Managed,
                Store!Steps
<1>11. FilterSurvivesRestart'
    BY <1>1, <1>6 DEF FilterSurvivesRestart
<1> QED
    BY <1>2, <1>3, <1>7, <1>8, <1>9, <1>10, <1>11

(* The invariant holds at first.                                           *)
LEMMA TrainerInit == Init => TrainerInv
<1> SUFFICES ASSUME Init
             PROVE  TrainerInv
    OBVIOUS
<1> USE DEF Init
<1>1. /\ MaxStep \in Nat /\ TotalEpochs \in Nat /\ TotalEpochs >= 1
      /\ NoTracker \notin Nat /\ Absent \notin Snapshot /\ Torn \notin Snapshot
      /\ MaxLaunches \in Nat
    BY StoreParameters, TrainerAssumption DEF Store!StoreAssumption, TrainerAssumption
<1>2. Store!StoreInit
    OBVIOUS
<1>3. Store!StoreTypeOK
    <2>1. files \in [Store!Parts -> [Store!Steps -> Snapshot \cup {Absent, Torn}]]
        BY <1>2 DEF Store!StoreInit
    <2>2. saved \in [Store!Managed -> Seq(Store!Steps)]
        BY <1>2 DEF Store!StoreInit
    <2>3. step \in Store!Steps /\ launches \in 0..MaxLaunches
        BY <1>1, <1>2 DEF Store!StoreInit, Store!Steps
    <2> QED
        BY <1>2, <2>1, <2>2, <2>3 DEF Store!StoreInit, Store!StoreTypeOK
<1>4. Store!StoreInv
    <2>1. cur = "idle" /\ tracker \notin Nat /\ saved = [m \in Store!Managed |-> << >>]
        BY <1>1, <1>2 DEF Store!StoreInit
    <2>2. Store!SaveIsAhead /\ Store!TrackedIsWhole
        BY <2>1 DEF Store!SaveIsAhead, Store!TrackedIsWhole
    <2>3. Store!WrittenHoldsImage
        BY <2>1 DEF Store!WrittenHoldsImage, Store!Written
    <2>4. Store!NewestIsTracked
        BY <2>1 DEF Store!NewestIsTracked, Store!Ascending
    <2> QED
        BY <1>3, <2>2, <2>3, <2>4 DEF Store!StoreInv
<1>5. TypeOK
    <2>1. globalSteps \in 0..(MaxStep + 1) /\ updates \in 0..MaxStep /\ furthest \in 0..MaxStep
        BY <1>1
    <2>2. epoch \in 0..(TotalEpochs - 1)
        BY <1>1
    <2>3. up = FALSE
        BY <1>2 DEF Store!StoreInit
    <2>4. /\ pc = "down" /\ loader = Prompts /\ left = Prompts /\ firstPass = TRUE
          /\ filterOn = FALSE /\ measured = {}
        OBVIOUS
    <2> HIDE DEF Init
    <2> QED
        BY <1>3, <2>1, <2>2, <2>3, <2>4 DEF TypeOK
<1>6. StepsInOrder /\ UpdatesInOrder /\ DataInOrder /\ FilterSurvivesRestart
    BY <1>1, <1>2 DEF Store!StoreInit, StepsInOrder, UpdatesInOrder, DataInOrder,
                      FilterSurvivesRestart
<1>7. ImagesFit
    BY <1>1, <1>2 DEF Store!StoreInit, ImagesFit
<1> QED
    BY <1>4, <1>5, <1>6, <1>7 DEF TrainerInv

(* Every step of the trainer keeps the invariant and is a step of the      *)
(* store, or none.                                                         *)
LEMMA TrainerStep ==
    Keep # 1 /\ TrainerInv /\ [Next]_vars => TrainerInv' /\ [Store!Next]_storeVars
<1> SUFFICES ASSUME Keep # 1, TrainerInv, [Next]_vars
             PROVE  TrainerInv' /\ [Store!Next]_storeVars
    OBVIOUS
<1>1. CASE UNCHANGED vars
    <2>1. UNCHANGED storeVars
        BY <1>1 DEF vars
    <2>2. Store!StoreInv'
        BY <2>1, StoreKeepsInv DEF TrainerInv
    <2>3. UNCHANGED <<filterEpoch, pc, globalSteps, epoch, updates, measured, furthest,
                      loader, left, firstPass, filterOn>>
        BY <1>1 DEF vars, fitVars, dataVars
    <2>4. UNCHANGED <<up, launches, files, tracker, saved, cur, stage, step, image>>
        BY <2>1 DEF storeVars
    <2>5. TypeOK'
        BY <2>2, <2>3, <2>4 DEF TrainerInv, TypeOK, Store!StoreInv
    <2>6. StepsInOrder' /\ UpdatesInOrder' /\ DataInOrder' /\ FilterSurvivesRestart'
        BY <2>3, <2>4 DEF TrainerInv, StepsInOrder, UpdatesInOrder, DataInOrder,
                          FilterSurvivesRestart, FilterEnabled, UpdatesAfter
    <2>7. ImagesFit'
        BY <2>3, <2>4 DEF TrainerInv, ImagesFit, Fits, UpdatesAfter, FilterEnabled,
                          Store!Parts, Store!Managed, Store!Steps
    <2> QED
        BY <2>1, <2>2, <2>5, <2>6, <2>7 DEF TrainerInv
<1>2. Next => UNCHANGED filterEpoch
    BY DEF Next, Launch, Fit, Crash
<1> QED
    BY <1>1, <1>2, LaunchKeeps, TrainStepKeeps, AfterSaveKeeps, PassEndKeeps, SaveStepKeeps
       DEF Next, Fit

(* The inductive invariant, and with it the type invariant, holds in every *)
(* reachable state.                                                        *)
THEOREM TrainerInvariant == Keep # 1 /\ Spec => []TrainerInv
<1> SUFFICES ASSUME Keep # 1
             PROVE  Spec => []TrainerInv
    OBVIOUS
<1>1. TrainerInv /\ [Next]_vars => TrainerInv'
    BY TrainerStep
<1> QED
    BY TrainerInit, <1>1, PTL DEF Spec

(* The trainer uses the checkpoint directory as the store requires,        *)
(* whatever it resumed from: each of its steps is one of the store or      *)
(* leaves it alone.  This is ImplementsStore but for its fairness.         *)
THEOREM TrainerUsesStore ==
    Keep # 1 /\ Spec => Store!StoreInit /\ [][Store!Next]_storeVars
<1> SUFFICES ASSUME Keep # 1
             PROVE  Spec => Store!StoreInit /\ [][Store!Next]_storeVars
    OBVIOUS
<1>1. Init => Store!StoreInit
    BY DEF Init
<1>2. TrainerInv /\ [Next]_vars => [Store!Next]_storeVars
    BY TrainerStep
<1>3. Spec => []TrainerInv
    BY TrainerInvariant
<1> QED
    BY <1>1, <1>2, <1>3, PTL DEF Spec

(* Without the filter, the weights of a running process have received the  *)
(* update of every step before its own, once.                              *)
THEOREM UpdatesAlwaysMatchSteps == Keep # 1 /\ Spec => []UpdatesMatchSteps
<1> SUFFICES ASSUME Keep # 1
             PROVE  Spec => []UpdatesMatchSteps
    OBVIOUS
<1>1. TrainerInv => UpdatesMatchSteps
    BY DEF TrainerInv, UpdatesInOrder, UpdatesMatchSteps, UpdatesAfter
<1>2. Spec => []TrainerInv
    BY TrainerInvariant
<1> QED
    BY <1>1, <1>2, PTL

(* Once a tracked checkpoint records a filtered data set, every process    *)
(* trains only the prompts that were kept.                                 *)
THEOREM FilterAlwaysSurvives == Keep # 1 /\ Spec => []FilterSurvivesRestart
<1> SUFFICES ASSUME Keep # 1
             PROVE  Spec => []FilterSurvivesRestart
    OBVIOUS
<1>1. TrainerInv => FilterSurvivesRestart
    BY DEF TrainerInv
<1>2. Spec => []TrainerInv
    BY TrainerInvariant
<1> QED
    BY <1>1, <1>2, PTL

(* In the trainer, too, the checkpoint a relaunch would load is whole.     *)
THEOREM TrainerTracksWhole == Keep # 1 /\ Spec => []Store!TrackedIsWhole
<1> SUFFICES ASSUME Keep # 1
             PROVE  Spec => []Store!TrackedIsWhole
    OBVIOUS
<1>1. TrainerInv => Store!TrackedIsWhole
    BY DEF TrainerInv, Store!StoreInv
<1>2. Spec => []TrainerInv
    BY TrainerInvariant
<1> QED
    BY <1>1, <1>2, PTL

-----------------------------------------------------------------------------
(* How much work a process that dies costs, when checkpoints are saved at  *)
(* all: the step the tracker names, and the steps trained since.           *)
Tracked == IF tracker \in Nat THEN tracker ELSE 0

\* A save that is over has written the tracker.
SaveOver == pc \in {"saving", "lastSave"} /\ cur = "idle"

WorkNear ==
    /\ up => furthest <= (globalSteps - 1) + SaveFreq
    /\ tracker # Truncated => furthest <= Tracked + SaveFreq
    /\ pc = "top" =>
          /\ tracker # Truncated
          /\ globalSteps - 1 <= Tracked + ((globalSteps - 1) % SaveFreq)
    /\ SaveOver => tracker = globalSteps

(* How far the passes of a process reach, without the prompt filter: the   *)
(* batches a pass has left, and those of the epochs to come.               *)
Drawable(rest) == Cardinality(rest) \div BatchSize
PassSize       == Drawable(Prompts)
AheadFrom(e)   == PassSize * (TotalEpochs - 1 - e)
BatchesAhead   == Drawable(left) + AheadFrom(epoch)

\* Whoever resumes with these prompts left has a batch to train.
CanTrain(rest) == Drawable(rest) >= 1 \/ TotalEpochs > 1

NoFilter ==
    /\ up => loader = Prompts /\ ~ filterOn
    /\ cur # "idle" => image.left = left
    /\ \A p \in Store!Parts, s \in Store!Steps :
          files[p][s] \in Snapshot => ~ files[p][s].filterOn

(* The passes reach the last step: a pass has been drawn from at most once *)
(* for each step, and that holds of whatever a process resumes from.       *)
PassesReach ==
    /\ pc = "top" =>
          /\ Drawable(left) + (globalSteps - 1) >= PassSize
          /\ BatchesAhead + (globalSteps - 1) >= TotalSteps
    /\ pc = "saving" =>
          /\ Drawable(left) + globalSteps >= PassSize
          /\ BatchesAhead + globalSteps >= TotalSteps
    /\ \A p \in Store!Parts, s \in Store!Steps :
          files[p][s] \in Snapshot => Drawable(files[p][s].left) + s >= PassSize

(* No process goes further than the last step or, resumed from there, than *)
(* the one after it; and none does that leaves nothing to train.           *)
FurthestIsSaved ==
    /\ tracker # Truncated => furthest <= TotalSteps \/ furthest <= Tracked + 1
    /\ up => furthest <= TotalSteps \/ furthest <= globalSteps
    /\ tracker \in Nat =>
          /\ tracker <= furthest
          /\ tracker >= TotalSteps /\ furthest > tracker => CanTrain(files["data"][tracker].left)
    /\ pc = "top" /\ globalSteps - 1 >= TotalSteps =>
          /\ tracker = globalSteps - 1
          /\ furthest > tracker => BatchesAhead >= 1
          /\ Drawable(left) >= 1 => CanTrain(files["data"][tracker].left)
    /\ pc = "saving" => globalSteps <= furthest /\ (IsLastStep => furthest = globalSteps)
    /\ ReturnedIsSaved

FinishInv == WorkNear /\ NoFilter /\ PassesReach /\ FurthestIsSaved

(* Quotient and remainder.                                                 *)
LEMMA DivisionIs ==
    ASSUME NEW n \in Nat, NEW k \in Nat \ {0}
    PROVE  /\ n % k \in 0..(k - 1)
           /\ n \div k \in Nat
           /\ n = k * (n \div k) + (n % k)
    BY SMT

(* A remainder grows by one until it wraps.                                *)
LEMMA NextRemainder ==
    ASSUME NEW n \in Nat, NEW k \in Nat \ {0}
    PROVE  /\ n % k \in 0..(k - 1)
           /\ (n + 1) % k # 0 => (n + 1) % k = (n % k) + 1
<1> DEFINE q == n \div k
           r == n % k
           p == (n + 1) \div k
           s == (n + 1) % k
<1>1. q \in Nat /\ r \in 0..(k - 1) /\ n = k * q + r
    BY DivisionIs
<1>2. p \in Nat /\ s \in 0..(k - 1) /\ n + 1 = k * p + s
  <2>1. n + 1 \in Nat
        OBVIOUS
  <2> QED BY <2>1, DivisionIs
<1> HIDE DEF q, r, p, s
<1>3. k * (p - q) = r + 1 - s
  <2>1. k * (p - q) = k * p - k * q /\ k * p \in Int /\ k * q \in Int
        BY <1>1, <1>2
  <2> QED BY <2>1, <1>1, <1>2
<1>4. ASSUME p - q >= 2 PROVE FALSE
  <2>1. k * (p - q) >= k * 2
        BY <1>1, <1>2, <1>4
  <2> QED BY <2>1, <1>1, <1>2, <1>3
<1>5. ASSUME p - q <= -1 PROVE FALSE
  <2>1. k * (p - q) <= k * (-1)
        BY <1>1, <1>2, <1>5
  <2> QED BY <2>1, <1>1, <1>2, <1>3
<1>6. p - q = 0 \/ p - q = 1
    BY <1>1, <1>2, <1>4, <1>5
<1>7. s # 0 => s = r + 1
    BY <1>1, <1>2, <1>3, <1>6
<1> QED BY <1>1, <1>7 DEF r, s

(* Remainders by the save frequency.                                       *)
LEMMA RemainderIs ==
    ASSUME NEW n \in Nat, SaveFreq > 0
    PROVE  /\ SaveFreq \in Nat \ {0}
           /\ n % SaveFreq \in 0..(SaveFreq - 1)
           /\ (n + 1) % SaveFreq # 0 => (n + 1) % SaveFreq = (n % SaveFreq) + 1
<1>1. SaveFreq \in Nat \ {0}
    BY TrainerAssumption DEF TrainerAssumption
<1> QED
    BY <1>1, NextRemainder

(* What the tracker may name.                                              *)
LEMMA TrackerIs ==
    ASSUME TrainerInv
    PROVE  /\ Tracked \in Nat /\ furthest \in Nat /\ globalSteps \in Nat
           /\ Truncated \notin Nat
           /\ tracker \in Nat => Tracked = tracker /\ tracker # Truncated
           /\ up => globalSteps >= 1
           /\ up <=> pc \in {"top", "saving", "lastSave"}
           /\ TotalSteps \in Nat \ {0}
    BY StoreParameters, TrainerAssumption
       DEF TrainerInv, TypeOK, StepsInOrder, Tracked, Store!StoreAssumption, TrainerAssumption

(* A process starts after the step that the tracker names, with what was   *)
(* saved of the data at that step.                                         *)
LEMMA LaunchedAfterTracked ==
    ASSUME TrainerInv, Launch
    PROVE  /\ pc' = "top" /\ cur = "idle" /\ epoch' = 0
           /\ UNCHANGED <<files, tracker, cur, image, furthest>>
           /\ tracker # Truncated
           /\ globalSteps' = Tracked + 1
           /\ tracker \notin Nat => loader' = Prompts /\ left' = Prompts /\ ~ filterOn'
           /\ tracker \in Nat =>
                 LET data == files["data"][tracker]
                 IN  /\ tracker \in Store!Steps /\ data \in Snapshot
                     /\ ~ data.filterOn =>
                           /\ loader' = Prompts /\ ~ filterOn'
                           /\ \/ left' = data.left
                              \/ left' \in SUBSET Prompts /\ Cardinality(left') = Cardinality(data.left)
<1> USE DEF TrainerInv
<1>1. /\ pc' = "top" /\ cur = "idle" /\ epoch' = 0
      /\ UNCHANGED <<files, tracker, cur, image, furthest>>
      /\ tracker # Truncated
    BY DEF Launch, Store!Launch, Store!CanLaunch, StepsInOrder, TypeOK
<1>2. Absent \notin Snapshot /\ Torn \notin Snapshot /\ "data" \in Store!Parts /\ "filter" \in Store!Parts
    BY StoreParameters DEF Store!StoreAssumption, Store!Parts
<1>3. CASE tracker \in Nat
    <2> DEFINE data == files["data"][tracker]
    <2>1. /\ data \in Snapshot /\ files["filter"][tracker] = data /\ tracker \in Store!Steps
        BY <1>2, <1>3, StoreParameters
           DEF Store!StoreInv, Store!TrackedIsWhole, Store!Whole, Store!StoreTypeOK, Store!StoreAssumption
    <2>2. Store!HasLatest
        BY <1>2, <1>3, <2>1 DEF Store!HasLatest, Store!FolderExists
    <2>3. Restore /\ data # Absent
        BY <1>2, <2>1, <2>2 DEF Launch
    <2> HIDE DEF data
    <2>4. /\ globalSteps' = Tracked + 1 /\ filterOn' = data.filterOn
          /\ loader' = KeptPrompts /\ left' \in RestoredLeft(data, KeptPrompts)
          /\ KeptPrompts = IF data.filterOn THEN data.loader ELSE Prompts
        BY <1>3, <2>1, <2>3 DEF Restore, StepAfterLoad, KeptPrompts, Tracked, data, Snapshot
    <2>5. ~ data.filterOn => \/ left' = data.left
                             \/ left' \in SUBSET Prompts /\ Cardinality(left') = Cardinality(data.left)
        BY <2>4 DEF RestoredLeft
    <2> QED
        BY <1>1, <1>3, <2>1, <2>4, <2>5 DEF data
<1>4. CASE tracker \notin Nat
    <2>1. FromScratch
        BY <1>4 DEF Launch, Store!HasLatest
    <2> QED
        BY <1>1, <1>4, <2>1 DEF FromScratch, Tracked
<1> QED
    BY <1>3, <1>4

(* What a step of a save does to the tracker, and to what it names.        *)
LEMMA SaveStepTracks ==
    ASSUME TrainerInv, SaveStep
    PROVE  /\ UNCHANGED <<loader, left, firstPass, filterOn, pc, globalSteps, epoch, updates,
                          measured, furthest, up, image>>
           /\ pc \in {"saving", "lastSave"} /\ cur # "idle" /\ up
           /\ \/ tracker' = tracker /\ cur' # "idle"
              \/ tracker' = Truncated /\ cur' # "idle"
              \/ tracker' = globalSteps
           /\ tracker' \in Nat => tracker' = globalSteps \/ tracker' = tracker
           /\ tracker' \in Nat /\ tracker' = tracker =>
                 files'["data"][tracker] = files["data"][tracker]
           /\ \A p \in Store!Parts, s \in Store!Steps :
                 files'[p][s] \in Snapshot => \/ files'[p][s] = files[p][s]
                                              \/ files'[p][s] = image /\ s = globalSteps
<1> USE DEF TrainerInv
<1>1. /\ UNCHANGED <<loader, left, firstPass, filterOn, pc, globalSteps, epoch, updates,
                     measured, furthest, up, image>>
      /\ cur # "idle" /\ Store!SaveStep
    BY DEF SaveStep, dataVars, fitVars, Store!SaveStep, Store!Rotate, Store!OpenPart, Store!ClosePart,
           Store!OpenTracker, Store!CloseTracker, Store!Parts, Store!Managed
<1>2. pc \in {"saving", "lastSave"} /\ step = globalSteps /\ up /\ globalSteps \in Nat
    BY <1>1 DEF StepsInOrder, TypeOK
<1>3. \/ tracker' = tracker /\ cur' # "idle"
      \/ tracker' = Truncated /\ cur' # "idle"
      \/ tracker' = step
    BY <1>1 DEF Store!SaveStep, Store!Rotate, Store!OpenPart, Store!ClosePart,
                Store!OpenTracker, Store!CloseTracker, Store!After, Store!Managed, Store!Parts
<1>4. Truncated \notin Nat
    BY TrackerIs
<1>5. /\ files \in [Store!Parts -> [Store!Steps -> Snapshot \cup {Absent, Torn}]]
      /\ Absent \notin Snapshot /\ Torn \notin Snapshot /\ step \in Store!Steps
      /\ "data" \in Store!Parts /\ "data" \notin Store!Managed
    BY StoreParameters
       DEF Store!StoreInv, Store!StoreTypeOK, Store!StoreAssumption, Store!Parts, Store!Managed
<1>6. ASSUME NEW p \in Store!Parts, NEW s \in Store!Steps
      PROVE  \/ files'[p][s] \in {files[p][s], Absent, Torn}
             \/ files'[p][s] = image /\ s = step
    BY <1>1, <1>5 DEF Store!SaveStep, Store!Rotate, Store!OpenPart, Store!ClosePart,
                Store!OpenTracker, Store!CloseTracker
<1>7. ASSUME tracker' \in Nat, tracker' = tracker
      PROVE  files'["data"][tracker] = files["data"][tracker]
    <2>1. step > tracker /\ tracker \in Store!Steps /\ step \in Nat /\ tracker \in Nat
        BY <1>1, <1>2, <1>7, StoreParameters
           DEF Store!StoreInv, Store!SaveIsAhead, Store!StoreTypeOK, Store!StoreAssumption
    <2> QED
        BY <1>1, <1>5, <2>1 DEF Store!SaveStep, Store!Rotate, Store!OpenPart,
                Store!ClosePart, Store!OpenTracker, Store!CloseTracker
<1> QED
    BY <1>1, <1>2, <1>3, <1>4, <1>5, <1>6, <1>7

(* Every step keeps the process near what was saved.                       *)
LEMMA WorkNearStep ==
    ASSUME SaveFreq > 0, TrainerInv, WorkNear, [Next]_vars
    PROVE  WorkNear'
<1> USE DEF TrainerInv
<1>0. /\ SaveFreq \in Nat \ {0} /\ Tracked \in Nat /\ furthest \in Nat /\ globalSteps \in Nat
      /\ up => globalSteps >= 1 /\ globalSteps - 1 \in Nat
    <2>1. SaveFreq \in Nat \ {0}
        BY TrainerAssumption DEF TrainerAssumption
    <2> QED
        BY <2>1, TrackerIs
<1>1. CASE Launch
    <2>1. /\ pc' = "top" /\ UNCHANGED <<tracker, furthest>> /\ tracker # Truncated
          /\ globalSteps' = Tracked + 1 /\ globalSteps' - 1 = Tracked
        BY <1>0, <1>1, LaunchedAfterTracked
    <2>2. Tracked' = Tracked /\ ~ SaveOver'
        BY <2>1 DEF Tracked, SaveOver
    <2>3. (globalSteps - 1)' = Tracked /\ ((globalSteps - 1) % SaveFreq)' = Tracked % SaveFreq
        BY <2>1
    <2>4. Tracked % SaveFreq \in Nat
        BY <1>0, RemainderIs
    <2>5. furthest' <= (globalSteps - 1)' + SaveFreq
        BY <2>1, <2>3 DEF WorkNear
    <2> QED
        BY <1>0, <2>1, <2>2, <2>3, <2>4, <2>5 DEF WorkNear
<1>2. CASE TrainStep
    <2>1. /\ pc = "top" /\ up /\ tracker # Truncated
          /\ furthest' = IF globalSteps > furthest THEN globalSteps ELSE furthest
        BY <1>2 DEF TrainStep, TypeOK, WorkNear
    <2>2. /\ globalSteps \in Nat /\ globalSteps - 1 \in Nat /\ (globalSteps - 1) + 1 = globalSteps
        BY <1>0, <2>1
    <2>3. /\ (globalSteps - 1) % SaveFreq \in 0..(SaveFreq - 1)
          /\ globalSteps % SaveFreq # 0 =>
                globalSteps % SaveFreq = ((globalSteps - 1) % SaveFreq) + 1
        BY <2>2, RemainderIs
    <2>4. globalSteps - 1 <= Tracked + ((globalSteps - 1) % SaveFreq)
        BY <2>1 DEF WorkNear
    <2>5. globalSteps <= Tracked + SaveFreq
        BY <1>0, <2>2, <2>3, <2>4
    <2>6. /\ furthest' \in Nat /\ furthest' <= Tracked + SaveFreq
          /\ furthest' <= (globalSteps - 1) + SaveFreq
        BY <1>0, <2>1, <2>2, <2>5 DEF WorkNear
    <2>7. PICK esi \in {FALSE, EsiMayExpire} :
              IF ShouldSave(esi)
              THEN \E images : Store!BeginSave(globalSteps, images) /\ pc' = "saving" /\ UNCHANGED globalSteps
              ELSE EndStep
        BY <1>2 DEF TrainStep
    <2>8. CASE ShouldSave(esi)
        <3>1. /\ pc' = "saving" /\ globalSteps' = globalSteps /\ cur' = "actor" /\ tracker' = tracker
            BY <2>7, <2>8 DEF Store!BeginSave
        <3>2. ~ SaveOver' /\ Tracked' = Tracked
            BY <3>1 DEF SaveOver, Tracked
        <3> QED
            BY <2>6, <3>1, <3>2 DEF WorkNear
    <2>9. CASE ~ ShouldSave(esi)
        <3>1. ~ IsLastStep /\ globalSteps % SaveFreq # 0
            BY <2>9 DEF ShouldSave
        <3>2. /\ pc' = "top" /\ globalSteps' = globalSteps + 1 /\ tracker' = tracker
            BY <2>7, <2>9, <3>1 DEF EndStep, storeVars
        <3>3. (globalSteps - 1)' = globalSteps
            BY <1>0, <3>2
        <3>4. ((globalSteps - 1) % SaveFreq)' = globalSteps % SaveFreq
            BY <3>3
        <3>5. globalSteps <= Tracked + (globalSteps % SaveFreq)
            BY <1>0, <2>2, <2>3, <2>4, <3>1
        <3>6. ~ SaveOver' /\ Tracked' = Tracked
            BY <3>2 DEF SaveOver, Tracked
        <3>7. furthest' <= globalSteps + SaveFreq
            BY <1>0, <2>6
        <3> QED
            BY <2>1, <2>6, <3>2, <3>3, <3>4, <3>5, <3>6, <3>7 DEF WorkNear
    <2> QED
        BY <2>8, <2>9
<1>3. CASE SaveStep
    <2>1. /\ UNCHANGED <<pc, globalSteps, furthest, up>>
          /\ pc \in {"saving", "lastSave"} /\ up
          /\ \/ tracker' = tracker /\ cur' # "idle"
             \/ tracker' = Truncated /\ cur' # "idle"
             \/ tracker' = globalSteps
        BY <1>3, SaveStepTracks
    <2>2. furthest <= (globalSteps - 1) + SaveFreq
        BY <2>1 DEF WorkNear
    <2>3. tracker' # Truncated => furthest <= Tracked' + SaveFreq
        BY <1>0, <2>1, <2>2 DEF WorkNear, Tracked
    <2>4. SaveOver' => tracker' = globalSteps
        BY <2>1 DEF SaveOver
    <2> QED
        BY <2>1, <2>2, <2>3, <2>4 DEF WorkNear
<1>4. CASE AfterSave
    <2>1. /\ pc = "saving" /\ cur = "idle" /\ up /\ EndStep /\ furthest' = furthest
          /\ tracker = globalSteps
        BY <1>4 DEF AfterSave, WorkNear, SaveOver, TypeOK
    <2>2. Tracked = globalSteps /\ tracker' = tracker /\ tracker # Truncated
        BY <1>0, <2>1, TrackerIs DEF EndStep, Store!Stop, storeVars
    <2>3. CASE IsLastStep
        <3>1. pc' = "returned" /\ ~ up' /\ globalSteps' = globalSteps
            BY <2>1, <2>3 DEF EndStep, Store!Stop
        <3> QED
            BY <2>1, <2>2, <3>1 DEF WorkNear, SaveOver, Tracked
    <2>4. CASE ~ IsLastStep
        <3>1. pc' = "top" /\ globalSteps' = globalSteps + 1
            BY <2>1, <2>4 DEF EndStep
        <3>2. (globalSteps - 1)' = globalSteps
            BY <1>0, <3>1
        <3>3. ((globalSteps - 1) % SaveFreq)' = globalSteps % SaveFreq
            BY <3>2
        <3>4. globalSteps % SaveFreq \in Nat
            BY <1>0, RemainderIs
        <3>5. Tracked' = globalSteps /\ ~ SaveOver'
            BY <2>2, <3>1 DEF Tracked, SaveOver
        <3>6. furthest <= globalSteps + SaveFreq
            BY <1>0, <2>2 DEF WorkNear
        <3> QED
            BY <1>0, <2>1, <2>2, <3>1, <3>2, <3>3, <3>4, <3>5, <3>6 DEF WorkNear
    <2> QED
        BY <2>3, <2>4
<1>5. CASE FilterPrompts \/ EndPass
    <2>1. /\ pc = "top" /\ up /\ NextEpoch /\ UNCHANGED <<globalSteps, furthest>>
        BY <1>5 DEF FilterPrompts, EndPass, PassIsOver, TypeOK
    <2>2. /\ tracker' = tracker
          /\ pc' = "top" \/ (pc' = "returned" /\ ~ up')
        BY <2>1 DEF NextEpoch, Store!Stop, storeVars
    <2>3. ~ SaveOver' /\ Tracked' = Tracked
        BY <2>2 DEF SaveOver, Tracked
    <2> QED
        BY <2>1, <2>2, <2>3 DEF WorkNear
<1>6. CASE StopEarly
    <2>1. /\ pc = "top" /\ up /\ UNCHANGED <<globalSteps, furthest, tracker>>
          /\ pc' = "lastSave" /\ cur' = "actor"
        BY <1>6 DEF StopEarly, PassIsOver, TypeOK, Store!BeginSave
    <2>2. ~ SaveOver' /\ Tracked' = Tracked
        BY <2>1 DEF SaveOver, Tracked
    <2> QED
        BY <2>1, <2>2 DEF WorkNear
<1>7. CASE AfterLastSave \/ Crash
    <2>1. pc' \in {"down", "returned"} /\ ~ up' /\ UNCHANGED <<globalSteps, furthest, tracker>>
        BY <1>7 DEF AfterLastSave, Crash, Store!Stop
    <2> QED
        BY <2>1 DEF WorkNear, SaveOver, Tracked
<1>8. CASE UNCHANGED vars
    BY <1>8 DEF vars, fitVars, storeVars, WorkNear, SaveOver, Tracked
<1> QED
    BY <1>1, <1>2, <1>3, <1>4, <1>5, <1>6, <1>7, <1>8 DEF Next, Fit

(* Wherever processes die, and whatever prompts are filtered, a relaunch   *)
(* repeats at most SaveFreq steps that a process had already trained.      *)
THEOREM LostWorkAlwaysBounded ==
    Keep # 1 /\ SaveFreq > 0 /\ Spec => []LostWorkIsBounded
<1> SUFFICES ASSUME Keep # 1, SaveFreq > 0
             PROVE  Spec => []LostWorkIsBounded
    OBVIOUS
<1>1. Init => WorkNear
    <2> SUFFICES ASSUME Init PROVE WorkNear
        OBVIOUS
    <2>1. pc = "down" /\ ~ up /\ furthest = 0 /\ tracker = NoTracker
        BY DEF Init, Store!StoreInit
    <2>2. Tracked = 0 /\ SaveFreq \in Nat
        BY <2>1, StoreParameters, TrainerAssumption DEF Tracked, Store!StoreAssumption, TrainerAssumption
    <2> QED
        BY <2>1, <2>2 DEF WorkNear, SaveOver
<1>2. TrainerInv /\ WorkNear /\ [Next]_vars => WorkNear'
    BY WorkNearStep
<1>3. TrainerInv /\ WorkNear => LostWorkIsBounded
    <2> SUFFICES ASSUME TrainerInv, WorkNear, up PROVE furthest - (globalSteps - 1) <= SaveFreq
        BY DEF LostWorkIsBounded
    <2>1. furthest \in Nat /\ globalSteps \in Nat /\ SaveFreq \in Int
        BY TrackerIs, TrainerAssumption DEF TrainerAssumption
    <2> QED
        BY <2>1 DEF WorkNear
<1>4. Spec => []TrainerInv
    BY TrainerInvariant
<1> QED
    BY <1>1, <1>2, <1>3, <1>4, PTL DEF Spec

(***************************************************************************)
(* Without the prompt filter, when the passes have batches enough for the  *)
(* last step: fit returns only once that step is saved.                    *)
(***************************************************************************)
PassesSuffice == TotalSteps <= TotalEpochs * PassSize

(* A batch takes one from what a pass has left; less than one is no batch. *)
LEMMA DrawableIs ==
    ASSUME NEW rest \in SUBSET Prompts
    PROVE  /\ Drawable(rest) \in Nat /\ PassSize \in Nat /\ PassSize >= 1
           /\ Cardinality(rest) < BatchSize => Drawable(rest) = 0
           /\ \A batch \in SUBSET rest :
                 Cardinality(batch) = BatchSize => Drawable(rest) = Drawable(rest \ batch) + 1
<1>1. /\ IsFiniteSet(Prompts) /\ BatchSize \in Nat \ {0} /\ BatchSize <= Cardinality(Prompts)
      /\ Cardinality(Prompts) \in Nat
    BY TrainerAssumption, FS_CardinalityType DEF TrainerAssumption
<1>2. IsFiniteSet(rest) /\ Cardinality(rest) \in Nat
    BY <1>1, FS_Subset, FS_CardinalityType
<1>3. ASSUME NEW n \in Nat
      PROVE  /\ n \div BatchSize \in Nat
             /\ n % BatchSize \in 0..(BatchSize - 1)
             /\ n = BatchSize * (n \div BatchSize) + (n % BatchSize)
    BY <1>1, DivisionIs
<1>4. ASSUME NEW q \in Nat, NEW r \in 0..(BatchSize - 1), NEW p \in Nat, NEW s \in 0..(BatchSize - 1),
             BatchSize * p + s = BatchSize * q + r
      PROVE  p = q
    <2>1. BatchSize * (p - q) = r - s
        <3>1. BatchSize * (p - q) = BatchSize * p - BatchSize * q
              /\ BatchSize * p \in Int /\ BatchSize * q \in Int
            BY <1>1
        <3> QED BY <1>1, <1>4, <3>1
    <2>2. ASSUME p - q >= 1 PROVE FALSE
        <3>1. BatchSize * (p - q) >= BatchSize * 1
            BY <1>1, <2>2
        <3> QED BY <1>1, <2>1, <3>1
    <2>3. ASSUME p - q <= -1 PROVE FALSE
        <3>1. BatchSize * (p - q) <= BatchSize * (-1)
            BY <1>1, <2>3
        <3> QED BY <1>1, <2>1, <3>1
    <2> QED
        BY <2>2, <2>3
<1>5. ASSUME NEW n \in Nat, n < BatchSize
      PROVE  n \div BatchSize = 0
    <2>1. BatchSize * (n \div BatchSize) + (n % BatchSize) = BatchSize * 0 + n
        BY <1>1, <1>3
    <2>2. n \in 0..(BatchSize - 1)
        BY <1>1, <1>5
    <2> QED
        BY <1>3, <1>4, <2>1, <2>2
<1>6. ASSUME NEW n \in Nat
      PROVE  (n + BatchSize) \div BatchSize = (n \div BatchSize) + 1
    <2> DEFINE q == n \div BatchSize
               p == (n + BatchSize) \div BatchSize
               r == n % BatchSize
               s == (n + BatchSize) % BatchSize
    <2>1. /\ q \in Nat /\ r \in 0..(BatchSize - 1) /\ n = BatchSize * q + r
          /\ p \in Nat /\ s \in 0..(BatchSize - 1) /\ n + BatchSize = BatchSize * p + s
        <3>1. n + BatchSize \in Nat
            BY <1>1
        <3> QED
            BY <1>3, <3>1
    <2> HIDE DEF q, p, r, s
    <2>2. BatchSize * (q + 1) = BatchSize * q + BatchSize /\ BatchSize * q \in Nat
        BY <1>1, <2>1
    <2>3. BatchSize * p + s = BatchSize * (q + 1) + r
        BY <1>1, <2>1, <2>2
    <2>4. p = q + 1
        BY <1>4, <2>1, <2>3
    <2> QED
        BY <2>4 DEF p, q
<1>7. PassSize \in Nat /\ PassSize >= 1
    <2>1. Cardinality(Prompts) - BatchSize \in Nat
          /\ (Cardinality(Prompts) - BatchSize) + BatchSize = Cardinality(Prompts)
        BY <1>1
    <2>2. (Cardinality(Prompts) - BatchSize) \div BatchSize \in Nat
        BY <1>3, <2>1
    <2>3. PassSize = ((Cardinality(Prompts) - BatchSize) \div BatchSize) + 1
        BY <1>6, <2>1 DEF PassSize, Drawable
    <2> QED
        BY <2>2, <2>3
<1>8. ASSUME NEW batch \in SUBSET rest, Cardinality(batch) = BatchSize
      PROVE  Drawable(rest) = Drawable(rest \ batch) + 1
    <2>1. IsFiniteSet(rest \ batch) /\ Cardinality(rest \ batch) \in Nat
        BY <1>2, FS_Subset, FS_CardinalityType
    <2>2. Cardinality(rest \ batch) = Cardinality(rest) - Cardinality(rest \cap batch)
        BY <1>2, FS_Difference
    <2>3. Cardinality(rest \cap batch) = BatchSize
        <3>1. rest \cap batch = batch
            OBVIOUS
        <3> QED
            BY <1>8, <3>1
    <2>4. Cardinality(rest \ batch) + BatchSize = Cardinality(rest)
        BY <1>1, <1>2, <2>1, <2>2, <2>3
    <2> QED
        BY <1>6, <2>1, <2>4 DEF Drawable
<1> QED
    BY <1>2, <1>3, <1>5, <1>7, <1>8 DEF Drawable

(* The epochs to come, and what an epoch takes from them.                  *)
LEMMA AheadIs ==
    /\ \A e \in 0..(TotalEpochs - 1) : AheadFrom(e) \in Nat
    /\ AheadFrom(TotalEpochs - 1) = 0
    /\ \A e \in 0..(TotalEpochs - 1) : AheadFrom(e) = PassSize + AheadFrom(e + 1)
    /\ PassSize + AheadFrom(0) = TotalEpochs * PassSize
    /\ TotalEpochs > 1 => AheadFrom(0) >= 1
<1>1. PassSize \in Nat /\ PassSize >= 1 /\ TotalEpochs \in Nat \ {0}
    BY DrawableIs, TrainerAssumption DEF TrainerAssumption
<1>2. ASSUME NEW e \in 0..(TotalEpochs - 1)
      PROVE  AheadFrom(e) \in Nat /\ AheadFrom(e) = PassSize + AheadFrom(e + 1)
    <2> DEFINE n == TotalEpochs - 1 - e
    <2>1. n \in Nat /\ TotalEpochs - 1 - (e + 1) = n - 1
        BY <1>1
    <2>2. AheadFrom(e) = PassSize * n /\ AheadFrom(e + 1) = PassSize * (n - 1)
        BY <2>1 DEF AheadFrom
    <2> HIDE DEF n
    <2>3. PassSize * (n - 1) = PassSize * n - PassSize /\ PassSize * n \in Nat
        BY <1>1, <2>1
    <2> QED
        BY <1>1, <2>2, <2>3
<1>3. AheadFrom(TotalEpochs - 1) = 0
    <2>1. TotalEpochs - 1 - (TotalEpochs - 1) = 0
        BY <1>1
    <2> QED
        BY <1>1, <2>1 DEF AheadFrom
<1>4. AheadFrom(0) = PassSize * (TotalEpochs - 1)
    BY <1>1 DEF AheadFrom
<1>5. PassSize * (TotalEpochs - 1) = TotalEpochs * PassSize - PassSize /\ TotalEpochs * PassSize \in Nat
    BY <1>1
<1>6. ASSUME TotalEpochs > 1
      PROVE  AheadFrom(0) >= 1
    <2>1. PassSize * (TotalEpochs - 1) >= 1 * (TotalEpochs - 1)
        BY <1>1, <1>6
    <2> QED
        BY <1>1, <1>4, <1>6, <2>1
<1> QED
    BY <1>1, <1>2, <1>3, <1>4, <1>5, <1>6

(* The steps of a process that does not filter.                            *)
LEMMA TurnIs ==
    ASSUME SaveFreq > 0, TrainerInv, TrainStep
    PROVE  /\ pc = "top" /\ up /\ cur = "idle" /\ up'
           /\ UNCHANGED <<files, tracker, epoch, loader, filterOn>>
           /\ Drawable(left') \in Nat /\ Drawable(left) = Drawable(left') + 1
           /\ furthest' = IF globalSteps > furthest THEN globalSteps ELSE furthest
           /\ \/ pc' = "saving" /\ globalSteps' = globalSteps /\ image'.left = left'
              \/ /\ ~ IsLastStep /\ pc' = "top" /\ globalSteps' = globalSteps + 1
                 /\ cur' = "idle"
<1>1. /\ pc = "top" /\ up /\ cur = "idle" /\ left \in SUBSET Prompts
      /\ UNCHANGED <<epoch, loader, filterOn>>
      /\ furthest' = IF globalSteps > furthest THEN globalSteps ELSE furthest
    BY DEF TrainStep, TrainerInv, TypeOK, StepsInOrder
<1>2. PICK batch \in SUBSET left : Cardinality(batch) = BatchSize /\ left' = left \ batch
    BY DEF TrainStep
<1>3. Drawable(left') \in Nat /\ Drawable(left) = Drawable(left') + 1
    <2>1. left \ batch \in SUBSET Prompts
        BY <1>1
    <2>2. Drawable(left \ batch) \in Nat
        BY <2>1, DrawableIs
    <2>3. Drawable(left) = Drawable(left \ batch) + 1
        BY <1>1, <1>2, DrawableIs
    <2> QED
        BY <1>2, <2>2, <2>3
<1>4. PICK esi \in {FALSE, EsiMayExpire} :
          IF ShouldSave(esi)
          THEN /\ Store!BeginSave(globalSteps,
                     {[updates |-> updates', loader |-> loader, left |-> left',
                      firstPass |-> firstPass, filterOn |-> filterOn]})
               /\ pc' = "saving"
               /\ UNCHANGED globalSteps
          ELSE EndStep
    BY DEF TrainStep
<1>5. CASE ShouldSave(esi)
    <2> DEFINE saving == [updates |-> updates', loader |-> loader, left |-> left',
                          firstPass |-> firstPass, filterOn |-> filterOn]
    <2>1. Store!BeginSave(globalSteps, {saving}) /\ pc' = "saving" /\ globalSteps' = globalSteps
        BY <1>4, <1>5
    <2>2. saving.left = left'
        OBVIOUS
    <2> HIDE DEF saving
    <2>3. /\ image' = saving /\ UNCHANGED <<up, files, tracker>>
        BY <2>1 DEF Store!BeginSave
    <2> QED
        BY <1>1, <1>3, <2>1, <2>2, <2>3
<1>6. CASE ~ ShouldSave(esi)
    <2>1. ~ IsLastStep
        BY <1>6 DEF ShouldSave
    <2>2. pc' = "top" /\ globalSteps' = globalSteps + 1 /\ UNCHANGED storeVars
        BY <1>4, <1>6, <2>1 DEF EndStep
    <2> QED
        BY <1>1, <1>3, <2>1, <2>2 DEF storeVars
<1> QED
    BY <1>5, <1>6

(* What the end of a pass over the data changes.                           *)
LEMMA EndPassIs ==
    ASSUME TrainerInv, NoFilter, EndPass
    PROVE  /\ pc = "top" /\ up /\ cur = "idle" /\ cur' = "idle"
           /\ UNCHANGED <<files, tracker, loader, filterOn, globalSteps, furthest>>
           /\ Drawable(left) = 0 /\ left' = Prompts
           /\ \/ pc' = "returned" /\ ~ up' /\ epoch = TotalEpochs - 1
              \/ pc' = "top" /\ up' /\ epoch' = epoch + 1 /\ TotalEpochs > 1
<1>1. /\ pc = "top" /\ up /\ cur = "idle" /\ left \in SUBSET Prompts
      /\ Cardinality(left) < BatchSize /\ left' = loader /\ NextEpoch
      /\ UNCHANGED <<loader, filterOn, globalSteps, furthest>>
      /\ epoch \in 0..(TotalEpochs - 1) /\ TotalEpochs \in Nat
    BY TrainerAssumption
       DEF EndPass, PassIsOver, TrainerInv, TypeOK, StepsInOrder, TrainerAssumption
<1>2. Drawable(left) = 0 /\ left' = Prompts
    BY <1>1, DrawableIs DEF NoFilter
<1>3. CASE epoch + 1 = TotalEpochs
    <2>1. pc' = "returned" /\ ~ up' /\ cur' = "idle" /\ UNCHANGED <<files, tracker>>
        BY <1>1, <1>3 DEF NextEpoch, Store!Stop
    <2> QED
        BY <1>1, <1>2, <1>3, <2>1
<1>4. CASE epoch + 1 # TotalEpochs
    <2>1. epoch' = epoch + 1 /\ UNCHANGED <<pc, storeVars>>
        BY <1>1, <1>4 DEF NextEpoch
    <2> QED
        BY <1>1, <1>2, <1>4, <2>1 DEF storeVars
<1> QED
    BY <1>3, <1>4

(* What follows a save.                                                    *)
LEMMA AfterSaveIs ==
    ASSUME SaveFreq > 0, TrainerInv, WorkNear, AfterSave
    PROVE  /\ pc = "saving" /\ up /\ cur = "idle" /\ cur' = "idle"
           /\ tracker = globalSteps
           /\ UNCHANGED <<files, tracker, loader, left, filterOn, epoch, furthest>>
           /\ \/ IsLastStep /\ pc' = "returned" /\ ~ up' /\ globalSteps' = globalSteps
              \/ ~ IsLastStep /\ pc' = "top" /\ up' /\ globalSteps' = globalSteps + 1
<1>1. /\ pc = "saving" /\ up /\ cur = "idle" /\ tracker = globalSteps /\ EndStep
      /\ UNCHANGED <<loader, left, filterOn, epoch, furthest>>
    BY DEF AfterSave, dataVars, TrainerInv, TypeOK, WorkNear, SaveOver
<1>2. CASE IsLastStep
    BY <1>1, <1>2 DEF EndStep, Store!Stop
<1>3. CASE ~ IsLastStep
    BY <1>1, <1>3 DEF EndStep, storeVars
<1> QED
    BY <1>2, <1>3

(* The steps there are where the filter is never asked.                    *)
LEMMA NextWithoutFilter ==
    ASSUME ~ FilterEnabled, TrainerInv, [Next]_vars
    PROVE  \/ Launch \/ TrainStep \/ SaveStep \/ AfterSave \/ EndPass
           \/ /\ pc' = "down" /\ ~ up' /\ cur' = "idle"
              /\ UNCHANGED <<files, tracker, globalSteps, furthest>>
           \/ UNCHANGED vars
<1>1. ~ FilterPrompts /\ ~ StopEarly
    BY DEF FilterPrompts, StopEarly, AtBoundary
<1>2. ~ AfterLastSave
    BY DEF AfterLastSave, TrainerInv, StepsInOrder
<1>3. Crash => /\ pc' = "down" /\ ~ up' /\ cur' = "idle"
               /\ UNCHANGED <<files, tracker, globalSteps, furthest>>
    BY DEF Crash, Store!Stop
<1> QED
    BY <1>1, <1>2, <1>3 DEF Next, Fit

(* Without the filter a pass is over all prompts, whoever resumed it.      *)
LEMMA NoFilterStep ==
    ASSUME SaveFreq > 0, ~ FilterEnabled, TrainerInv, WorkNear, NoFilter, [Next]_vars
    PROVE  NoFilter'
<1> DEFINE Unfiltered == \A p \in Store!Parts, s \in Store!Steps :
                            files[p][s] \in Snapshot => ~ files[p][s].filterOn
<1>0. /\ Unfiltered /\ Store!Parts' = Store!Parts /\ Store!Steps' = Store!Steps
      /\ cur # "idle" => up
    BY DEF NoFilter, Store!Parts, Store!Managed, Store!Steps, TrainerInv, StepsInOrder, TypeOK
<1>1. CASE Launch
    <2>1. /\ UNCHANGED <<files, cur>> /\ cur = "idle"
          /\ loader' = Prompts /\ ~ filterOn'
        <3>1. CASE tracker \in Nat
            <4>1. ~ files["data"][tracker].filterOn
                BY <1>0, <1>1, <3>1, LaunchedAfterTracked DEF Store!Parts
            <4> QED
                BY <1>1, <3>1, <4>1, LaunchedAfterTracked
        <3>2. CASE tracker \notin Nat
            BY <1>1, <3>2, LaunchedAfterTracked
        <3> QED
            BY <3>1, <3>2
    <2> QED
        BY <1>0, <2>1 DEF NoFilter
<1>2. CASE TrainStep
    <2>1. /\ up /\ UNCHANGED <<files, loader, filterOn>>
          /\ cur' # "idle" => image'.left = left'
        BY <1>2, TurnIs
    <2> QED
        BY <1>0, <2>1 DEF NoFilter
<1>3. CASE SaveStep
    <2>1. /\ up /\ cur # "idle" /\ UNCHANGED <<up, loader, left, filterOn, image>>
          /\ \A p \in Store!Parts, s \in Store!Steps :
                files'[p][s] \in Snapshot => files'[p][s] = files[p][s] \/ files'[p][s] = image
        BY <1>3, SaveStepTracks
    <2>2. image.left = left /\ image.filterOn = filterOn /\ ~ filterOn
        BY <2>1 DEF NoFilter, TrainerInv, ImagesFit
    <2>3. ASSUME NEW p \in Store!Parts, NEW s \in Store!Steps, files'[p][s] \in Snapshot
          PROVE  ~ files'[p][s].filterOn
        BY <1>0, <2>1, <2>2, <2>3
    <2> QED
        BY <1>0, <2>1, <2>2, <2>3 DEF NoFilter
<1>4. CASE AfterSave
    BY <1>0, <1>4, AfterSaveIs DEF NoFilter
<1>5. CASE EndPass
    BY <1>0, <1>5, EndPassIs DEF NoFilter
<1>6. CASE ~ up' /\ cur' = "idle" /\ files' = files
    BY <1>0, <1>6 DEF NoFilter
<1>7. CASE UNCHANGED vars
    BY <1>0, <1>7 DEF NoFilter, vars, storeVars, dataVars
<1> QED
    BY <1>1, <1>2, <1>3, <1>4, <1>5, <1>6, <1>7, NextWithoutFilter

(* The quantities that PassesReach and FurthestIsSaved relate.             *)
LEMMA QuantitiesAre ==
    ASSUME TrainerInv
    PROVE  /\ Drawable(left) \in Nat /\ AheadFrom(epoch) \in Nat /\ AheadFrom(0) \in Nat
           /\ PassSize \in Nat /\ PassSize >= 1
           /\ BatchesAhead = Drawable(left) + AheadFrom(epoch)
           /\ TotalEpochs \in Nat \ {0} /\ TotalSteps \in Nat \ {0}
           /\ epoch \in 0..(TotalEpochs - 1)
           /\ TotalEpochs * PassSize \in Nat
<1>1. /\ left \in SUBSET Prompts /\ epoch \in 0..(TotalEpochs - 1)
      /\ TotalEpochs \in Nat \ {0} /\ TotalSteps \in Nat \ {0}
    BY TrainerAssumption DEF TrainerInv, TypeOK, TrainerAssumption
<1>2. Drawable(left) \in Nat /\ PassSize \in Nat /\ PassSize >= 1
    BY <1>1, DrawableIs
<1>3. AheadFrom(epoch) \in Nat /\ AheadFrom(0) \in Nat
    BY <1>1, AheadIs
<1> QED
    BY <1>1, <1>2, <1>3 DEF BatchesAhead

(* What a launched process finds of the pass it resumes.                   *)
LEMMA LaunchedReach ==
    ASSUME TrainerInv, NoFilter, PassesReach, Launch
    PROVE  /\ Drawable(left') \in Nat /\ Drawable(left') + Tracked >= PassSize
           /\ tracker \in Nat => Drawable(left') = Drawable(files["data"][tracker].left)
<1>1. CASE tracker \in Nat
    <2> DEFINE data == files["data"][tracker]
    <2>1. /\ data \in Snapshot /\ tracker \in Store!Steps /\ "data" \in Store!Parts
        BY <1>1, LaunchedAfterTracked DEF Store!Parts
    <2>2. ~ data.filterOn /\ Drawable(data.left) + tracker >= PassSize
        BY <2>1 DEF NoFilter, PassesReach
    <2>3. left' = data.left \/ Cardinality(left') = Cardinality(data.left)
        BY <1>1, <2>2, LaunchedAfterTracked
    <2>4. data.left \in SUBSET Prompts
        BY <2>1 DEF Snapshot
    <2>5. Drawable(left') = Drawable(data.left)
        BY <2>3 DEF Drawable
    <2>6. Drawable(data.left) \in Nat
        BY <2>4, DrawableIs
    <2>7. Tracked = tracker
        BY <1>1, TrackerIs
    <2> QED
        BY <1>1, <2>2, <2>5, <2>6, <2>7
<1>2. CASE tracker \notin Nat
    <2>1. left' = Prompts
        BY <1>2, LaunchedAfterTracked
    <2>2. Drawable(left') = PassSize /\ PassSize \in Nat
        BY <2>1, QuantitiesAre DEF PassSize
    <2> QED
        BY <1>2, <2>2, TrackerIs
<1> QED
    BY <1>1, <1>2

(* The passes that are left suffice for the steps that are left.           *)
LEMMA PassesReachStep ==
    ASSUME SaveFreq > 0, PassesSuffice, ~ FilterEnabled, TrainerInv, WorkNear, NoFilter,
           PassesReach, [Next]_vars
    PROVE  PassesReach'
<1> DEFINE SavedReach == \A p \in Store!Parts, s \in Store!Steps :
                            files[p][s] \in Snapshot => Drawable(files[p][s].left) + s >= PassSize
<1>0. /\ SavedReach /\ Store!Parts' = Store!Parts /\ Store!Steps' = Store!Steps
      /\ PassSize' = PassSize /\ TotalSteps' = TotalSteps
      /\ BatchesAhead' = Drawable(left') + AheadFrom(epoch')
      /\ globalSteps \in Nat
    BY TrackerIs DEF PassesReach, Store!Parts, Store!Managed, Store!Steps, BatchesAhead, AheadFrom,
                     PassSize, Drawable
<1>1. CASE Launch
    <2>1. /\ pc' = "top" /\ epoch' = 0 /\ files' = files /\ globalSteps' - 1 = Tracked
          /\ Tracked \in Nat
        BY <1>1, LaunchedAfterTracked, TrackerIs
    <2>2. Drawable(left') \in Nat /\ Drawable(left') + Tracked >= PassSize
        BY <1>1, LaunchedReach
    <2>3. PassSize + AheadFrom(0) >= TotalSteps
        BY AheadIs DEF PassesSuffice
    <2>4. (Drawable(left') + AheadFrom(0)) + Tracked >= TotalSteps
        BY <2>1, <2>2, <2>3, QuantitiesAre
    <2> QED
        BY <1>0, <2>1, <2>2, <2>4 DEF PassesReach
<1>2. CASE TrainStep
    <2>1. /\ pc = "top" /\ UNCHANGED <<files, epoch>>
          /\ Drawable(left') \in Nat /\ Drawable(left) = Drawable(left') + 1
          /\ \/ pc' = "saving" /\ globalSteps' = globalSteps
             \/ pc' = "top" /\ globalSteps' = globalSteps + 1
        BY <1>2, TurnIs
    <2>2. /\ Drawable(left) + (globalSteps - 1) >= PassSize
          /\ Drawable(left) + AheadFrom(epoch) + (globalSteps - 1) >= TotalSteps
        BY <2>1 DEF PassesReach, BatchesAhead
    <2>3. /\ Drawable(left') + globalSteps >= PassSize
          /\ Drawable(left') + AheadFrom(epoch) + globalSteps >= TotalSteps
        BY <1>0, <2>1, <2>2, QuantitiesAre
    <2>4. pc' = "top" => globalSteps' - 1 = globalSteps
        BY <1>0, <2>1
    <2> QED
        BY <1>0, <2>1, <2>3, <2>4 DEF PassesReach
<1>3. CASE SaveStep
    <2>1. /\ cur # "idle" /\ UNCHANGED <<pc, globalSteps, epoch, left, image>>
          /\ pc = "saving"
          /\ \A p \in Store!Parts, s \in Store!Steps :
                files'[p][s] \in Snapshot => \/ files'[p][s] = files[p][s]
                                             \/ files'[p][s] = image /\ s = globalSteps
        BY <1>3, SaveStepTracks DEF PassesSuffice, TrainerInv, StepsInOrder
    <2>2. image.left = left /\ Drawable(left) + globalSteps >= PassSize
        BY <2>1 DEF NoFilter, PassesReach
    <2>3. ASSUME NEW p \in Store!Parts, NEW s \in Store!Steps, files'[p][s] \in Snapshot
          PROVE  Drawable(files'[p][s].left) + s >= PassSize
        BY <1>0, <2>1, <2>2, <2>3
    <2>4. BatchesAhead' = BatchesAhead
        BY <1>0, <2>1 DEF BatchesAhead
    <2>5. Drawable(left') = Drawable(left)
        BY <2>1
    <2> QED
        BY <1>0, <2>1, <2>3, <2>4, <2>5 DEF PassesReach
<1>4. CASE AfterSave
    <2>1. /\ pc = "saving" /\ UNCHANGED <<files, left, epoch>>
          /\ \/ pc' = "returned"
             \/ pc' = "top" /\ globalSteps' = globalSteps + 1
        BY <1>4, AfterSaveIs
    <2>2. /\ Drawable(left) + globalSteps >= PassSize
          /\ Drawable(left) + AheadFrom(epoch) + globalSteps >= TotalSteps
        BY <2>1 DEF PassesReach, BatchesAhead
    <2>3. pc' = "top" => globalSteps' - 1 = globalSteps
        BY <1>0, <2>1
    <2>4. Drawable(left') = Drawable(left)
        BY <2>1
    <2> QED
        BY <1>0, <2>1, <2>2, <2>3, <2>4 DEF PassesReach
<1>5. CASE EndPass
    <2>1. /\ pc = "top" /\ UNCHANGED <<files, globalSteps>> /\ globalSteps - 1 \in Nat
          /\ Drawable(left) = 0 /\ left' = Prompts
          /\ \/ pc' = "returned"
             \/ pc' = "top" /\ epoch' = epoch + 1
        BY <1>0, <1>5, EndPassIs, TrackerIs
    <2>2. Drawable(left') = PassSize
        BY <2>1 DEF PassSize
    <2>3. Drawable(left) + AheadFrom(epoch) + (globalSteps - 1) >= TotalSteps
        BY <2>1 DEF PassesReach, BatchesAhead
    <2>4. AheadFrom(epoch) = PassSize + AheadFrom(epoch + 1)
        BY QuantitiesAre, AheadIs
    <2>5. /\ PassSize + AheadFrom(epoch + 1) + (globalSteps - 1) >= TotalSteps
          /\ PassSize + (globalSteps - 1) >= PassSize
        BY <2>1, <2>3, <2>4, QuantitiesAre
    <2> QED
        BY <1>0, <2>1, <2>2, <2>5 DEF PassesReach
<1>6. CASE pc' = "down" /\ files' = files
    BY <1>0, <1>6 DEF PassesReach
<1>7. CASE UNCHANGED vars
    BY <1>0, <1>7 DEF PassesReach, BatchesAhead, vars, storeVars, dataVars, fitVars
<1> QED
    BY <1>1, <1>2, <1>3, <1>4, <1>5, <1>6, <1>7, NextWithoutFilter DEF PassesSuffice

(* No step is taken beyond the last, so what trained furthest is saved.    *)
LEMMA FurthestStep ==
    ASSUME SaveFreq > 0, PassesSuffice, ~ FilterEnabled, TrainerInv, FinishInv, [Next]_vars
    PROVE  FurthestIsSaved'
<1> DEFINE Tracker(t, f, d) ==
               t \in Nat => /\ t <= f
                            /\ t >= TotalSteps /\ f > t => CanTrain(d[t].left)
           data == files["data"]
<1>0. /\ Tracked \in Nat /\ furthest \in Nat /\ globalSteps \in Nat /\ TotalSteps \in Nat \ {0}
      /\ up => globalSteps >= 1 /\ globalSteps - 1 \in Nat
      /\ up <=> pc \in {"top", "saving", "lastSave"}
      /\ Truncated \notin Nat
      /\ tracker \in Nat => Tracked = tracker
    BY StoreParameters, TrackerIs DEF Store!StoreAssumption, Tracked
<1>1. /\ tracker # Truncated => furthest <= TotalSteps \/ furthest <= Tracked + 1
      /\ up => furthest <= TotalSteps \/ furthest <= globalSteps
      /\ Tracker(tracker, furthest, data)
      /\ pc = "top" /\ globalSteps - 1 >= TotalSteps =>
            /\ tracker = globalSteps - 1
            /\ furthest > tracker => BatchesAhead >= 1
            /\ Drawable(left) >= 1 => CanTrain(data[tracker].left)
      /\ pc = "saving" => globalSteps <= furthest /\ (globalSteps >= TotalSteps => furthest = globalSteps)
      /\ ReturnedIsSaved
    BY DEF FinishInv, FurthestIsSaved, IsLastStep
<1>2. ASSUME pc' \notin {"top", "saving"},
             tracker' # Truncated => furthest' <= TotalSteps \/ furthest' <= Tracked' + 1,
             ~ up',
             Tracker(tracker', furthest', files'["data"]),
             ReturnedIsSaved'
      PROVE  FurthestIsSaved'
    BY <1>2 DEF FurthestIsSaved, CanTrain, Drawable
<1>3. CASE Launch
    <2>1. /\ pc' = "top" /\ epoch' = 0 /\ UNCHANGED <<files, tracker, furthest>>
          /\ tracker # Truncated
          /\ globalSteps' = Tracked + 1 /\ globalSteps' - 1 = Tracked
        BY <1>0, <1>3, LaunchedAfterTracked
    <2>2. ASSUME Tracked >= TotalSteps
          PROVE  tracker \in Nat /\ tracker = Tracked
        BY <1>0, <2>2 DEF Tracked
    <2>3. ASSUME Tracked >= TotalSteps, furthest > tracker
          PROVE  Drawable(left') + AheadFrom(0) >= 1
        <3>1. CanTrain(data[tracker].left)
            BY <1>1, <2>2, <2>3
        <3>2. Drawable(left') = Drawable(data[tracker].left) /\ Drawable(left') \in Nat
            BY <1>3, <2>2, <2>3, LaunchedReach DEF FinishInv
        <3>3. Drawable(left') >= 1 \/ AheadFrom(0) >= 1
            BY <3>1, <3>2, AheadIs DEF CanTrain
        <3> QED
            BY <3>2, <3>3, QuantitiesAre
    <2>4. ASSUME Tracked >= TotalSteps, Drawable(left') >= 1
          PROVE  CanTrain(data[tracker].left)
        BY <1>3, <2>2, <2>4, LaunchedReach DEF FinishInv, CanTrain
    <2>5. BatchesAhead' = Drawable(left') + AheadFrom(0)
        BY <2>1 DEF BatchesAhead, AheadFrom, PassSize, Drawable
    <2>6. Tracked' = Tracked
        BY <2>1 DEF Tracked
    <2>7. CanTrain(data[tracker].left) => CanTrain(files'["data"][tracker'].left)
        BY <2>1
    <2> HIDE DEF data
    <2> QED
        BY <1>0, <1>1, <2>1, <2>2, <2>3, <2>4, <2>5, <2>6, <2>7
           DEF FurthestIsSaved, ReturnedIsSaved, CanTrain, Drawable, data
<1>4. CASE TrainStep
    <2>1. /\ pc = "top" /\ up /\ UNCHANGED <<files, tracker>>
          /\ furthest' = IF globalSteps > furthest THEN globalSteps ELSE furthest
          /\ Drawable(left') \in Nat /\ Drawable(left) = Drawable(left') + 1
          /\ \/ pc' = "saving" /\ globalSteps' = globalSteps
             \/ globalSteps < TotalSteps /\ pc' = "top" /\ globalSteps' = globalSteps + 1
        BY <1>0, <1>4, TurnIs DEF IsLastStep
    <2>2. Tracked' = Tracked /\ (CanTrain(data[tracker].left) => CanTrain(files'["data"][tracker'].left))
        BY <2>1 DEF Tracked
    <2>3. tracker \in Nat => tracker < globalSteps
        BY <2>1 DEF TrainerInv, StepsInOrder
    <2>4. Drawable(left) >= 1
        BY <2>1
    <2>5. globalSteps - 1 >= TotalSteps => tracker = globalSteps - 1 /\ CanTrain(data[tracker].left)
        BY <1>1, <2>1, <2>4
    <2>6. tracker # Truncated => furthest' <= TotalSteps \/ furthest' <= Tracked + 1
        BY <1>0, <1>1, <2>1, <2>5
    <2>7. ASSUME tracker \in Nat
          PROVE  /\ tracker <= furthest'
                 /\ tracker >= TotalSteps /\ furthest' > tracker => CanTrain(data[tracker].left)
        <3>1. tracker <= furthest /\ tracker < globalSteps
            BY <1>1, <2>3, <2>7
        <3>2. CASE furthest > tracker
            BY <1>0, <1>1, <2>1, <2>7, <3>1, <3>2
        <3>3. CASE ~ (furthest > tracker)
            BY <1>0, <2>1, <2>5, <2>7, <3>1, <3>3
        <3> QED
            BY <3>2, <3>3
    <2>8. globalSteps' \in Nat
        BY <1>0, <2>1
    <2>9. furthest' <= TotalSteps \/ furthest' <= globalSteps'
        BY <1>0, <1>1, <2>1
    <2>10. pc' = "top" => ~ (globalSteps' - 1 >= TotalSteps)
        BY <1>0, <2>1
    <2>11. /\ pc' = "saving" => globalSteps' <= furthest'
           /\ globalSteps' >= TotalSteps /\ pc' = "saving" => furthest' = globalSteps'
        BY <1>0, <1>1, <2>1
    <2> HIDE DEF data
    <2> QED
        BY <2>1, <2>2, <2>6, <2>7, <2>9, <2>10, <2>11
           DEF FurthestIsSaved, ReturnedIsSaved, IsLastStep
<1>5. CASE SaveStep
    <2>1. /\ UNCHANGED <<pc, globalSteps, furthest, up>>
          /\ pc = "saving" /\ up
          /\ tracker' = tracker \/ tracker' = Truncated \/ tracker' = globalSteps
          /\ tracker' \in Nat /\ tracker' = tracker => files'["data"][tracker] = data[tracker]
        BY <1>5, SaveStepTracks DEF PassesSuffice, TrainerInv, StepsInOrder
    <2>2. CASE tracker' = globalSteps
        <3>1. Tracked' = globalSteps
            BY <1>0, <2>2 DEF Tracked
        <3>2. ~ (globalSteps >= TotalSteps /\ furthest > globalSteps)
            BY <1>0, <1>1, <2>1
        <3> HIDE DEF data
        <3> QED
            BY <1>0, <1>1, <2>1, <2>2, <3>1, <3>2 DEF FurthestIsSaved, ReturnedIsSaved, IsLastStep
    <2>3. CASE tracker' = Truncated
        <3> HIDE DEF data
        <3> QED
            BY <1>0, <1>1, <2>1, <2>3 DEF FurthestIsSaved, ReturnedIsSaved, IsLastStep
    <2>4. CASE tracker' = tracker
        <3>1. Tracked' = Tracked
            BY <2>4 DEF Tracked
        <3>2. tracker \in Nat /\ CanTrain(data[tracker].left) =>
                  CanTrain(files'["data"][tracker'].left)
            BY <2>1, <2>4
        <3> HIDE DEF data
        <3> QED
            BY <1>1, <2>1, <2>4, <3>1, <3>2 DEF FurthestIsSaved, ReturnedIsSaved, IsLastStep
    <2> QED
        BY <2>1, <2>2, <2>3, <2>4
<1>6. CASE AfterSave
    <2>1. /\ pc = "saving" /\ up /\ tracker = globalSteps /\ UNCHANGED <<files, tracker, furthest>>
          /\ \/ globalSteps >= TotalSteps /\ pc' = "returned" /\ ~ up' /\ globalSteps' = globalSteps
             \/ globalSteps < TotalSteps /\ pc' = "top" /\ up' /\ globalSteps' = globalSteps + 1
        BY <1>0, <1>6, AfterSaveIs DEF FinishInv, IsLastStep
    <2>2. Tracked' = Tracked /\ (CanTrain(data[tracker].left) => CanTrain(files'["data"][tracker'].left))
        BY <2>1 DEF Tracked
    <2>3. furthest' <= TotalSteps \/ furthest' <= globalSteps'
        BY <1>0, <1>1, <2>1
    <2>4. pc' = "top" => ~ (globalSteps' - 1 >= TotalSteps)
        BY <1>0, <2>1
    <2>5. pc' = "returned" => tracker' = furthest' /\ furthest' >= TotalSteps
        BY <1>0, <1>1, <2>1
    <2> HIDE DEF data
    <2> QED
        BY <1>1, <2>1, <2>2, <2>3, <2>4, <2>5 DEF FurthestIsSaved, ReturnedIsSaved, IsLastStep
<1>7. CASE EndPass
    <2>1. /\ pc = "top" /\ up /\ UNCHANGED <<files, tracker, globalSteps, furthest>>
          /\ Drawable(left) = 0 /\ left' = Prompts
          /\ \/ pc' = "returned" /\ ~ up' /\ epoch = TotalEpochs - 1
             \/ pc' = "top" /\ up' /\ epoch' = epoch + 1 /\ TotalEpochs > 1
        BY <1>7, EndPassIs DEF FinishInv
    <2>2. Tracked' = Tracked /\ (CanTrain(data[tracker].left) => CanTrain(files'["data"][tracker'].left))
        BY <2>1 DEF Tracked
    <2>3. BatchesAhead = AheadFrom(epoch) /\ BatchesAhead + (globalSteps - 1) >= TotalSteps
        BY <2>1, QuantitiesAre DEF FinishInv, PassesReach
    <2>4. CASE pc' = "returned"
        <3>1. BatchesAhead = 0
            BY <2>1, <2>3, <2>4, AheadIs
        <3>2. globalSteps - 1 >= TotalSteps
            BY <1>0, <2>1, <2>3, <3>1
        <3>3. tracker = globalSteps - 1 /\ ~ (furthest > tracker)
            BY <1>1, <2>1, <3>1, <3>2
        <3>4. tracker \in Nat /\ tracker <= furthest
            BY <1>0, <1>1, <2>1, <3>3
        <3>5. tracker = furthest /\ furthest >= TotalSteps
            BY <1>0, <3>2, <3>3, <3>4
        <3> HIDE DEF data
        <3> QED
            BY <1>1, <2>1, <2>2, <2>4, <3>5 DEF FurthestIsSaved, ReturnedIsSaved
    <2>5. CASE pc' = "top"
        <3>1. BatchesAhead' = Drawable(Prompts) + AheadFrom(epoch + 1)
            BY <2>1, <2>5 DEF BatchesAhead, AheadFrom, PassSize, Drawable
        <3>2. BatchesAhead' = BatchesAhead
            BY <2>3, <3>1, QuantitiesAre, AheadIs DEF PassSize
        <3>3. CanTrain(files'["data"][tracker'].left)
            BY <2>1, <2>5 DEF CanTrain
        <3> HIDE DEF data
        <3> QED
            BY <1>1, <2>1, <2>2, <2>5, <3>2, <3>3 DEF FurthestIsSaved, ReturnedIsSaved
    <2> QED
        BY <2>1, <2>4, <2>5
<1>8. CASE /\ pc' = "down" /\ ~ up' /\ cur' = "idle"
           /\ UNCHANGED <<files, tracker, globalSteps, furthest>>
    <2>1. Tracked' = Tracked
        BY <1>8 DEF Tracked
    <2> QED
        BY <1>1, <1>8, <2>1 DEF FurthestIsSaved, ReturnedIsSaved
<1>9. CASE UNCHANGED vars
    <2>1. UNCHANGED <<files, tracker, globalSteps, furthest, pc, up, left, epoch>>
        BY <1>9 DEF vars, storeVars, dataVars, fitVars
    <2>2. Tracked' = Tracked /\ BatchesAhead' = BatchesAhead
        BY <2>1 DEF Tracked, BatchesAhead
    <2> QED
        BY <2>1, <2>2 DEF FinishInv, FurthestIsSaved, ReturnedIsSaved, IsLastStep
<1> QED
    BY <1>3, <1>4, <1>5, <1>6, <1>7, <1>8, <1>9, NextWithoutFilter DEF PassesSuffice

(* Unless prompts are filtered, and if the passes have batches enough for  *)
(* the last step, fit returns only with the furthest step any process      *)
(* trained saved, and with the last one reached: also in a process that    *)
(* resumes beyond the last step, and whatever part of a save a crash cut.  *)
THEOREM ReturnedAlwaysSaved ==
    Keep # 1 /\ SaveFreq > 0 /\ PassesSuffice /\ Spec => []ReturnedIsSaved
<1> SUFFICES ASSUME Keep # 1, SaveFreq > 0, PassesSuffice
             PROVE  Spec => []ReturnedIsSaved
    OBVIOUS
<1>1. Init => FinishInv
    <2> SUFFICES ASSUME Init PROVE FinishInv
        OBVIOUS
    <2>1. pc = "down" /\ ~ up /\ furthest = 0 /\ tracker = NoTracker /\ cur = "idle"
          /\ \A p \in Store!Parts, s \in Store!Steps : files[p][s] = Absent
        BY DEF Init, Store!StoreInit
    <2>2. /\ Tracked = 0 /\ SaveFreq \in Nat /\ TotalSteps \in Nat /\ tracker \notin Nat
          /\ Absent \notin Snapshot
        BY <2>1, StoreParameters, TrainerAssumption DEF Tracked, Store!StoreAssumption, TrainerAssumption
    <2>3. WorkNear
        BY <2>1, <2>2 DEF WorkNear, SaveOver
    <2>4. NoFilter /\ PassesReach
        BY <2>1, <2>2 DEF NoFilter, PassesReach
    <2>5. FurthestIsSaved
        BY <2>1, <2>2 DEF FurthestIsSaved, ReturnedIsSaved
    <2> QED
        BY <2>3, <2>4, <2>5 DEF FinishInv
<1>2. TrainerInv /\ (FilterEnabled \/ FinishInv) /\ [Next]_vars => (FilterEnabled \/ FinishInv)'
    <2> SUFFICES ASSUME TrainerInv, FilterEnabled \/ FinishInv, [Next]_vars
                 PROVE  (FilterEnabled \/ FinishInv)'
        OBVIOUS
    <2>1. UNCHANGED filterEpoch
        BY DEF Next, Launch, Fit, Crash, vars
    <2>2. CASE FilterEnabled
        BY <2>1, <2>2 DEF FilterEnabled
    <2>3. CASE ~ FilterEnabled
        BY <2>3, WorkNearStep, NoFilterStep, PassesReachStep, FurthestStep DEF FinishInv
    <2> QED
        BY <2>2, <2>3
<1>3. FilterEnabled \/ FinishInv => ReturnedIsSaved
    BY DEF FinishInv, FurthestIsSaved, ReturnedIsSaved
<1>4. Spec => []TrainerInv
    BY TrainerInvariant
<1> QED
    BY <1>1, <1>2, <1>3, <1>4, PTL DEF Spec
=============================================================================
