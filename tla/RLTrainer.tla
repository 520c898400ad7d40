------------------------------ MODULE RLTrainer ------------------------------
(***************************************************************************)
(* The driver of the RL trainer: RayPPOTrainer.fit and _load_checkpoint,   *)
(* over the checkpoint directory of CheckpointStore.  A process loads the  *)
(* latest checkpoint, trains batch after batch, saves every SaveFreq steps *)
(* and at the last one, and may die at any point; it is then launched      *)
(* again with the same configuration (trainer.resume_mode = auto).         *)
(*                                                                         *)
(* The model weights are abstracted to the number of actor updates they    *)
(* received, and the data loader to the set of prompts it iterates over    *)
(* and the set of those still ahead in the current pass.                   *)
(***************************************************************************)
EXTENDS Integers, Sequences, FiniteSets

CONSTANTS
    Prompts,      \* rows of the training set
    BatchSize,    \* data.gen_batch_size
    TotalEpochs,  \* trainer.total_epochs
    TotalSteps,   \* trainer.total_training_steps, or what derives from the epochs
    SaveFreq,     \* trainer.save_freq
    CriticWarmup, \* trainer.critic_warmup
    EsiMayExpire, \* whether should_save_ckpt_esi may return True
    FilterEpochs, \* data.prompt_filter.start_epoch of the runs; 0 when the filter is off
    MinKeep,      \* data.prompt_filter.min_prompts_to_continue
    MaxStep, MaxLaunches, Keep, UseCritic,        \* of CheckpointStore
    Absent, Torn, NoTracker, Truncated            \* of CheckpointStore

ASSUME TrainerAssumption ==
    /\ IsFiniteSet(Prompts)
    /\ BatchSize \in 1..Cardinality(Prompts)
    /\ TotalEpochs \in Nat \ {0} /\ TotalSteps \in Nat \ {0}
    /\ SaveFreq \in Int
    /\ CriticWarmup \in Nat
    /\ EsiMayExpire \in BOOLEAN
    /\ FilterEpochs \subseteq Nat /\ MinKeep \in Nat \ {0}
    /\ MaxStep >= TotalSteps + MaxLaunches

VARIABLES
    filterEpoch,  \* the one of this run, whose processes all have it
    up, launches, files, tracker, saved, cur, stage, step, image,  \* of the store
    pc,           \* where fit is: "down", "top", "saving", "lastSave", "returned"
    globalSteps,  \* self.global_steps
    epoch,        \* the loop variable of fit, from 0 in every process
    updates,      \* actor updates in the weights
    loader,       \* the prompts of train_dataloader
    left,         \* those not yet drawn in this pass
    firstPass,    \* whether the loader is in its first pass since it was built
    filterOn,     \* self._filter_active
    measured,     \* keys of self._epoch_prompt_mean
    furthest      \* history: the last step any process trained

storeVars == <<up, launches, files, tracker, saved, cur, stage, step, image>>
dataVars  == <<loader, left, firstPass, filterOn>>
fitVars   == <<pc, globalSteps, epoch, updates, measured, furthest>>
vars      == <<filterEpoch, storeVars, dataVars, fitVars>>

\* What a checkpoint records of the process.
Snapshot == [updates : 0..MaxStep, loader : SUBSET Prompts, left : SUBSET Prompts,
             firstPass : BOOLEAN, filterOn : BOOLEAN]

Store == INSTANCE CheckpointStore WITH Image <- Snapshot

\* INSTANCE leaves the assumptions on the store's constants to its user.
ASSUME StoreParameters == Store!StoreAssumption

FilterEnabled == filterEpoch > 0

IsLastStep == globalSteps >= TotalSteps

\* Mutant of ShouldSave: only the last step is saved.
ShouldSave_LastOnly(esi) == SaveFreq > 0 /\ (IsLastStep \/ esi)

\* Mutant of ShouldSave: the last step is no special case.
ShouldSave_NotLast(esi) == SaveFreq > 0 /\ (globalSteps % SaveFreq = 0 \/ esi)

ShouldSave(esi) ==
    /\ SaveFreq > 0
    /\ IsLastStep \/ globalSteps % SaveFreq = 0 \/ esi

-----------------------------------------------------------------------------
Init ==
    /\ filterEpoch \in FilterEpochs
    /\ image = [updates |-> 0, loader |-> Prompts, left |-> Prompts,
                firstPass |-> TRUE, filterOn |-> FALSE]
    /\ Store!StoreInit
    /\ pc = "down"
    /\ globalSteps = 0 /\ epoch = 0 /\ updates = 0 /\ furthest = 0
    /\ loader = Prompts /\ left = Prompts
    /\ firstPass = TRUE /\ filterOn = FALSE
    /\ measured = {}

(***************************************************************************)
(* _load_checkpoint, then global_steps += 1.                               *)
(***************************************************************************)
\* The loader state restores how many prompts of a pass were drawn.  The
\* sampler of the new process is seeded anew, so only in the first pass of a
\* loader are they known to be the same prompts.
RestoredLeft(data, kept) ==
    IF data.firstPass
    THEN {data.left}
    ELSE {rest \in SUBSET kept : Cardinality(rest) = Cardinality(data.left)}

\* Mutant of KeptPrompts: prompt_filter.pt is not read.
KeptPrompts_All == Prompts

\* The data set of the loader, from prompt_filter.pt.
KeptPrompts ==
    LET filter == files["filter"][tracker]
    IN IF filter # Absent /\ filter.filterOn THEN filter.loader ELSE Prompts

\* Mutant of StepAfterLoad: the loaded step is trained again.
StepAfterLoad_Same == tracker

\* The step of the folder's name, plus one.
StepAfterLoad == tracker + 1

Restore ==
    LET data   == files["data"][tracker]
        filter == files["filter"][tracker]
    IN /\ updates' = files["actor"][tracker].updates
       /\ globalSteps' = StepAfterLoad
       /\ filterOn' = (filter # Absent /\ filter.filterOn)
       /\ loader' = KeptPrompts
       /\ left' \in IF data = Absent THEN {KeptPrompts} ELSE RestoredLeft(data, KeptPrompts)

FromScratch ==
    /\ updates' = 0
    /\ globalSteps' = 1
    /\ filterOn' = FALSE
    /\ loader' = Prompts
    /\ left' = Prompts

Launch ==
    /\ pc \in {"down", "returned"}
    /\ Store!Launch
    /\ IF Store!HasLatest THEN Restore ELSE FromScratch
    /\ firstPass' = TRUE
    /\ epoch' = 0
    /\ measured' = {}
    /\ pc' = "top"
    /\ UNCHANGED <<filterEpoch, furthest>>

(***************************************************************************)
(* One turn of the batch loop.                                             *)
(***************************************************************************)
\* What follows the save of a step: return after the last one.
EndStep ==
    IF IsLastStep
    THEN /\ pc' = "returned"
         /\ Store!Stop
         /\ UNCHANGED globalSteps
    ELSE /\ pc' = "top"
         /\ globalSteps' = globalSteps + 1
         /\ UNCHANGED storeVars

TrainStep ==
    /\ pc = "top"
    /\ \E batch \in SUBSET left :
          /\ Cardinality(batch) = BatchSize
          /\ left' = left \ batch
          /\ measured' = IF FilterEnabled THEN measured \cup batch ELSE measured
    /\ updates' = IF CriticWarmup <= globalSteps THEN updates + 1 ELSE updates
    /\ furthest' = IF globalSteps > furthest THEN globalSteps ELSE furthest
    /\ \E esi \in {FALSE, EsiMayExpire} :
          IF ShouldSave(esi)
          THEN /\ Store!BeginSave(globalSteps,
                     {[updates |-> updates', loader |-> loader, left |-> left',
                      firstPass |-> firstPass, filterOn |-> filterOn]})
               /\ pc' = "saving"
               /\ UNCHANGED globalSteps
          ELSE EndStep
    /\ UNCHANGED <<epoch, loader, firstPass, filterOn>>

SaveStep ==
    /\ Store!SaveStep
    /\ UNCHANGED <<dataVars, fitVars>>

AfterSave ==
    /\ pc = "saving"
    /\ cur = "idle"
    /\ EndStep
    /\ UNCHANGED <<dataVars, epoch, updates, measured, furthest>>

(***************************************************************************)
(* The end of a pass: fewer prompts are left than a batch (drop_last).     *)
(***************************************************************************)
AtBoundary == FilterEnabled /\ epoch + 1 = filterEpoch

\* Mutant of PassIsOver: the prompts of the incomplete batch are waited for.
PassIsOver_AllDrawn == pc = "top" /\ left = {}

PassIsOver == pc = "top" /\ Cardinality(left) < BatchSize

\* for epoch in range(total_epochs): the next pass, or fit returns.
NextEpoch ==
    IF epoch + 1 = TotalEpochs
    THEN /\ pc' = "returned"
         /\ Store!Stop
         /\ UNCHANGED epoch
    ELSE /\ epoch' = epoch + 1
         /\ UNCHANGED <<pc, storeVars>>

\* Which of the measured prompts are useful, with a mean in (0, threshold), is
\* asked only now.  They become the data set of a new loader.
FilterPrompts ==
    /\ PassIsOver
    /\ AtBoundary
    /\ \E useful \in SUBSET measured :
          /\ Cardinality(useful) >= MinKeep
          /\ loader' = useful /\ left' = useful
    /\ firstPass' = TRUE
    /\ filterOn' = TRUE
    /\ measured' = {}
    /\ NextEpoch
    /\ UNCHANGED <<globalSteps, updates, furthest>>

\* Too few are useful: training ends early, after a last save that is named
\* after the step that would have come next.  The loader's iterator has
\* finished: whoever loads its state begins a pass.
StopEarly ==
    /\ PassIsOver
    /\ AtBoundary
    /\ \E useful \in SUBSET measured : Cardinality(useful) < MinKeep
    /\ IF SaveFreq > 0
       THEN /\ Store!BeginSave(globalSteps,
                  {[updates |-> updates, loader |-> loader, left |-> loader,
                   firstPass |-> firstPass, filterOn |-> filterOn]})
            /\ pc' = "lastSave"
       ELSE /\ pc' = "returned"
            /\ Store!Stop
    /\ UNCHANGED <<dataVars, globalSteps, epoch, updates, measured, furthest>>

AfterLastSave ==
    /\ pc = "lastSave"
    /\ cur = "idle"
    /\ pc' = "returned"
    /\ Store!Stop
    /\ UNCHANGED <<dataVars, globalSteps, epoch, updates, measured, furthest>>

EndPass ==
    /\ PassIsOver
    /\ ~ AtBoundary
    /\ left' = loader
    /\ firstPass' = FALSE
    /\ measured' = {}
    /\ NextEpoch
    /\ UNCHANGED <<loader, filterOn, globalSteps, updates, furthest>>

Crash ==
    /\ pc \in {"top", "saving", "lastSave"}
    /\ pc' = "down"
    /\ Store!Stop
    /\ UNCHANGED <<filterEpoch, dataVars, globalSteps, epoch, updates, measured, furthest>>

Fit ==
    /\ UNCHANGED filterEpoch
    /\ \/ TrainStep
       \/ SaveStep
       \/ AfterSave
       \/ FilterPrompts
       \/ StopEarly
       \/ AfterLastSave
       \/ EndPass

Next == Launch \/ Fit \/ Crash

\* A process that is not killed keeps running.
Spec == Init /\ [][Next]_vars /\ WF_vars(Fit)

-----------------------------------------------------------------------------
TypeOK ==
    /\ Store!StoreTypeOK
    /\ pc \in {"down", "top", "saving", "lastSave", "returned"}
    /\ up <=> pc \in {"top", "saving", "lastSave"}
    /\ globalSteps \in 0..(MaxStep + 1)
    /\ epoch \in 0..(TotalEpochs - 1)
    /\ updates \in 0..MaxStep
    /\ loader \subseteq Prompts /\ left \subseteq Prompts
    /\ firstPass \in BOOLEAN /\ filterOn \in BOOLEAN
    /\ measured \subseteq Prompts
    /\ furthest \in 0..MaxStep

(* The trainer uses the checkpoint directory as CheckpointStore requires:  *)
(* in particular, whatever it resumed from, it never saves at a step that  *)
(* is not after the tracked one.                                           *)
ImplementsStore == Store!Spec

(* Once a tracked checkpoint records that prompts were filtered, every     *)
(* process trains only prompts it kept, and its position is one in that    *)
(* data set ("so that the dataloader being restored matches the (filtered) *)
(* dataset that was saved into the checkpoint").                           *)
FilterSurvivesRestart ==
    up /\ tracker \in Nat =>
        LET filter == files["filter"][tracker]
        IN /\ left \subseteq loader
           /\ filter.filterOn => filterOn /\ loader \subseteq filter.loader

(* Without the prompt filter, whatever crashed and was resumed, the weights *)
(* of a running process have received exactly the updates of the steps     *)
(* before global_steps, no step twice and none skipped.                    *)
UpdatesMatchSteps ==
    ~ FilterEnabled /\ pc = "top" =>
        updates = Cardinality({s \in 1..(globalSteps - 1) : s >= CriticWarmup})

(* A relaunch never repeats more than SaveFreq steps that some process     *)
(* had already trained.                                                    *)
LostWorkIsBounded == up => furthest - (globalSteps - 1) <= SaveFreq

(* When fit returns, and no filter has ended it early, the last step was    *)
(* reached and the tracker names the checkpoint of the furthest step any   *)
(* process trained.                                                        *)
ReturnedIsSaved ==
    ~ FilterEnabled /\ pc = "returned" => tracker = furthest /\ furthest >= TotalSteps

(* Every launch ends: fit returns or the process dies.                     *)
LaunchEnds == up ~> ~ up
=============================================================================
