----------------------------- MODULE SFTTrainer ------------------------------
(***************************************************************************)
(* The trainer of supervised fine-tuning: its epoch loop, and the files it *)
(* leaves behind.  Every save writes a model step_<N>/, the resume state   *)
(* latest_ckpt/ in place, and the pointer `latest`; the last one archives  *)
(* the optimizer and exports final/.  A process that finds latest_ckpt/    *)
(* resumes from it.                                                        *)
(*                                                                         *)
(* Only the main process saves, and no barrier follows: the other ranks    *)
(* wait for it in the next backward pass.  They are one process here.      *)
(***************************************************************************)
EXTENDS Integers, Sequences, FiniteSets

CONSTANTS
    Epochs,        \* training.epochs
    Batches,       \* the batches of train_loader
    GradAccum,     \* training.gradient_accumulation_steps
    SaveInterval,  \* training.save_interval
    MaxStep,       \* bound: steps in the name of a folder
    MaxLaunches,   \* bound: processes launched
    Absent, Torn   \* contents of a file or a directory

Steps    == 0..MaxStep
EpochIds == 0..(Epochs - 1)
Weights  == [updates : Nat, seen : [EpochIds \X Batches -> Nat]]
Counters == [step : Steps, epoch : EpochIds]

ASSUME SFTAssumption ==
    /\ Epochs \in Nat \ {0} /\ GradAccum \in Nat \ {0} /\ SaveInterval \in Nat \ {0}
    /\ IsFiniteSet(Batches) /\ Batches # {}
    /\ MaxStep \in Nat /\ MaxLaunches \in Nat
    /\ Absent # Torn
    /\ \A content \in {Absent, Torn} : content \notin Nat \cup Weights \cup Counters

VARIABLES
    pc,        \* "down", "training", "finishing", "returned"
    todo,      \* what the current save still has to do, in order
    step,      \* self.current_step
    epoch,     \* self.current_epoch
    left,      \* batches of this pass not yet drawn
    accum,     \* batches accumulated since the last optimizer step
    model,     \* the weights: their updates, and how often each batch was trained
    snapshots, \* step_<N>/, by N
    hasLatest, \* whether latest_ckpt/ exists
    disk,      \* the other files: those of latest_ckpt/, of the last export, `latest`
    launches,
    furthest,  \* history: the most updates a model ever had
    finals     \* history: steps at which a final save began

procVars == <<pc, todo, step, epoch, left, accum, model>>
diskVars == <<snapshots, hasLatest, disk>>
vars     == <<procVars, diskVars, launches, furthest, finals>>

Untrained == [updates |-> 0, seen |-> [b \in EpochIds \X Batches |-> 0]]

State  == {"model", "optim", "json"}            \* in latest_ckpt/
Export == {"archive", "final", "finalOptim"}    \* step_<N>/optimizer_states, final/
Files  == State \cup Export \cup {"pointer"}

Open(p)  == [op |-> "open", file |-> p]
Close(p) == [op |-> "close", file |-> p]
Mkdir    == [op |-> "mkdir", file |-> "latest_ckpt"]
Write(p) == <<Open(p), Close(p)>>

ResumeState == <<Mkdir>> \o Write("model") \o Write("optim") \o Write("json")
FinalExport == Write("archive") \o Write("final") \o Write("finalOptim")

\* Mutant of SaveCkpt: the pointer moves first.
SaveCkpt_PointerFirst(isFinal) ==
    Write("pointer") \o Write("snapshot") \o ResumeState
        \o (IF isFinal THEN FinalExport ELSE <<>>)

\* Mutant of SaveCkpt: the last save exports only.
SaveCkpt_ExportOnly(isFinal) ==
    Write("snapshot") \o (IF isFinal THEN FinalExport ELSE ResumeState) \o Write("pointer")

\* _save_ckpt
SaveCkpt(isFinal) ==
    Write("snapshot") \o ResumeState
        \o (IF isFinal THEN FinalExport ELSE <<>>) \o Write("pointer")

Init ==
    /\ pc = "down" /\ todo = <<>>
    /\ step = 0 /\ epoch = 0 /\ left = {} /\ accum = 0
    /\ model = Untrained
    /\ snapshots = [n \in Steps |-> Absent]
    /\ hasLatest = FALSE
    /\ disk = [p \in Files |-> Absent]
    /\ launches = 0 /\ furthest = 0 /\ finals = {}

(***************************************************************************)
(* A process starts.  It resumes if latest_ckpt/ exists; load_state raises *)
(* unless model and optimizer are there and whole.  Without                *)
(* training_state.json it goes on with the weights, but from step 0.       *)
(***************************************************************************)
Resume ==
    /\ disk["model"] \notin {Absent, Torn} /\ disk["optim"] \notin {Absent, Torn}
    /\ disk["json"] # Torn
    /\ model' = disk["model"]
    /\ accum' = disk["optim"]
    /\ step'  = IF disk["json"] = Absent THEN 0 ELSE disk["json"].step
    /\ epoch' = IF disk["json"] = Absent THEN 0 ELSE disk["json"].epoch

FromScratch ==
    /\ model' = Untrained /\ accum' = 0
    /\ step' = 0 /\ epoch' = 0

\* Mutant of FirstLeft: the resumed epoch is taken for done.
FirstLeft_Done == IF hasLatest THEN {} ELSE Batches

\* The epoch of a resumed process begins again, with all its batches.
FirstLeft == Batches

Launch ==
    /\ pc \in {"down", "returned"}
    /\ launches < MaxLaunches
    /\ launches' = launches + 1
    /\ IF hasLatest THEN Resume ELSE FromScratch
    /\ left' = FirstLeft
    /\ pc' = "training"
    /\ UNCHANGED <<todo, diskVars, furthest, finals>>

(***************************************************************************)
(* The training loop.  The sampler may draw any batch of the pass.         *)
(***************************************************************************)
\* Mutant of SaveIsDue: epochs, and not steps, are counted.
SaveIsDue_PerEpoch(n) == (epoch + 1) % SaveInterval = 0 /\ Cardinality(left) = 1

SaveIsDue(n) == n % SaveInterval = 0

TrainBatch ==
    /\ pc = "training" /\ todo = <<>>
    /\ \E b \in left :
          LET syncs == left = {b} \/ (accum + 1) % GradAccum = 0
              n     == IF syncs THEN 1 ELSE 0
          IN  /\ step + n <= MaxStep
              /\ left' = left \ {b}
              /\ model' = [updates |-> model.updates + n,
                           seen |-> [model.seen EXCEPT ![<<epoch, b>>] = @ + 1]]
              /\ accum' = IF syncs THEN 0 ELSE accum + 1
              /\ step' = step + n
              /\ todo' = IF syncs /\ SaveIsDue(step + 1) THEN SaveCkpt(FALSE) ELSE <<>>
              /\ furthest' = IF model.updates + n > furthest THEN model.updates + n ELSE furthest
    /\ UNCHANGED <<pc, epoch, diskVars, launches, finals>>

\* The next epoch, or the final checkpoint.
EndPass ==
    /\ pc = "training" /\ todo = <<>>
    /\ left = {}
    /\ IF epoch + 1 < Epochs
       THEN /\ epoch' = epoch + 1
            /\ left' = Batches
            /\ UNCHANGED <<pc, todo, finals>>
       ELSE /\ pc' = "finishing"
            /\ todo' = SaveCkpt(TRUE)
            /\ finals' = finals \cup {step}
            /\ UNCHANGED <<epoch, left>>
    /\ UNCHANGED <<step, accum, model, diskVars, launches, furthest>>

(***************************************************************************)
(* A save, file by file: each is half written before it is whole.          *)
(***************************************************************************)
Doing(job) == todo # <<>> /\ Head(todo) = job

Image(p) ==
    CASE p = "model"   -> model
      [] p = "optim"   -> accum
      [] p = "json"    -> [step |-> step, epoch |-> epoch]
      [] p = "pointer" -> step
      [] p \in Export  -> model

WriteSnapshot ==
    /\ \/ Doing(Open("snapshot"))  /\ snapshots' = [snapshots EXCEPT ![step] = Torn]
       \/ Doing(Close("snapshot")) /\ snapshots' = [snapshots EXCEPT ![step] = model]
    /\ todo' = Tail(todo)
    /\ UNCHANGED <<pc, step, epoch, left, accum, model, hasLatest, disk, launches, furthest, finals>>

MakeLatest ==
    /\ Doing(Mkdir)
    /\ hasLatest' = TRUE
    /\ todo' = Tail(todo)
    /\ UNCHANGED <<pc, step, epoch, left, accum, model, snapshots, disk, launches, furthest, finals>>

WriteFile(p) ==
    /\ \/ Doing(Open(p))  /\ disk' = [disk EXCEPT ![p] = Torn]
       \/ Doing(Close(p)) /\ disk' = [disk EXCEPT ![p] = Image(p)]
    /\ todo' = Tail(todo)
    /\ UNCHANGED <<pc, step, epoch, left, accum, model, snapshots, hasLatest, launches, furthest, finals>>

Return ==
    /\ pc = "finishing" /\ todo = <<>>
    /\ pc' = "returned"
    /\ UNCHANGED <<todo, step, epoch, left, accum, model, diskVars, launches, furthest, finals>>

\* The process dies, and what it had in memory is gone.
Crash ==
    /\ pc \in {"training", "finishing"}
    /\ pc' = "down" /\ todo' = <<>>
    /\ step' = 0 /\ epoch' = 0 /\ left' = {} /\ accum' = 0
    /\ model' = Untrained
    /\ UNCHANGED <<diskVars, launches, furthest, finals>>

Train ==
    \/ TrainBatch
    \/ EndPass
    \/ WriteSnapshot
    \/ MakeLatest
    \/ \E p \in Files : WriteFile(p)
    \/ Return

Next == Launch \/ Train \/ Crash

\* A process that is not killed keeps running.
Spec == Init /\ [][Next]_vars /\ WF_vars(Train)

-----------------------------------------------------------------------------
Running == pc \in {"training", "finishing"}

(* A process that starts loses at most one save interval of training,      *)
(* wherever the one before it died, although the only resume state is      *)
(* overwritten in place; and the step it counts from never runs ahead of   *)
(* its weights.                                                            *)
LostWorkIsBounded ==
    Running =>
        /\ furthest - model.updates <= SaveInterval
        /\ step <= model.updates
        /\ model.updates - step <= SaveInterval * (launches - 1)

(* Nothing of an epoch is left out or, in a process that was never         *)
(* resumed, repeated: when train returns, every batch of every epoch was   *)
(* trained, and at most once for each process of the run.                  *)
EpochsCovered ==
    pc = "returned" =>
        \A id \in EpochIds \X Batches : model.seen[id] \in 1..launches

(* The folder that `latest` names holds a whole model, wherever processes  *)
(* die.  ("Update latest pointer": it is written last.)  The exception is  *)
(* a final save that repeats the step of the save just made.               *)
PointedIsWhole ==
    disk["pointer"] \in Steps =>
        \/ snapshots[disk["pointer"]] \notin {Absent, Torn}
        \/ disk["pointer"] \in finals

(* When train returns, the exported models, the resume state and the       *)
(* pointer all belong to the last step.                                    *)
ReturnedAllAgree ==
    pc = "returned" =>
        /\ disk["pointer"] = step
        /\ disk["json"].step = step
        /\ \A image \in {snapshots[step], disk["model"]} \cup {disk[p] : p \in Export} :
              image = model
=============================================================================
