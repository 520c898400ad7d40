--------------------------- MODULE PretrainTrainer ---------------------------
(***************************************************************************)
(* HFTrainer of pretraining: the epoch and batch loops of train, gradient  *)
(* accumulation, the resume checkpoint latest/ that is overwritten in      *)
(* place, auto-resume, and the thread that uploads the run directory.      *)
(*                                                                         *)
(* A batch is its position in the loader together with the seed by which   *)
(* the loader ordered the shards; the model is what it was trained on.     *)
(* The ranks run in lockstep between barriers and are one process here.    *)
(***************************************************************************)
EXTENDS Integers, Sequences, FiniteSets

CONSTANTS
    Epochs,        \* training.epochs
    Batches,       \* len(train_loader)
    GradAccum,     \* training.gradient_accumulation_steps
    SaveInterval,  \* training.save_interval
    HfInterval,    \* training.save_hf_interval
    Budgets,       \* the steps data.pretrain_tokens may allow
    NoBudget,      \* data.pretrain_tokens is not set
    HfRepo,        \* whether training.hf_upload_repo is set
    MaxLaunches,   \* bound: processes launched
    Absent, Torn   \* contents of a file

\* A batch: epoch, seed, position.
BatchIds == (0..(Epochs - 1)) \X (0..Epochs) \X (1..Batches)
Weights  == [updates : Nat, seen : [BatchIds -> Nat]]
Counters == [step : Nat, epoch : 0..(Epochs - 1)]
Counts   == [updates : Nat, accum : Nat]

ASSUME PretrainAssumption ==
    /\ Epochs \in Nat \ {0} /\ Batches \in Nat \ {0} /\ GradAccum \in Nat \ {0}
    /\ SaveInterval \in Nat \ {0} /\ HfInterval \in Nat \ {0}
    /\ Budgets \subseteq Nat \cup {NoBudget} /\ NoBudget \notin Nat
    /\ HfRepo \in BOOLEAN
    /\ MaxLaunches \in Nat
    /\ Absent # Torn
    /\ \A content \in {Absent, Torn} : content \notin Weights \cup Counters \cup Counts

VARIABLES
    pc,          \* "down", "training" (the epoch loop), "finishing", "returned"
    todo,        \* what the current save still has to do, in order
    maxSteps,    \* self._max_steps
    step,        \* self.current_step
    epoch,       \* self.current_epoch
    batch,       \* batches of this pass trained so far
    seed,        \* the seed of the loader, relative to _data_seed
    accum,       \* batches accumulated since the last optimizer step
    model,       \* the weights: their updates, and how often each batch was trained
    optim,       \* the updates the optimizer and the scheduler have seen
    disk,        \* the run directory
    thread,      \* _hf_upload_thread: "idle", or what it does next
    copy,        \* what the thread has read of the run directory
    remote,      \* the run directory on the Hub
    repoCleared, \* _hf_repo_cleared
    uploaded,    \* history: whether this process' last upload succeeded
    launches

procVars   == <<pc, todo, step, epoch, batch, seed, accum, model, optim>>
uploadVars == <<thread, copy, remote, repoCleared, uploaded>>
vars       == <<procVars, uploadVars, maxSteps, disk, launches>>

-----------------------------------------------------------------------------
\* The files of latest/ (accelerate writes the model, then the optimizer,
\* the scheduler and its counters) with training_state.json, and final/.
State == {"model", "optim", "json"}
Parts == State \cup {"final"}
NothingOnDisk == [p \in Parts |-> Absent]

Untrained == [updates |-> 0, seen |-> [b \in BatchIds |-> 0]]

Open(p)  == [op |-> "open", part |-> p]
Close(p) == [op |-> "close", part |-> p]
Upload   == [op |-> "upload", part |-> "all"]
Write(p) == <<Open(p), Close(p)>>

\* Mutant of ResumeCkpt: the model is written after what depends on it.
ResumeCkpt_ModelLate == Write("optim") \o Write("model") \o Write("json") \o <<Upload>>

\* _save_ckpt: save_state, then training_state.json.
ResumeCkpt == Write("model") \o Write("optim") \o Write("json") \o <<Upload>>

\* _save_hf_ckpt: the folder step_<N>/ is new and nothing reads it back, so
\* only its upload is a step here.
HfCkpt == <<Upload>>

\* _final_ckpt
FinalCkpt == Write("final") \o <<Upload>>

\* The saves that follow optimizer step n.
SavesAfter(n) ==
    (IF n % SaveInterval = 0 THEN ResumeCkpt ELSE <<>>)
        \o (IF n % HfInterval = 0 THEN HfCkpt ELSE <<>>)

Init ==
    /\ pc = "down" /\ todo = <<>>
    /\ maxSteps \in Budgets
    /\ step = 0 /\ epoch = 0 /\ batch = 0 /\ seed = 0 /\ accum = 0
    /\ model = Untrained /\ optim = 0
    /\ disk = NothingOnDisk
    /\ thread = "idle" /\ copy = NothingOnDisk /\ remote = NothingOnDisk
    /\ repoCleared = FALSE /\ uploaded = FALSE
    /\ launches = 0

(***************************************************************************)
(* A process starts: _find_latest_checkpoint, load_state and               *)
(* _load_training_state.  It raises on a file that is half written.        *)
(***************************************************************************)
\* latest/ counts once training_state.json is there.
HasLatest == disk["json"] # Absent

Resume ==
    /\ \A p \in State : disk[p] # Torn
    /\ model' = disk["model"]
    /\ optim' = disk["optim"].updates
    /\ accum' = disk["optim"].accum
    /\ step' = disk["json"].step
    /\ epoch' = disk["json"].epoch

FromScratch ==
    /\ model' = Untrained /\ optim' = 0 /\ accum' = 0
    /\ step' = 0 /\ epoch' = 0

\* What the resumed epoch is meant to skip.
BatchesToSkip(s) == (s * GradAccum) % Batches

\* The batches to skip are drawn from one iterator over the loader, and the
\* loop that trains opens another: the pass starts at its first batch.
FirstBatch(s) == 0

\* The loader of a new process has the seed of the first epoch.
Launch ==
    /\ pc \in {"down", "returned"} /\ thread = "idle"
    /\ launches < MaxLaunches
    /\ launches' = launches + 1
    /\ IF HasLatest THEN Resume ELSE FromScratch
    /\ batch' = FirstBatch(step')
    /\ seed' = 0
    /\ pc' = "training" /\ todo' = <<>>
    /\ repoCleared' = FALSE /\ uploaded' = FALSE
    /\ UNCHANGED <<maxSteps, disk, thread, copy, remote>>

(***************************************************************************)
(* One batch.  accelerate lets the optimizer step after GradAccum batches  *)
(* and at the last batch of the loader.                                    *)
(***************************************************************************)
BudgetReached == maxSteps # NoBudget /\ step >= maxSteps

\* The loader is exhausted, or a break: the budget is tested after each batch.
PassIsOver == batch = Batches \/ (batch > 0 /\ BudgetReached)

Syncs(b) == b = Batches \/ (accum + 1) % GradAccum = 0

TrainBatch ==
    /\ pc = "training" /\ todo = <<>>
    /\ ~ PassIsOver
    /\ LET b    == batch + 1
           n    == IF Syncs(b) THEN 1 ELSE 0
       IN  /\ batch' = b
           /\ model' = [updates |-> model.updates + n,
                        seen |-> [model.seen EXCEPT ![<<epoch, seed, b>>] = @ + 1]]
           /\ optim' = optim + n
           /\ step' = step + n
           /\ accum' = IF Syncs(b) THEN 0 ELSE accum + 1
           /\ todo' = IF Syncs(b) THEN SavesAfter(step + 1) ELSE <<>>
    /\ UNCHANGED <<pc, epoch, seed, uploadVars, maxSteps, disk, launches>>

\* Mutant of NextSeed: the order of the loader that has just been used.
NextSeed_Late == epoch

\* seed=self._data_seed + epoch + 1
NextSeed == epoch + 1

\* A loader is built for the next epoch, which begins; after the last one
\* come the last resume checkpoint and the final model.
EndPass ==
    /\ pc = "training" /\ todo = <<>>
    /\ PassIsOver
    /\ seed' = NextSeed
    /\ IF epoch + 1 < Epochs
       THEN /\ epoch' = epoch + 1
            /\ batch' = 0
            /\ UNCHANGED <<pc, todo>>
       ELSE /\ pc' = "finishing"
            /\ todo' = ResumeCkpt \o FinalCkpt
            /\ UNCHANGED <<epoch, batch>>
    /\ UNCHANGED <<step, accum, model, optim, uploadVars, maxSteps, disk, launches>>

(***************************************************************************)
(* A save, file by file: each is half written before it is whole.          *)
(***************************************************************************)
Doing(job) == todo # <<>> /\ Head(todo) = job

Image(p) ==
    CASE p = "model" -> model
      [] p = "optim" -> [updates |-> optim, accum |-> accum]
      [] p = "json"  -> [step |-> step, epoch |-> epoch]
      [] p = "final" -> model

OpenFile(p) ==
    /\ Doing(Open(p))
    /\ disk' = [disk EXCEPT ![p] = Torn]
    /\ todo' = Tail(todo)
    /\ UNCHANGED <<pc, step, epoch, batch, seed, accum, model, optim,
                   uploadVars, maxSteps, launches>>

CloseFile(p) ==
    /\ Doing(Close(p))
    /\ disk' = [disk EXCEPT ![p] = Image(p)]
    /\ todo' = Tail(todo)
    /\ UNCHANGED <<pc, step, epoch, batch, seed, accum, model, optim,
                   uploadVars, maxSteps, launches>>

\* Only the first upload of a process clears the repository.
FirstOfThread == IF repoCleared THEN "model" ELSE "clear"

\* _upload_run_dir_to_hf: joins the thread of the previous upload, and starts one.
StartUpload ==
    /\ Doing(Upload)
    /\ IF HfRepo
       THEN /\ thread = "idle"
            /\ thread' = FirstOfThread
            /\ repoCleared' = TRUE
       ELSE UNCHANGED <<thread, repoCleared>>
    /\ todo' = Tail(todo)
    /\ UNCHANGED <<pc, step, epoch, batch, seed, accum, model, optim,
                   copy, remote, uploaded, maxSteps, disk, launches>>

\* Mutant of Return: the last upload is not joined.
Return_NoJoin ==
    /\ pc = "finishing" /\ todo = <<>>
    /\ pc' = "returned"
    /\ UNCHANGED <<todo, step, epoch, batch, seed, accum, model, optim,
                   uploadVars, maxSteps, disk, launches>>

\* train returns once the last upload is over.
Return ==
    /\ pc = "finishing" /\ todo = <<>>
    /\ thread = "idle"
    /\ pc' = "returned"
    /\ UNCHANGED <<todo, step, epoch, batch, seed, accum, model, optim,
                   uploadVars, maxSteps, disk, launches>>

(***************************************************************************)
(* The upload thread: delete the repository, read the files one after the  *)
(* other while training goes on, commit.  Any call may raise; the thread   *)
(* then ends, except that failing to delete is ignored.                    *)
(***************************************************************************)
ClearRepo ==
    /\ thread = "clear"
    /\ remote' \in {NothingOnDisk, remote}
    /\ thread' = "model"
    /\ UNCHANGED <<procVars, maxSteps, disk, launches, copy, repoCleared, uploaded>>

ReadNext(p) ==
    CASE p = "model" -> "optim" [] p = "optim" -> "json"
      [] p = "json" -> "final"  [] p = "final" -> "commit"

ReadFile ==
    /\ thread \in Parts
    /\ copy' = [copy EXCEPT ![thread] = disk[thread]]
    /\ thread' = ReadNext(thread)
    /\ UNCHANGED <<procVars, maxSteps, disk, launches, remote, repoCleared, uploaded>>

CommitUpload ==
    /\ thread = "commit"
    /\ remote' = copy
    /\ thread' = "idle" /\ copy' = NothingOnDisk
    /\ uploaded' = TRUE
    /\ UNCHANGED <<procVars, maxSteps, disk, launches, repoCleared>>

\* Mutant of FailUpload: a failed upload is tried again.
FailUpload_Retry ==
    /\ thread \notin {"idle", "clear"}
    /\ thread' = "model" /\ copy' = NothingOnDisk
    /\ uploaded' = FALSE
    /\ UNCHANGED <<procVars, maxSteps, disk, launches, remote, repoCleared>>

FailUpload ==
    /\ thread \notin {"idle", "clear"}
    /\ thread' = "idle" /\ copy' = NothingOnDisk
    /\ uploaded' = FALSE
    /\ UNCHANGED <<procVars, maxSteps, disk, launches, remote, repoCleared>>

\* The process is killed, and its thread with it; or it raises, and the
\* interpreter waits for the thread, which is no daemon.  What it had in
\* memory is gone.
Crash ==
    /\ pc \in {"training", "finishing"}
    /\ pc' = "down" /\ todo' = <<>>
    /\ step' = 0 /\ epoch' = 0 /\ batch' = 0 /\ seed' = 0 /\ accum' = 0
    /\ model' = Untrained /\ optim' = 0
    /\ \/ UNCHANGED <<thread, copy>>
       \/ thread' = "idle" /\ copy' = NothingOnDisk
    /\ UNCHANGED <<maxSteps, disk, remote, repoCleared, uploaded, launches>>

Train ==
    \/ TrainBatch
    \/ EndPass
    \/ \E p \in Parts : OpenFile(p) \/ CloseFile(p)
    \/ StartUpload
    \/ Return

Thread == ClearRepo \/ ReadFile \/ CommitUpload \/ FailUpload

Next == Launch \/ Train \/ Thread \/ Crash

\* A process that is not killed keeps running, and so does its thread.
Spec == Init /\ [][Next]_vars /\ WF_vars(Train) /\ WF_vars(Thread)

-----------------------------------------------------------------------------
Running == pc \in {"training", "finishing"}

(* latest/ is overwritten in place, file by file, and a process may die    *)
(* between two of them; the next one then continues with new weights and   *)
(* an old optimizer or step.  The order of the writes only lets the step   *)
(* fall behind, by at most a save interval for each death.                 *)
StepLagsBoundedly ==
    Running =>
        /\ step <= optim /\ optim <= model.updates
        /\ model.updates - step <= SaveInterval * (launches - 1)

\* How often the batches at place b of epoch e were trained, in either order.
TimesTrained(e, b) == model.seen[<<e, 0, b>>] + (IF e = 0 THEN 0 ELSE model.seen[<<e, e, b>>])

(* "Skip batches if resuming mid-epoch": the weights of a process have     *)
(* been trained at most once on each batch of an epoch.                    *)
EachBatchOnce ==
    Running => \A e \in 0..(Epochs - 1), b \in 1..Batches : TimesTrained(e, b) <= 1

\* The batch lies behind the place of the training.
Passed(e, b) == e < epoch \/ (e = epoch /\ b <= batch)

(* The first process trains each batch of its epochs once, in the order of *)
(* that epoch's own seed; after that a batch is trained at most once more  *)
(* with each process that was resumed.  And however often it was resumed,  *)
(* a run without a budget that returns has trained every batch of every    *)
(* epoch, in one order of the shards at least: what a resumed process      *)
(* cannot know of its epoch it repeats.  No epoch has a third order.       *)
EpochsCovered ==
    /\ Running =>
          /\ launches = 1 /\ maxSteps = NoBudget =>
                \A id \in BatchIds :
                    model.seen[id] = IF id[2] = id[1] /\ Passed(id[1], id[3]) THEN 1 ELSE 0
          /\ \A e \in 0..(Epochs - 1), b \in 1..Batches : TimesTrained(e, b) <= launches
          /\ \A id \in BatchIds : id[2] \notin {0, id[1]} => model.seen[id] = 0
    /\ pc = "returned" /\ maxSteps = NoBudget =>
          \A e \in 0..(Epochs - 1) :
              \E s \in {0, e} : \A b \in 1..Batches : model.seen[<<e, s, b>>] >= 1

(* When train returns and no upload failed, the Hub holds the run          *)
(* directory as it is, although uploads run beside the next saves.         *)
ReturnedIsUploaded ==
    pc = "returned" /\ HfRepo /\ uploaded => remote = disk

(* Every launch ends: train returns or the process dies.                   *)
LaunchEnds == Running ~> ~ Running
=============================================================================
