--------------------------- MODULE CheckpointStore ---------------------------
(***************************************************************************)
(* The checkpoint directory of the RL trainer: what _save_checkpoint, the  *)
(* FSDP checkpoint managers of the actor and of the critic and             *)
(* find_latest_ckpt_path do to it, one file-system effect per step, with a *)
(* process that may die between any two of them.                           *)
(*                                                                         *)
(* A checkpoint global_step_<s> is made of parts.  The sub-directories     *)
(* actor/ and critic/ are written by managers that also rotate old ones;   *)
(* data.pt and prompt_filter.pt are plain files; last comes the tracker    *)
(* latest_checkpointed_iteration.txt in the parent directory.  A part that *)
(* is being written, or whose writer died, is Torn; otherwise it holds the *)
(* image the trainer had in memory when the save began.                    *)
(***************************************************************************)
EXTENDS Integers, Sequences, FiniteSets

CONSTANTS
    MaxStep,    \* bound: the largest step a checkpoint may be named after
    MaxLaunches,  \* bound: how many processes may be started
    Keep,       \* max_actor_ckpt_to_keep = max_critic_ckpt_to_keep; 0 for null
    UseCritic,  \* whether there is a critic worker group
    Image,      \* what the trainer may have in memory when it saves
    Absent, Torn,          \* contents of a part that hold no image
    NoTracker, Truncated   \* contents of the tracker that name no step

ASSUME StoreAssumption ==
    /\ MaxStep \in Nat
    /\ MaxLaunches \in Nat
    /\ Keep \in Nat
    /\ UseCritic \in BOOLEAN
    /\ Absent \notin Image /\ Torn \notin Image
    /\ NoTracker \notin Nat /\ Truncated \notin Nat

VARIABLES
    up,       \* whether a trainer process is running
    launches, \* how many were started so far
    files,    \* files[p][s]: part p of global_step_<s>
    tracker,  \* what latest_checkpointed_iteration.txt holds
    saved,    \* saved[m]: previous_saved_paths of manager m, lost with the process
    cur,      \* the part the save is at; "tracker" after the last; "idle"
    stage,    \* what is next for cur: "rotate", "write" or "close"
    step,     \* the step the running save is for, else 0
    image     \* what the last save to begin saves

storeVars == <<up, launches, files, tracker, saved, cur, stage, step, image>>

Steps   == 0..MaxStep
Managed == IF UseCritic THEN {"actor", "critic"} ELSE {"actor"}
Parts   == Managed \cup {"data", "filter"}

\* Mutant of After: the tracker is written before prompt_filter.pt.
After_TrackerBeforeFilter(p) ==
    CASE p = "actor"  -> IF UseCritic THEN "critic" ELSE "data"
      [] p = "critic" -> "data"
      [] p = "data"   -> "tracker"
      [] p = "filter" -> "tracker"

\* The order in which _save_checkpoint writes: the part after p.
After(p) ==
    CASE p = "actor"  -> IF UseCritic THEN "critic" ELSE "data"
      [] p = "critic" -> "data"
      [] p = "data"   -> "filter"
      [] p = "filter" -> "tracker"

\* The parts the running save has already completed.
Written ==
    CASE cur \in {"idle", "actor"} -> {}
      [] cur = "critic"  -> {"actor"}
      [] cur = "data"    -> Managed
      [] cur = "filter"  -> Managed \cup {"data"}
      [] cur = "tracker" -> Parts

(***************************************************************************)
(* What a relaunched process finds.                                        *)
(***************************************************************************)
\* os.path.exists of the folder the tracker names.
FolderExists(s) == \E p \in Parts : files[p][s] # Absent

\* find_latest_ckpt_path returns a folder (it raises when the tracker is
\* Truncated, since int("") does, and returns None in the other cases).
HasLatest == tracker \in Nat /\ FolderExists(tracker)

\* Every part of the folder can be loaded.
Whole(s) == \A p \in Parts : files[p][s] \in Image

\* _load_checkpoint ends without an exception.  A missing data.pt or
\* prompt_filter.pt is skipped; a missing actor/ is not.
CanLaunch ==
    /\ tracker # Truncated
    /\ HasLatest =>
          /\ \A m \in Managed : files[m][tracker] \in Image
          /\ \A p \in {"data", "filter"} : files[p][tracker] # Torn

-----------------------------------------------------------------------------
StoreInit ==
    /\ up = FALSE
    /\ launches = 0
    /\ files = [p \in Parts |-> [s \in Steps |-> Absent]]
    /\ tracker = NoTracker
    /\ saved = [m \in Managed |-> << >>]
    /\ cur = "idle"
    /\ stage = "rotate"
    /\ step = 0
    /\ image \in Image

\* A new process: new managers, which know of no saved path.
Launch ==
    /\ ~ up
    /\ launches < MaxLaunches
    /\ CanLaunch
    /\ up' = TRUE
    /\ launches' = launches + 1
    /\ saved' = [m \in Managed |-> << >>]
    /\ UNCHANGED <<files, tracker, cur, stage, step, image>>

\* The process dies, or returns from fit, wherever the save is.
Stop ==
    /\ up
    /\ up' = FALSE
    /\ saved' = [m \in Managed |-> << >>]
    /\ cur' = "idle"
    /\ stage' = "rotate"
    /\ step' = 0
    /\ UNCHANGED <<launches, files, tracker, image>>

\* _save_checkpoint is called at step s, with one of the images in memory.
BeginSave(s, images) ==
    /\ up
    /\ cur = "idle"
    /\ cur' = "actor"
    /\ stage' = "rotate"
    /\ step' = s
    /\ image' \in images
    /\ UNCHANGED <<up, launches, files, tracker, saved>>

\* Rank 0 drops the oldest paths this process saved, so that Keep - 1 remain,
\* before anything of the new checkpoint is written.
Excess(m) == IF Keep > 0 /\ Len(saved[m]) >= Keep
             THEN Len(saved[m]) - Keep + 1
             ELSE 0

Rotate ==
    /\ cur \in Managed
    /\ stage = "rotate"
    /\ LET n       == Excess(cur)
           dropped == {saved[cur][i] : i \in 1..n}
       IN /\ files' = [files EXCEPT ![cur] =
                         [s \in Steps |-> IF s \in dropped THEN Absent ELSE @[s]]]
          /\ saved' = [saved EXCEPT ![cur] = SubSeq(@, n + 1, Len(@))]
    /\ stage' = "write"
    /\ UNCHANGED <<up, launches, tracker, cur, step, image>>

\* mkdir and the shards of the ranks, or torch.save opening its file.
OpenPart ==
    /\ cur \in Parts
    /\ stage = (IF cur \in Managed THEN "write" ELSE "rotate")
    /\ files' = [files EXCEPT ![cur][step] = Torn]
    /\ stage' = "close"
    /\ UNCHANGED <<up, launches, tracker, saved, cur, step, image>>

\* The last barrier of the manager, which then remembers the path; or the
\* end of torch.save.
ClosePart ==
    /\ cur \in Parts
    /\ stage = "close"
    /\ files' = [files EXCEPT ![cur][step] = image]
    /\ saved' = IF cur \in Managed
                THEN [saved EXCEPT ![cur] = Append(@, step)]
                ELSE saved
    /\ cur' = After(cur)
    /\ stage' = "rotate"
    /\ UNCHANGED <<up, launches, tracker, step, image>>

\* open(tracker, "w") empties the file; the write lands when it is closed.
OpenTracker ==
    /\ cur = "tracker"
    /\ stage = "rotate"
    /\ tracker' = Truncated
    /\ stage' = "close"
    /\ UNCHANGED <<up, launches, files, saved, cur, step, image>>

CloseTracker ==
    /\ cur = "tracker"
    /\ stage = "close"
    /\ tracker' = step
    /\ cur' = "idle"
    /\ stage' = "rotate"
    /\ step' = 0
    /\ UNCHANGED <<up, launches, files, saved, image>>

SaveStep == Rotate \/ OpenPart \/ ClosePart \/ OpenTracker \/ CloseTracker

(***************************************************************************)
(* The store on its own, used by any trainer that names each save after a  *)
(* later step than the tracker does.                                       *)
(***************************************************************************)
Next ==
    \/ Launch
    \/ Stop
    \/ \E s \in Steps :
          (tracker \in Nat => s > tracker) /\ BeginSave(s, Image)
    \/ SaveStep

Spec == StoreInit /\ [][Next]_storeVars /\ WF_storeVars(SaveStep)

-----------------------------------------------------------------------------
StoreTypeOK ==
    /\ up \in BOOLEAN
    /\ launches \in 0..MaxLaunches
    /\ files \in [Parts -> [Steps -> Image \cup {Absent, Torn}]]
    /\ tracker \in Steps \cup {NoTracker, Truncated}
    /\ saved \in [Managed -> Seq(Steps)]
    /\ cur \in Parts \cup {"idle", "tracker"}
    /\ stage \in {"rotate", "write", "close"}
    /\ step \in Steps
    /\ image \in Image

(* The checkpoint the tracker names is whole and all its parts were saved  *)
(* together: neither rotation, nor a later save, nor a crash anywhere in   *)
(* _save_checkpoint may damage the checkpoint a relaunch would load.       *)
TrackedIsWhole ==
    tracker \in Nat =>
        /\ Whole(tracker)
        /\ \A p, q \in Parts : files[p][tracker] = files[q][tracker]

(* Why TrackedIsWhole is kept, as long as a manager never keeps just one:  *)
(* a save is for a step after the tracked one; what it has completed holds *)
(* its image; and the newest path of a manager is the tracked step until   *)
(* the manager is done, so dropping the oldest paths spares it.            *)
SaveIsAhead == cur # "idle" => (tracker \in Nat => step > tracker)

WrittenHoldsImage == \A p \in Written : files[p][step] = image

Ascending(seq) == \A i, j \in 1..Len(seq) : i < j => seq[i] < seq[j]

NewestIsTracked ==
    \A m \in Managed :
        /\ Ascending(saved[m])
        /\ saved[m] # << >> =>
              saved[m][Len(saved[m])] = (IF m \in Written THEN step ELSE tracker)

StoreInv ==
    /\ StoreTypeOK
    /\ SaveIsAhead
    /\ WrittenHoldsImage
    /\ NewestIsTracked
    /\ TrackedIsWhole

(* The tracker is readable whenever no process runs, so that a relaunch    *)
(* finds either a step or no file.                                         *)
TrackerReadable == up \/ tracker # Truncated
=============================================================================
