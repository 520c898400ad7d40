------------------------ MODULE PretrainTrainerProofs ------------------------
(***************************************************************************)
(* For any epochs, batches, budgets and intervals, and wherever processes  *)
(* die: the resume checkpoint of PretrainTrainer lets the step fall behind *)
(* the weights by a bounded number of updates and never run ahead; the     *)
(* batches of a run are covered; and what train returned from is uploaded. *)
(***************************************************************************)
EXTENDS PretrainTrainer, TLAPS

Unusable == {Absent, Torn}
Whole(content) == content \notin Unusable

Jobs == [op : {"open", "close", "upload"}, part : Parts \cup {"all"}]

TypeOK ==
    /\ pc \in {"down", "training", "finishing", "returned"}
    /\ maxSteps \in Budgets
    /\ step \in Nat /\ epoch \in 0..(Epochs - 1)
    /\ batch \in 0..Batches /\ seed \in 0..Epochs
    /\ accum \in Nat /\ optim \in Nat
    /\ model \in Weights
    /\ disk = [p \in Parts |-> disk[p]]
    /\ disk["model"] \in Weights \cup Unusable
    /\ disk["optim"] \in Counts \cup Unusable
    /\ disk["json"] \in Counters \cup Unusable
    /\ disk["final"] \in Weights \cup Unusable
    /\ thread \in Parts \cup {"idle", "clear", "commit"}
    /\ copy = [p \in Parts |-> copy[p]]
    /\ launches \in Nat

-----------------------------------------------------------------------------
(* A save and how far it has come.  The places of the jobs in it: model 1, *)
(* 2, optim 3, 4, json 5, 6, upload 7, another upload 8; or in the last    *)
(* save final 8, 9, upload 10.  A save that does not resume only uploads.  *)
LastSave == ResumeCkpt \o FinalCkpt

Plan     == IF pc = "finishing" THEN LastSave ELSE SavesAfter(step)
Done     == Len(Plan) - Len(todo)
Resuming == pc = "finishing" \/ step % SaveInterval = 0
Saving   == todo # <<>> \/ pc = "finishing"
Past(n)  == Saving /\ Resuming /\ Done >= n

TodoIsRest ==
    /\ todo \in Seq(Jobs)
    /\ Len(todo) <= Len(Plan)
    /\ \A i \in 1..Len(todo) : todo[i] = Plan[Done + i]
    /\ todo # <<>> => Running

(* What a save has closed is what the process has in memory.               *)
Written ==
    /\ Past(2) => disk["model"] = model
    /\ Past(4) => disk["optim"] = [updates |-> optim, accum |-> accum]
    /\ Past(6) => disk["json"] = [step |-> step, epoch |-> epoch]
    /\ pc = "finishing" /\ Past(9) => disk["final"] = model
    /\ disk["json"] # Absent => disk["model"] # Absent /\ disk["optim"] # Absent

-----------------------------------------------------------------------------
\* The steps that n processes which died may have fallen behind.
LagOf(n) == SaveInterval * n

\* No resume checkpoint is under way, or its training_state.json is closed.
Settled == pc = "training" /\ (todo # <<>> /\ Resuming => Done >= 6)

(* Once training_state.json is on disk, a process only goes forward from   *)
(* what is there, and no further than to the next save.                    *)
StepNear ==
    Whole(disk["json"]) =>
        /\ Running =>
              /\ disk["json"].step <= step /\ step <= disk["json"].step + SaveInterval
              /\ Whole(disk["optim"]) => disk["optim"].updates <= optim
        /\ Settled => step <= disk["json"].step + (step % SaveInterval)

LagBounded ==
    /\ Whole(disk["json"]) /\ Whole(disk["optim"]) =>
          disk["json"].step <= disk["optim"].updates
    /\ Whole(disk["json"]) /\ Whole(disk["optim"]) /\ Whole(disk["model"]) =>
          disk["optim"].updates <= disk["model"].updates
    /\ Whole(disk["json"]) /\ Whole(disk["model"]) =>
          disk["model"].updates <= disk["json"].step + LagOf(launches)
    /\ Running =>
          /\ step <= optim /\ optim <= model.updates
          /\ model.updates <= step + LagOf(launches - 1)

-----------------------------------------------------------------------------
\* The batches of an epoch were all trained in one order.
InOneOrder(seen, e) == \E s \in {0, e} : \A b \in 1..Batches : seen[<<e, s, b>>] >= 1

\* How often seen says that the batches at place b of epoch e were trained.
Times(seen, e, b) == seen[<<e, 0, b>>] + (IF e = 0 THEN 0 ELSE seen[<<e, e, b>>])

OnlyTwoOrders(seen) == \A id \in BatchIds : id[2] \notin {0, id[1]} => seen[id] = 0

(* A process trains the batches of its epochs in turn, once; in its first  *)
(* epoch by the order of the first, later each by its own.                 *)
BatchesCounted ==
    /\ pc # "down" => launches >= 1
    /\ launches = 0 => disk["json"] = Absent
    /\ pc = "training" => seed \in {0, epoch}
    /\ pc # "down" =>
          /\ OnlyTwoOrders(model.seen)
          /\ \A e \in 0..(Epochs - 1), b \in 1..Batches :
                /\ Times(model.seen, e, b) <= launches
                /\ ~ Passed(e, b) => Times(model.seen, e, b) <= launches - 1
    /\ Whole(disk["model"]) =>
          /\ OnlyTwoOrders(disk["model"].seen)
          /\ \A e \in 0..(Epochs - 1), b \in 1..Batches : Times(disk["model"].seen, e, b) <= launches

(* The first process leaves nothing out and repeats nothing.               *)
FirstInOrder ==
    launches = 1 /\ maxSteps = NoBudget /\ Running =>
        /\ pc = "training" => seed = epoch
        /\ \A id \in BatchIds :
              model.seen[id] = IF id[2] = id[1] /\ Passed(id[1], id[3]) THEN 1 ELSE 0

(* Without a budget no epoch behind a process has a batch left out.        *)
EpochsBehind ==
    maxSteps = NoBudget =>
        /\ pc # "down" => \A e \in 0..(Epochs - 1) : e < epoch => InOneOrder(model.seen, e)
        /\ pc = "training" => \A b \in 1..Batches : b <= batch => model.seen[<<epoch, seed, b>>] >= 1
        /\ pc \in {"finishing", "returned"} => epoch = Epochs - 1 /\ InOneOrder(model.seen, epoch)
        /\ Running /\ Whole(disk["json"]) => disk["json"].epoch <= epoch
        /\ Whole(disk["json"]) /\ Whole(disk["model"]) =>
              \A e \in 0..(Epochs - 1) : e < disk["json"].epoch => InOneOrder(disk["model"].seen, e)

-----------------------------------------------------------------------------
\* What the thread has read by now.
HasRead(p) ==
    \/ thread = "commit"
    \/ thread = "final" /\ p # "final"
    \/ thread = "json"  /\ p \in {"model", "optim"}
    \/ thread = "optim" /\ p = "model"

(* Once the last upload has begun nothing is written any more: the thread  *)
(* reads, and commits, the run directory as train leaves it.               *)
LastUpload ==
    HfRepo =>
        /\ pc = "finishing" /\ todo = <<>> =>
              /\ \A p \in Parts : HasRead(p) => copy[p] = disk[p]
              /\ thread = "idle" /\ uploaded => remote = disk
        /\ pc = "returned" => thread = "idle" /\ (uploaded => remote = disk)

(* The inductive invariant.                                                *)
TrainerInv ==
    /\ TypeOK
    /\ TodoIsRest
    /\ Written
    /\ StepNear
    /\ LagBounded
    /\ BatchesCounted
    /\ FirstInOrder
    /\ EpochsBehind
    /\ LastUpload

-----------------------------------------------------------------------------
(* Arithmetic of save intervals.                                           *)

(* Quotient and remainder.                                                 *)
LEMMA DivisionIs ==
    ASSUME NEW n \in Nat, NEW k \in Nat \ {0}
    PROVE  /\ n % k \in 0..(k - 1)
           /\ n \div k \in Nat
           /\ n = k * (n \div k) + (n % k)
  BY SMT

(* A remainder grows by one until it wraps.                                *)
LEMMA NextRemainder ==
    ASSUME NEW n \in Nat, NEW k \in Nat \ {0}
    PROVE  /\ n % k \in 0..(k - 1)
           /\ (n + 1) % k # 0 => (n + 1) % k = (n % k) + 1
<1> DEFINE q == n \div k
           r == n % k
           p == (n + 1) \div k
           s == (n + 1) % k
<1>1. q \in Nat /\ r \in 0..(k - 1) /\ n = k * q + r
  BY DivisionIs
<1>2. p \in Nat /\ s \in 0..(k - 1) /\ n + 1 = k * p + s
  <2>1. n + 1 \in Nat
    OBVIOUS
  <2> QED BY <2>1, DivisionIs
<1> HIDE DEF q, r, p, s
<1>3. k * (p - q) = r + 1 - s
  <2>1. k * (p - q) = k * p - k * q /\ k * p \in Int /\ k * q \in Int
    BY <1>1, <1>2
  <2> QED BY <2>1, <1>1, <1>2
<1>4. ASSUME p - q >= 2 PROVE FALSE
  <2>1. k * (p - q) >= k * 2
    BY <1>1, <1>2, <1>4
  <2> QED BY <2>1, <1>1, <1>2, <1>3
<1>5. ASSUME p - q <= -1 PROVE FALSE
  <2>1. k * (p - q) <= k * (-1)
    BY <1>1, <1>2, <1>5
  <2> QED BY <2>1, <1>1, <1>2, <1>3
<1>6. p - q = 0 \/ p - q = 1
  BY <1>1, <1>2, <1>4, <1>5
<1>7. s # 0 => s = r + 1
  BY <1>1, <1>2, <1>3, <1>6
<1> QED BY <1>1, <1>7 DEF r, s

(* Remainders by the save interval.                                        *)
LEMMA RemainderIs ==
    ASSUME NEW n \in Nat
    PROVE  SaveInterval \in Nat \ {0} /\ n % SaveInterval \in 0..(SaveInterval - 1) /\ n % SaveInterval \in Nat
  BY PretrainAssumption, NextRemainder

(* Another process that died adds a save interval.                         *)
LEMMA LagGrows ==
    ASSUME NEW n \in Nat
    PROVE  LagOf(n) \in Nat /\ LagOf(n + 1) = LagOf(n) + SaveInterval
  BY PretrainAssumption DEF LagOf

-----------------------------------------------------------------------------
(* The jobs of a save, by place.                                           *)

(* The jobs of a resume checkpoint,                                        *)
LEMMA ResumeIs ==
    /\ Len(ResumeCkpt) = 7
    /\ ResumeCkpt[1] = Open("model") /\ ResumeCkpt[2] = Close("model")
    /\ ResumeCkpt[3] = Open("optim") /\ ResumeCkpt[4] = Close("optim")
    /\ ResumeCkpt[5] = Open("json")  /\ ResumeCkpt[6] = Close("json")
    /\ ResumeCkpt[7] = Upload
  BY DEF ResumeCkpt, Write

(* with a Hugging Face checkpoint after it,                                *)
LEMMA WithHfIs ==
    LET save == ResumeCkpt \o HfCkpt
    IN  /\ Len(save) = 8
        /\ save[1] = Open("model") /\ save[2] = Close("model")
        /\ save[3] = Open("optim") /\ save[4] = Close("optim")
        /\ save[5] = Open("json")  /\ save[6] = Close("json")
        /\ save[7] = Upload        /\ save[8] = Upload
  BY DEF ResumeCkpt, HfCkpt, Write

(* and of the save at the end of training.                                 *)
LEMMA LastSaveIs ==
    /\ Len(LastSave) = 10
    /\ LastSave[1] = Open("model") /\ LastSave[2] = Close("model")
    /\ LastSave[3] = Open("optim") /\ LastSave[4] = Close("optim")
    /\ LastSave[5] = Open("json")  /\ LastSave[6] = Close("json")
    /\ LastSave[7] = Upload
    /\ LastSave[8] = Open("final") /\ LastSave[9] = Close("final")
    /\ LastSave[10] = Upload
  BY DEF LastSave, FinalCkpt, ResumeCkpt, Write

(* Jobs that follow jobs.                                                  *)
LEMMA JoinedIs ==
    ASSUME NEW s \in Seq(Jobs), NEW t \in Seq(Jobs)
    PROVE  s \o t \in Seq(Jobs)
  OBVIOUS

(* No jobs before or after jobs.                                           *)
LEMMA EmptyJoined ==
    ASSUME NEW s \in Seq(Jobs)
    PROVE  s \o <<>> = s /\ <<>> \o s = s
  OBVIOUS

(* Nothing left to do.                                                     *)
LEMMA EmptyIs == \A s : s = <<>> => Len(s) = 0
  OBVIOUS

(* All are sequences of jobs.                                              *)
LEMMA SavesHaveType ==
    /\ ResumeCkpt \in Seq(Jobs) /\ HfCkpt \in Seq(Jobs)
    /\ LastSave \in Seq(Jobs) /\ <<>> \in Seq(Jobs)
<1>1. \A p \in Parts : Write(p) \in Seq(Jobs)
  BY DEF Write, Open, Close, Jobs
<1>2. <<Upload>> \in Seq(Jobs) /\ <<>> \in Seq(Jobs)
  BY DEF Upload, Jobs
<1>3. ResumeCkpt \in Seq(Jobs) /\ HfCkpt \in Seq(Jobs) /\ FinalCkpt \in Seq(Jobs)
  BY <1>1, <1>2, JoinedIs DEF ResumeCkpt, HfCkpt, FinalCkpt, Parts, State
<1> QED BY <1>2, <1>3, JoinedIs DEF LastSave

\* The saves that follow a step: both, either or none.
LEMMA SavesAfterIs ==
    ASSUME NEW n
    PROVE  /\ n % SaveInterval = 0 => SavesAfter(n) \in {ResumeCkpt \o HfCkpt, ResumeCkpt}
           /\ n % SaveInterval # 0 => SavesAfter(n) \in {HfCkpt, <<>>}
<1>1. /\ ResumeCkpt \o <<>> = ResumeCkpt /\ <<>> \o HfCkpt = HfCkpt /\ <<>> \o <<>> = <<>>
  BY EmptyJoined, SavesHaveType
<1> QED BY <1>1 DEF SavesAfter

(* So is what a step saves.                                                *)
LEMMA SavesAfterHaveType ==
    ASSUME NEW n
    PROVE  SavesAfter(n) \in Seq(Jobs)
<1>1. SavesAfter(n) \in {ResumeCkpt \o HfCkpt, ResumeCkpt, HfCkpt, <<>>}
  BY SavesAfterIs
<1>2. ResumeCkpt \o HfCkpt \in Seq(Jobs)
  BY SavesHaveType, JoinedIs
<1> QED BY <1>1, <1>2, SavesHaveType

(* The plans there are.                                                    *)
LEMMA PlanIs ==
    /\ Plan \in Seq(Jobs) /\ Len(Plan) \in Nat
    /\ pc = "finishing" => Plan = LastSave /\ Len(Plan) = 10
    /\ pc # "finishing" /\ Resuming => Plan \in {ResumeCkpt \o HfCkpt, ResumeCkpt} /\ Len(Plan) \in {7, 8}
    /\ pc # "finishing" /\ ~ Resuming => Plan \in {HfCkpt, <<>>} /\ Len(Plan) \in {0, 1}
<1>1. CASE pc = "finishing"
  BY <1>1, SavesHaveType, LastSaveIs DEF Plan
<1>2. CASE pc # "finishing" /\ step % SaveInterval = 0
  <2>1. Plan \in {ResumeCkpt \o HfCkpt, ResumeCkpt} /\ Resuming
    BY <1>2, SavesAfterIs DEF Plan, Resuming
  <2>2. CASE Plan = ResumeCkpt
    BY <1>2, <2>1, <2>2, SavesHaveType, ResumeIs
  <2>3. CASE Plan = ResumeCkpt \o HfCkpt
    <3>1. Plan \in Seq(Jobs)
      BY <2>3, SavesHaveType, JoinedIs
    <3>2. Len(Plan) = 8
      BY <2>3, WithHfIs
    <3> QED BY <1>2, <2>1, <3>1, <3>2
  <2> QED BY <2>1, <2>2, <2>3
<1>3. CASE pc # "finishing" /\ step % SaveInterval # 0
  <2>1. Plan \in {HfCkpt, <<>>} /\ ~ Resuming
    BY <1>3, SavesAfterIs DEF Plan, Resuming
  <2>2. CASE Plan = HfCkpt
    <3>1. Len(HfCkpt) = 1
      BY DEF HfCkpt
    <3> QED BY <1>3, <2>1, <2>2, <3>1, SavesHaveType
  <2>3. CASE Plan = <<>>
    <3>1. Len(Plan) = 0
      BY <2>3, EmptyIs
    <3> QED BY <1>3, <2>1, <2>3, <3>1, SavesHaveType
  <2> QED BY <2>1, <2>2, <2>3
<1> QED BY <1>1, <1>2, <1>3

\* Where a job that writes a file stands in a save.
PlaceOf(op, part) ==
    LET shut == IF op = "open" THEN 0 ELSE 1
    IN  CASE part = "model" -> 1 + shut
          [] part = "optim" -> 3 + shut
          [] part = "json"  -> 5 + shut
          [] part = "final" -> 8 + shut

(* Every job knows its place in the plan.                                  *)
LEMMA PlacesInPlan ==
    ASSUME NEW k \in 1..Len(Plan), NEW op \in {"open", "close", "upload"}, NEW part,
           Plan[k] = [op |-> op, part |-> part]
    PROVE  /\ op # "upload" => /\ Resuming
                               /\ k = PlaceOf(op, part)
                               /\ part = "final" => pc = "finishing"
           /\ op = "upload" /\ Resuming => k \in {7, 8, 10}
           /\ op = "upload" /\ pc = "finishing" => k \in {7, 10}
<1>0. Plan[k].op = op /\ Plan[k].part = part
  OBVIOUS
<1>1. CASE pc = "finishing"
  <2>1. /\ LastSave[1] = [op |-> "open", part |-> "model"]
        /\ LastSave[2] = [op |-> "close", part |-> "model"]
        /\ LastSave[3] = [op |-> "open", part |-> "optim"]
        /\ LastSave[4] = [op |-> "close", part |-> "optim"]
        /\ LastSave[5] = [op |-> "open", part |-> "json"]
        /\ LastSave[6] = [op |-> "close", part |-> "json"]
        /\ LastSave[7] = [op |-> "upload", part |-> "all"]
        /\ LastSave[8] = [op |-> "open", part |-> "final"]
        /\ LastSave[9] = [op |-> "close", part |-> "final"]
        /\ LastSave[10] = [op |-> "upload", part |-> "all"]
    BY LastSaveIs DEF Open, Close, Upload
  <2>2. Plan = LastSave /\ k \in 1..10
    BY <1>1, PlanIs
  <2>3. k \in {1, 2, 3, 4, 5, 6, 7, 8, 9, 10}
    BY <2>2
  <2> QED BY <1>0, <1>1, <2>1, <2>2, <2>3 DEF PlaceOf, Resuming
<1>2. CASE pc # "finishing" /\ Resuming
  <2>1. /\ Plan[1] = [op |-> "open", part |-> "model"]
        /\ Plan[2] = [op |-> "close", part |-> "model"]
        /\ Plan[3] = [op |-> "open", part |-> "optim"]
        /\ Plan[4] = [op |-> "close", part |-> "optim"]
        /\ Plan[5] = [op |-> "open", part |-> "json"]
        /\ Plan[6] = [op |-> "close", part |-> "json"]
        /\ Plan[7] = [op |-> "upload", part |-> "all"]
        /\ Len(Plan) = 8 => Plan[8] = [op |-> "upload", part |-> "all"]
    <3>1. CASE Plan = ResumeCkpt
      BY <3>1, ResumeIs DEF Open, Close, Upload
    <3>2. CASE Plan = ResumeCkpt \o HfCkpt
      BY <3>2, WithHfIs DEF Open, Close, Upload
    <3> QED BY <1>2, <3>1, <3>2, PlanIs
  <2>2. k \in {1, 2, 3, 4, 5, 6, 7} \/ (k = 8 /\ Len(Plan) = 8)
    BY <1>2, PlanIs
  <2> QED BY <1>0, <1>2, <2>1, <2>2 DEF PlaceOf
<1>3. CASE pc # "finishing" /\ ~ Resuming
  <2>1. k = 1 /\ Plan = HfCkpt
    BY <1>3, PlanIs, EmptyIs
  <2>2. HfCkpt[1] = [op |-> "upload", part |-> "all"]
    BY DEF HfCkpt, Upload
  <2> QED BY <1>0, <1>3, <2>1, <2>2
<1> QED BY <1>1, <1>2, <1>3

(* Which job comes next tells how far the save has come.                   *)
LEMMA NextPlace ==
    ASSUME TodoIsRest, NEW op \in {"open", "close", "upload"}, NEW part,
           Doing([op |-> op, part |-> part])
    PROVE  /\ Running /\ Saving /\ todo # <<>>
           /\ Done \in Nat /\ Done + 1 <= Len(Plan)
           /\ op # "upload" => /\ Resuming
                               /\ Done + 1 = PlaceOf(op, part)
                               /\ part = "final" => pc = "finishing"
           /\ op = "upload" /\ Resuming => Done + 1 \in {7, 8, 10}
           /\ op = "upload" /\ pc = "finishing" => Done + 1 \in {7, 10}
<1>1. todo \in Seq(Jobs) /\ todo # <<>> /\ [op |-> op, part |-> part] = todo[1]
  BY DEF TodoIsRest, Doing
<1>2. Len(todo) \in Nat /\ Len(todo) >= 1
  BY <1>1
<1>3. Len(todo) <= Len(Plan) /\ todo[1] = Plan[Done + 1] /\ Running
  BY <1>1, <1>2 DEF TodoIsRest
<1>4. Done \in Nat /\ Done + 1 <= Len(Plan) /\ Done + 1 \in 1..Len(Plan)
  BY <1>2, <1>3, PlanIs DEF Done
<1>5. Plan[Done + 1] = [op |-> op, part |-> part]
  BY <1>1, <1>3
<1> HIDE DEF Done
<1>6. /\ op # "upload" => /\ Resuming
                          /\ Done + 1 = PlaceOf(op, part)
                          /\ part = "final" => pc = "finishing"
      /\ op = "upload" /\ Resuming => Done + 1 \in {7, 8, 10}
      /\ op = "upload" /\ pc = "finishing" => Done + 1 \in {7, 10}
  BY <1>4, <1>5, PlacesInPlan
<1> QED BY <1>1, <1>3, <1>4, <1>6 DEF Saving

(* A job done leaves the rest of the same save.                            *)
LEMMA JobDone ==
    ASSUME TodoIsRest, todo # <<>>, todo' = Tail(todo), UNCHANGED <<pc, step>>
    PROVE  /\ TodoIsRest'
           /\ Plan' = Plan /\ Done' = Done + 1 /\ Resuming' = Resuming
           /\ Done' = Len(Plan) <=> todo' = <<>>
<1>1. todo \in Seq(Jobs) /\ Len(todo) \in Nat /\ Len(todo) >= 1
  BY DEF TodoIsRest
<1>2. /\ todo' \in Seq(Jobs) /\ Len(todo') = Len(todo) - 1
      /\ \A i \in 1..Len(todo') : todo'[i] = todo[i + 1]
  BY <1>1
<1>3. Plan' = Plan /\ Resuming' = Resuming
  BY DEF Plan, Resuming
<1>4. Len(Plan) \in Nat
  BY PlanIs
<1>5. Done' = Done + 1 /\ Done \in Int
  BY <1>1, <1>2, <1>3, <1>4 DEF Done
<1>6. \A i \in 1..Len(todo') : todo'[i] = Plan'[Done' + i]
  <2> TAKE i \in 1..Len(todo')
  <2>1. i + 1 \in 1..Len(todo)
    BY <1>1, <1>2
  <2>2. todo[i + 1] = Plan[Done + (i + 1)]
    BY <2>1 DEF TodoIsRest
  <2>3. Done + (i + 1) = Done' + i
    BY <1>5, <2>1
  <2> QED BY <1>2, <1>3, <2>2, <2>3
<1>7. TodoIsRest'
  BY <1>1, <1>2, <1>3, <1>6 DEF TodoIsRest, Running
<1>8. Done' = Len(Plan) <=> Len(todo) = 1
  <2>1. Done = Len(Plan) - Len(todo)
    BY DEF Done
  <2>2. \A x \in Nat, y \in Nat : (x - y) + 1 = x <=> y = 1
    OBVIOUS
  <2> QED BY <1>1, <1>4, <1>5, <2>1, <2>2
<1>9. Len(todo) = 1 <=> todo' = <<>>
  <2>1. todo' = <<>> => Len(todo') = 0
    BY EmptyIs
  <2>2. Len(todo') = 0 => todo' = <<>>
    BY <1>2
  <2> QED BY <1>1, <1>2, <2>1, <2>2
<1> QED BY <1>3, <1>5, <1>7, <1>8, <1>9

(* A save begins with all its jobs to do.                                  *)
LEMMA SaveBegins ==
    ASSUME \/ pc' = "training" /\ todo' = SavesAfter(step')
           \/ pc' = "finishing" /\ todo' = LastSave
    PROVE  TodoIsRest' /\ Done' = 0
<1>1. Plan' = todo'
  BY DEF Plan
<1>2. todo' \in Seq(Jobs)
  BY SavesAfterHaveType, SavesHaveType
<1>3. Len(todo') \in Nat
  BY <1>2
<1>4. Done' = 0
  BY <1>1, <1>3 DEF Done
<1> QED BY <1>1, <1>2, <1>3, <1>4 DEF TodoIsRest, Running

\* Nothing to do is the end of any save.
LEMMA NothingToDo ==
    ASSUME todo' = <<>>
    PROVE  TodoIsRest'
<1>1. Plan' \in Seq(Jobs)
  BY SavesAfterHaveType, SavesHaveType DEF Plan
<1>2. Len(todo') = 0 /\ todo' \in Seq(Jobs) /\ Len(Plan') \in Nat
  BY <1>1, EmptyIs, SavesHaveType
<1> QED BY <1>2 DEF TodoIsRest

-----------------------------------------------------------------------------
(* The invariant holds at first.                                           *)

(* Nothing that a file may hold is absent or torn.                         *)
LEMMA ContentsApart ==
    /\ \A c \in Weights \cup Counters \cup Counts : Whole(c)
    /\ ~ Whole(Absent) /\ ~ Whole(Torn) /\ Absent # Torn
  BY PretrainAssumption DEF Whole, Unusable

(* The weights that a process starts with when there is no checkpoint.     *)
LEMMA UntrainedIs ==
    /\ Untrained \in Weights /\ Untrained.updates = 0
    /\ \A id \in BatchIds : Untrained.seen[id] = 0
    /\ OnlyTwoOrders(Untrained.seen)
    /\ \A e \in 0..(Epochs - 1), b \in 1..Batches : Times(Untrained.seen, e, b) = 0
<1>1. Untrained \in Weights /\ Untrained.updates = 0 /\ \A id \in BatchIds : Untrained.seen[id] = 0
  BY DEF Untrained, Weights
<1>2. \A e \in 0..(Epochs - 1), b \in 1..Batches : Times(Untrained.seen, e, b) = 0
  BY <1>1, PretrainAssumption DEF Times, BatchIds
<1> QED BY <1>1, <1>2 DEF OnlyTwoOrders

(* Counters start at zero.                                                 *)
LEMMA ZeroIs == 0 \in 0..(Epochs - 1) /\ 0 \in 0..Batches /\ 0 \in 0..Epochs
  BY PretrainAssumption

(* It holds of the first state: nothing on disk, no process.               *)
LEMMA TrainerInit == Init => TrainerInv
<1> SUFFICES ASSUME Init PROVE TrainerInv
  OBVIOUS
<1>1. /\ pc = "down" /\ todo = <<>> /\ launches = 0
      /\ \A p \in Parts : disk[p] = Absent
      /\ disk = [p \in Parts |-> disk[p]]
  BY DEF Init, NothingOnDisk
<1>2. /\ disk["model"] = Absent /\ disk["optim"] = Absent /\ disk["json"] = Absent
      /\ disk["final"] = Absent
  BY <1>1 DEF Parts, State
<1>3. ~ Saving /\ ~ Running /\ ~ Settled
  BY <1>1 DEF Saving, Running, Settled
<1>4. TypeOK
  <2>1. copy = [p \in Parts |-> copy[p]]
    BY DEF Init, NothingOnDisk
  <2> QED BY <1>1, <1>2, <2>1, UntrainedIs, ZeroIs DEF TypeOK, Init, Unusable
<1>5. TodoIsRest
  <2>1. Len(todo) = 0 /\ todo \in Seq(Jobs)
    BY <1>1, EmptyIs, SavesHaveType
  <2> QED BY <1>1, <2>1, PlanIs DEF TodoIsRest
<1>6. Written
  BY <1>1, <1>2, <1>3 DEF Written, Past
<1>7. StepNear /\ LagBounded
  BY <1>2, <1>3, ContentsApart DEF StepNear, LagBounded
<1>8. BatchesCounted
  BY <1>1, <1>2, ContentsApart DEF BatchesCounted
<1>9. FirstInOrder /\ EpochsBehind /\ LastUpload
  BY <1>1, <1>2, <1>3, ContentsApart DEF FirstInOrder, EpochsBehind, LastUpload
<1> QED BY <1>4, <1>5, <1>6, <1>7, <1>8, <1>9 DEF TrainerInv

-----------------------------------------------------------------------------
(* A process starts from what is whole on disk, or from nothing.           *)

(* A process is launched: it resumes from the resume checkpoint if that is *)
(* whole, or starts anew if there is none.                                 *)
LEMMA LaunchKeeps ==
    ASSUME TrainerInv, Launch
    PROVE  TrainerInv'
<1> USE DEF TrainerInv
<1>1. /\ pc' = "training" /\ pc \in {"down", "returned"}
      /\ todo' = <<>> /\ batch' = 0 /\ seed' = 0
      /\ launches \in Nat /\ launches' = launches + 1 /\ launches' - 1 = launches
      /\ launches' \in Nat
      /\ UNCHANGED <<maxSteps, disk, thread, copy, remote>>
  BY DEF Launch, FirstBatch, TypeOK
<1>2. ~ Saving' /\ Running'
  BY <1>1 DEF Saving, Running
\* What the process finds.
<1>3. \/ /\ disk["json"] = Absent
         /\ model' = Untrained /\ optim' = 0 /\ accum' = 0 /\ step' = 0 /\ epoch' = 0
      \/ /\ disk["json"] \in Counters /\ disk["model"] \in Weights /\ disk["optim"] \in Counts
         /\ Whole(disk["json"]) /\ Whole(disk["model"]) /\ Whole(disk["optim"])
         /\ model' = disk["model"] /\ optim' = disk["optim"].updates
         /\ accum' = disk["optim"].accum
         /\ step' = disk["json"].step /\ epoch' = disk["json"].epoch
  <2>1. CASE ~ HasLatest
    BY <2>1 DEF HasLatest, Launch, FromScratch
  <2>2. CASE HasLatest
    <3>1. Resume /\ disk["json"] # Absent /\ disk["model"] # Absent /\ disk["optim"] # Absent
      BY <2>2 DEF HasLatest, Launch, Written
    <3>2. Whole(disk["json"]) /\ Whole(disk["model"]) /\ Whole(disk["optim"])
      BY <3>1 DEF Resume, State, Whole, Unusable
    <3>3. disk["json"] \in Counters /\ disk["model"] \in Weights /\ disk["optim"] \in Counts
      BY <3>2 DEF TypeOK, Whole
    <3> QED BY <3>1, <3>2, <3>3 DEF Resume
  <2> QED BY <2>1, <2>2
<1>4. /\ model' \in Weights /\ optim' \in Nat /\ accum' \in Nat /\ step' \in Nat
      /\ epoch' \in 0..(Epochs - 1)
  <2>1. CASE disk["json"] = Absent
    BY <1>3, <2>1, UntrainedIs, ZeroIs, ContentsApart
  <2>2. CASE disk["json"] # Absent
    BY <1>3, <2>2 DEF Counters, Counts
  <2> QED BY <2>1, <2>2
<1>5. TypeOK'
  BY <1>1, <1>4, ZeroIs DEF TypeOK
<1>6. TodoIsRest'
  BY <1>1, NothingToDo
<1>7. Written'
  BY <1>1, <1>2 DEF Written, Past
<1>8. SaveInterval \in Nat \ {0} /\ (step % SaveInterval)' \in Nat
  <2>1. SaveInterval \in Nat \ {0}
    BY PretrainAssumption
  <2>2. step' % SaveInterval \in Nat
    BY <1>4, RemainderIs
  <2> QED BY <2>1, <2>2
<1>9. StepNear'
  <2>1. CASE disk["json"] = Absent
    BY <1>1, <2>1, ContentsApart DEF StepNear
  <2>2. CASE disk["json"] # Absent
    <3>1. step' = disk["json"].step /\ optim' = disk["optim"].updates
      BY <1>3, <2>2
    <3> QED BY <1>1, <1>4, <1>8, <3>1 DEF StepNear
  <2> QED BY <2>1, <2>2
<1>10. LagBounded'
  <2>1. LagOf(launches) \in Nat /\ LagOf(launches') = LagOf(launches) + SaveInterval
    BY <1>1, LagGrows
  <2>2. step' <= optim' /\ optim' <= model'.updates /\ model'.updates <= step' + LagOf(launches)
    <3>1. CASE disk["json"] = Absent
      BY <1>3, <2>1, <3>1, UntrainedIs, ContentsApart
    <3>2. CASE disk["json"] # Absent
      BY <1>3, <3>2 DEF LagBounded
    <3> QED BY <3>1, <3>2
  <2>3. Whole(disk["json"]) /\ Whole(disk["model"]) =>
            disk["model"].updates <= disk["json"].step + LagOf(launches')
    <3> SUFFICES ASSUME Whole(disk["json"]), Whole(disk["model"])
                 PROVE  disk["model"].updates <= disk["json"].step + LagOf(launches')
      OBVIOUS
    <3>1. disk["model"].updates \in Nat /\ disk["json"].step \in Nat
      BY DEF TypeOK, Whole, Weights, Counters
    <3>2. disk["model"].updates <= disk["json"].step + LagOf(launches)
      BY DEF LagBounded
    <3> QED BY <1>8, <2>1, <3>1, <3>2
  <2>4. LagOf(launches)' = LagOf(launches') /\ LagOf(launches - 1)' = LagOf(launches)
    BY <1>1 DEF LagOf
  <2> QED BY <1>1, <2>2, <2>3, <2>4 DEF LagBounded
<1>11. BatchesCounted'
  <2>1. /\ OnlyTwoOrders(model'.seen)
        /\ \A e \in 0..(Epochs - 1), b \in 1..Batches : Times(model'.seen, e, b) <= launches
    <3>1. CASE disk["json"] = Absent
      BY <1>1, <1>3, <3>1, UntrainedIs, ContentsApart
    <3>2. CASE disk["json"] # Absent
      BY <1>3, <3>2 DEF BatchesCounted
    <3> QED BY <3>1, <3>2
  <2>2. ASSUME NEW seen \in [BatchIds -> Nat], NEW e \in 0..(Epochs - 1), NEW b \in 1..Batches,
               Times(seen, e, b) <= launches
        PROVE  Times(seen, e, b) <= launches'
    <3>1. Times(seen, e, b) \in Nat
      BY PretrainAssumption DEF Times, BatchIds
    <3> QED BY <1>1, <2>2, <3>1
  <2>3. \A e \in 0..(Epochs - 1), b \in 1..Batches : Times(model'.seen, e, b) <= launches'
    BY <1>4, <2>1, <2>2 DEF Weights
  <2>4. Whole(disk["model"]) =>
          /\ OnlyTwoOrders(disk["model"].seen)
          /\ \A e \in 0..(Epochs - 1), b \in 1..Batches : Times(disk["model"].seen, e, b) <= launches'
    <3>1. Whole(disk["model"]) => disk["model"].seen \in [BatchIds -> Nat]
      BY DEF TypeOK, Whole, Weights
    <3> QED BY <2>2, <3>1 DEF BatchesCounted
  <2>5. launches' >= 1 /\ launches' # 0
    BY <1>1
  <2> QED BY <1>1, <2>1, <2>3, <2>4, <2>5 DEF BatchesCounted
<1>12. FirstInOrder'
  <2> SUFFICES ASSUME launches' = 1
               PROVE  /\ seed' = epoch'
                      /\ \A id \in BatchIds :
                            /\ ~ (id[2] = id[1] /\ Passed(id[1], id[3])')
                            /\ model'.seen[id] = 0
    BY DEF FirstInOrder
  <2>1. launches = 0
    BY <1>1
  <2>2. disk["json"] = Absent
    BY <2>1 DEF BatchesCounted
  <2>3. model' = Untrained /\ epoch' = 0
    BY <1>3, <2>2, ContentsApart
  <2>4. \A id \in BatchIds : ~ Passed(id[1], id[3])'
    BY <1>1, <2>3, PretrainAssumption DEF Passed, BatchIds
  <2> QED BY <1>1, <2>3, <2>4, UntrainedIs
<1>13. EpochsBehind'
  <2> SUFFICES ASSUME maxSteps = NoBudget
               PROVE  /\ \A e \in 0..(Epochs - 1) : e < epoch' => InOneOrder(model'.seen, e)
                      /\ \A b \in 1..Batches : ~ (b <= batch')
                      /\ Whole(disk["json"]) => disk["json"].epoch <= epoch'
                      /\ Whole(disk["json"]) /\ Whole(disk["model"]) =>
                            \A e \in 0..(Epochs - 1) :
                                e < disk["json"].epoch => InOneOrder(disk["model"].seen, e)
    BY <1>1 DEF EpochsBehind
  <2>1. Whole(disk["json"]) /\ Whole(disk["model"]) =>
            \A e \in 0..(Epochs - 1) : e < disk["json"].epoch => InOneOrder(disk["model"].seen, e)
    BY DEF EpochsBehind
  <2>2. \A e \in 0..(Epochs - 1) : e < epoch' => InOneOrder(model'.seen, e)
    <3>1. CASE disk["json"] = Absent
      <4>1. epoch' = 0
        BY <1>3, <3>1, ContentsApart
      <4> QED BY <4>1, PretrainAssumption
    <3>2. CASE disk["json"] # Absent
      BY <1>3, <2>1, <3>2
    <3> QED BY <3>1, <3>2
  <2>3. Whole(disk["json"]) => disk["json"].epoch <= epoch'
    BY <1>3, <1>4, ContentsApart
  <2>4. \A b \in 1..Batches : ~ (b <= batch')
    BY <1>1, PretrainAssumption
  <2> QED BY <2>1, <2>2, <2>3, <2>4
<1>14. LastUpload'
  BY <1>1 DEF LastUpload
<1> QED BY <1>5, <1>6, <1>7, <1>9, <1>10, <1>11, <1>12, <1>13, <1>14

-----------------------------------------------------------------------------
(* The upload thread neither touches the run directory nor the process.    *)

(* The upload thread clears the repository, reads a file, commits or fails.*)
LEMMA ThreadKeeps ==
    ASSUME TrainerInv, Thread
    PROVE  TrainerInv'
<1> USE DEF TrainerInv
<1>1. /\ UNCHANGED <<pc, todo, step, epoch, batch, seed, accum, model, optim>>
      /\ UNCHANGED <<maxSteps, disk, launches>>
      /\ thread # "idle"
  BY DEF Thread, ClearRepo, ReadFile, CommitUpload, FailUpload, procVars, Parts, State
<1>2. thread' \in Parts \cup {"idle", "clear", "commit"}
  BY DEF Thread, ClearRepo, ReadFile, CommitUpload, FailUpload, ReadNext, Parts, State
<1>3. copy' = [p \in Parts |-> copy'[p]]
  <2>1. CASE UNCHANGED copy
    BY <2>1 DEF TypeOK
  <2>2. CASE copy' = NothingOnDisk
    BY <2>2 DEF NothingOnDisk
  <2>3. CASE copy' = [copy EXCEPT ![thread] = disk[thread]]
    BY <2>3 DEF TypeOK
  <2> QED BY <2>1, <2>2, <2>3 DEF Thread, ClearRepo, ReadFile, CommitUpload, FailUpload
<1>4. TypeOK'
  BY <1>1, <1>2, <1>3 DEF TypeOK
<1>5. TodoIsRest' /\ Written' /\ StepNear' /\ LagBounded'
  BY <1>1 DEF TodoIsRest, Written, StepNear, LagBounded, LagOf, Settled,
              Past, Saving, Resuming, Done, Plan, Running
<1>6. BatchesCounted' /\ FirstInOrder' /\ EpochsBehind'
  BY <1>1 DEF BatchesCounted, FirstInOrder, EpochsBehind, Passed, Running
<1>7. LastUpload'
  <2> SUFFICES ASSUME HfRepo
               PROVE  /\ pc # "returned"
                      /\ pc = "finishing" /\ todo = <<>> =>
                            /\ \A p \in Parts : HasRead(p)' => copy'[p] = disk[p]
                            /\ thread' = "idle" /\ uploaded' => remote' = disk
    BY <1>1 DEF LastUpload
  <2>1. pc # "returned"
    BY <1>1 DEF LastUpload
  <2> SUFFICES ASSUME pc = "finishing", todo = <<>>
               PROVE  /\ \A p \in Parts : HasRead(p)' => copy'[p] = disk[p]
                      /\ thread' = "idle" /\ uploaded' => remote' = disk
    BY <2>1
  <2>2. \A p \in Parts : HasRead(p) => copy[p] = disk[p]
    BY DEF LastUpload
  <2>3. CASE ClearRepo
    BY <2>3 DEF ClearRepo, HasRead
  <2>4. CASE ReadFile
    <3>1. thread \in Parts /\ copy'[thread] = disk[thread] /\ thread' # "idle"
      BY <2>4 DEF ReadFile, ReadNext, TypeOK, Parts, State
    <3>2. \A p \in Parts : p # thread => copy'[p] = copy[p]
      BY <2>4 DEF ReadFile, TypeOK
    <3>3. \A p \in Parts : HasRead(p)' => p = thread \/ HasRead(p)
      BY <2>4, <3>1 DEF ReadFile, ReadNext, HasRead, Parts, State
    <3> QED BY <2>2, <3>1, <3>2, <3>3
  <2>5. CASE CommitUpload
    <3>1. thread' = "idle" /\ remote' = copy /\ \A p \in Parts : HasRead(p)
      BY <2>5 DEF CommitUpload, HasRead
    <3>2. copy = disk
      BY <2>2, <3>1 DEF TypeOK
    <3> QED BY <3>1, <3>2 DEF HasRead
  <2>6. CASE FailUpload
    BY <2>6 DEF FailUpload, HasRead
  <2> QED BY <2>3, <2>4, <2>5, <2>6 DEF Thread
<1> QED BY <1>4, <1>5, <1>6, <1>7

-----------------------------------------------------------------------------
(* A process ends: by itself, or killed.                                   *)

(* The process returns when nothing is being uploaded, or dies anywhere.   *)
LEMMA EndKeeps ==
    ASSUME TrainerInv, Return \/ Crash
    PROVE  TrainerInv'
<1> USE DEF TrainerInv
<1>1. /\ UNCHANGED <<maxSteps, disk, launches>>
      /\ pc' \in {"down", "returned"} /\ todo' = <<>>
      /\ Running
  BY DEF Return, Crash, Running
<1>2. ~ Running' /\ ~ Saving' /\ ~ Settled'
  BY <1>1 DEF Running, Saving, Settled
<1>3. TypeOK'
  <2>1. CASE Return
    BY <2>1, <1>1 DEF TypeOK, Return, uploadVars
  <2>2. CASE Crash
    <3>1. copy' = [p \in Parts |-> copy'[p]]
      <4>1. CASE UNCHANGED copy
        BY <4>1 DEF TypeOK
      <4>2. CASE copy' = NothingOnDisk
        BY <4>2 DEF NothingOnDisk
      <4> QED BY <2>2, <4>1, <4>2 DEF Crash
    <3> QED BY <2>2, <3>1, <1>1, UntrainedIs, ZeroIs DEF TypeOK, Crash
  <2> QED BY <2>1, <2>2
<1>4. TodoIsRest'
  BY <1>1, NothingToDo
<1>5. Written'
  BY <1>1, <1>2 DEF Written, Past
<1>6. StepNear' /\ LagBounded'
  BY <1>1, <1>2 DEF StepNear, LagBounded, LagOf
<1>7. BatchesCounted' /\ EpochsBehind' /\ FirstInOrder'
  <2>1. CASE Return
    BY <1>1, <1>2, <2>1 DEF BatchesCounted, EpochsBehind, FirstInOrder, Passed, Return
  <2>2. CASE Crash
    BY <1>1, <1>2, <2>2 DEF BatchesCounted, EpochsBehind, FirstInOrder, Crash
  <2> QED BY <2>1, <2>2
<1>8. LastUpload'
  BY <1>1 DEF LastUpload, Return, Crash, uploadVars
<1> QED BY <1>3, <1>4, <1>5, <1>6, <1>7, <1>8

(* A stutter.                                                              *)
LEMMA StutterKeeps ==
    ASSUME TrainerInv, UNCHANGED vars
    PROVE  TrainerInv'
<1> USE DEF TrainerInv, vars, procVars, uploadVars
<1>1. TypeOK' /\ TodoIsRest'
  BY DEF TypeOK, TodoIsRest, Plan, Done, Running
<1>2. Written' /\ StepNear' /\ LagBounded'
  BY DEF Written, StepNear, LagBounded, LagOf, Settled, Past, Saving, Resuming, Done, Plan, Running
<1>3. BatchesCounted' /\ FirstInOrder' /\ EpochsBehind' /\ LastUpload'
  BY DEF BatchesCounted, FirstInOrder, EpochsBehind, LastUpload, HasRead, Passed, Running
<1> QED BY <1>1, <1>2, <1>3

-----------------------------------------------------------------------------
(* The training loop.                                                      *)

(* A step that saves nothing is between two resume checkpoints.            *)
LEMMA SavesAfterEmpty ==
    ASSUME NEW n, SavesAfter(n) = <<>>
    PROVE  n % SaveInterval # 0
<1> SUFFICES ASSUME n % SaveInterval = 0 PROVE FALSE
  OBVIOUS
<1>1. SavesAfter(n) \in {ResumeCkpt \o HfCkpt, ResumeCkpt}
  BY SavesAfterIs
<1>2. Len(SavesAfter(n)) = 0
  BY EmptyIs
<1>3. Len(ResumeCkpt \o HfCkpt) = 8 /\ Len(ResumeCkpt) = 7
  BY WithHfIs, ResumeIs
<1> QED BY <1>1, <1>2, <1>3

CountsOnce(seen, after, e, s, b) == after = [seen EXCEPT ![<<e, s, b>>] = @ + 1]

\* Training one more batch counts it where it belongs.
LEMMA TimesAfter ==
    ASSUME NEW seen \in [BatchIds -> Nat], NEW after,
           NEW e \in 0..(Epochs - 1), NEW s \in {0, e}, NEW b \in 1..Batches,
           CountsOnce(seen, after, e, s, b)
    PROVE  /\ <<e, s, b>> \in BatchIds
           /\ after \in [BatchIds -> Nat]
           /\ after[<<e, s, b>>] = seen[<<e, s, b>>] + 1
           /\ \A id \in BatchIds : id # <<e, s, b>> => after[id] = seen[id]
           /\ \A d \in 0..(Epochs - 1), c \in 1..Batches :
                 Times(after, d, c) = IF d = e /\ c = b THEN Times(seen, d, c) + 1
                                      ELSE Times(seen, d, c)
           /\ OnlyTwoOrders(seen) => OnlyTwoOrders(after)
<1> DEFINE at == <<e, s, b>>
<1>1. at \in BatchIds
  BY PretrainAssumption DEF BatchIds
<1>2. /\ after \in [BatchIds -> Nat] /\ after[at] = seen[at] + 1
      /\ \A id \in BatchIds : id # at => after[id] = seen[id]
  BY <1>1 DEF CountsOnce
<1>3. ASSUME NEW d \in 0..(Epochs - 1), NEW c \in 1..Batches
      PROVE  Times(after, d, c) = IF d = e /\ c = b THEN Times(seen, d, c) + 1
                                  ELSE Times(seen, d, c)
  <2>1. <<d, 0, c>> \in BatchIds /\ <<d, d, c>> \in BatchIds
    BY PretrainAssumption DEF BatchIds
  <2>2. seen[<<d, 0, c>>] \in Nat /\ seen[<<d, d, c>>] \in Nat
    BY <2>1
  <2>3. CASE d = e /\ c = b
    <3>1. CASE s = 0
      <4>1. after[<<d, 0, c>>] = seen[<<d, 0, c>>] + 1
        BY <1>2, <2>3, <3>1
      <4>2. d # 0 => after[<<d, d, c>>] = seen[<<d, d, c>>]
        BY <1>2, <2>1, <2>3, <3>1
      <4> QED BY <2>2, <2>3, <4>1, <4>2 DEF Times
    <3>2. CASE s # 0
      <4>1. d # 0 /\ after[<<d, d, c>>] = seen[<<d, d, c>>] + 1
        BY <1>2, <2>3, <3>2
      <4>2. after[<<d, 0, c>>] = seen[<<d, 0, c>>]
        BY <1>2, <2>1, <2>3, <3>2
      <4> QED BY <2>2, <2>3, <4>1, <4>2 DEF Times
    <3> QED BY <3>1, <3>2
  <2>4. CASE ~ (d = e /\ c = b)
    <3>1. <<d, 0, c>> # at /\ <<d, d, c>> # at
      BY <2>4
    <3>2. after[<<d, 0, c>>] = seen[<<d, 0, c>>] /\ after[<<d, d, c>>] = seen[<<d, d, c>>]
      BY <1>2, <2>1, <3>1
    <3> QED BY <2>4, <3>2 DEF Times
  <2> QED BY <2>3, <2>4
<1>4. OnlyTwoOrders(seen) => OnlyTwoOrders(after)
  <2>1. at[2] \in {0, at[1]}
    OBVIOUS
  <2> QED BY <1>2, <2>1 DEF OnlyTwoOrders
<1> QED BY <1>1, <1>2, <1>3, <1>4

(* A batch is trained: with the gradients accumulated, an update, a step   *)
(* and perhaps saves.                                                      *)
LEMMA TrainBatchKeeps ==
    ASSUME TrainerInv, TrainBatch
    PROVE  TrainerInv'
<1> USE DEF TrainerInv
<1> DEFINE b == batch + 1
<1>1. /\ pc = "training" /\ todo = <<>> /\ Settled /\ Running /\ ~ Saving /\ Running'
      /\ UNCHANGED <<pc, epoch, seed, maxSteps, disk, launches, thread, copy>>
      /\ ~ PassIsOver
  BY DEF TrainBatch, Settled, Running, Saving, uploadVars
<1>2. PICK n \in {0, 1} :
          /\ batch' = b
          /\ model' = [updates |-> model.updates + n,
                       seen |-> [model.seen EXCEPT ![<<epoch, seed, b>>] = @ + 1]]
          /\ optim' = optim + n /\ step' = step + n
          /\ accum' \in {0, accum + 1}
          /\ \/ todo' = <<>> /\ n = 0
             \/ todo' = SavesAfter(step + 1) /\ n = 1
  <2>1. CASE Syncs(b)
    BY <2>1 DEF TrainBatch
  <2>2. CASE ~ Syncs(b)
    BY <2>2 DEF TrainBatch
  <2> QED BY <2>1, <2>2
<1>3. /\ step \in Nat /\ optim \in Nat /\ accum \in Nat /\ model \in Weights
      /\ model.updates \in Nat /\ model.seen \in [BatchIds -> Nat]
      /\ epoch \in 0..(Epochs - 1) /\ batch \in Nat /\ launches \in Nat
  BY DEF TypeOK, Weights
<1>4. b \in 1..Batches /\ Batches \in Nat /\ seed \in {0, epoch} /\ launches >= 1
  <2>1. batch \in 0..Batches /\ batch # Batches
    BY <1>1 DEF TypeOK, PassIsOver
  <2>2. Batches \in Nat
    BY PretrainAssumption
  <2> QED BY <1>1, <2>1, <2>2 DEF BatchesCounted
<1>5. model'.updates = model.updates + n /\ step' \in Nat /\ optim' \in Nat /\ accum' \in Nat
  BY <1>2, <1>3
<1> DEFINE at == <<epoch, seed, b>>
<1>6. /\ model'.seen \in [BatchIds -> Nat]
      /\ model'.seen[at] = model.seen[at] + 1
      /\ \A id \in BatchIds : id # at => model'.seen[id] = model.seen[id]
      /\ \A e \in 0..(Epochs - 1), c \in 1..Batches :
            Times(model'.seen, e, c) = IF e = epoch /\ c = b THEN Times(model.seen, e, c) + 1
                                       ELSE Times(model.seen, e, c)
      /\ OnlyTwoOrders(model.seen) => OnlyTwoOrders(model'.seen)
      /\ at \in BatchIds
  <2>1. model'.seen = [model.seen EXCEPT ![at] = @ + 1]
    BY <1>2
  <2> DEFINE old == model.seen
             new == model'.seen
  <2>2. old \in [BatchIds -> Nat] /\ CountsOnce(old, new, epoch, seed, b)
    BY <1>3, <2>1 DEF CountsOnce
  <2> HIDE DEF b, old, new
  <2>3. /\ at \in BatchIds
        /\ new \in [BatchIds -> Nat]
        /\ new[at] = old[at] + 1
        /\ \A id \in BatchIds : id # at => new[id] = old[id]
        /\ \A e \in 0..(Epochs - 1), c \in 1..Batches :
              Times(new, e, c) = IF e = epoch /\ c = b THEN Times(old, e, c) + 1
                                 ELSE Times(old, e, c)
        /\ OnlyTwoOrders(old) => OnlyTwoOrders(new)
    <3>1. epoch \in 0..(Epochs - 1) /\ seed \in {0, epoch} /\ b \in 1..Batches
      BY <1>3, <1>4
    <3> QED BY <2>2, <3>1, TimesAfter
  <2> QED BY <2>3 DEF old, new
<1> HIDE DEF b
<1>7. TypeOK'
  <2>1. model' \in Weights
    BY <1>2, <1>3, <1>5, <1>6 DEF Weights
  <2>2. batch' \in 0..Batches
    BY <1>2, <1>4
  <2> QED BY <1>1, <1>5, <2>1, <2>2 DEF TypeOK
<1>8. TodoIsRest' /\ (Done' = 0 \/ ~ Saving')
  <2>1. CASE todo' = <<>>
    BY <1>1, <2>1, NothingToDo DEF Saving
  <2>2. CASE todo' = SavesAfter(step')
    BY <1>1, <2>2, SaveBegins
  <2> QED BY <1>2, <2>1, <2>2
<1>9. Written'
  BY <1>1, <1>8 DEF Written, Past
<1>10. SaveInterval \in Nat \ {0} /\ step % SaveInterval \in 0..(SaveInterval - 1)
  BY <1>3, RemainderIs
<1>11. Settled' => (step % SaveInterval)' = (step % SaveInterval) + n
  <2> SUFFICES ASSUME Settled' PROVE (step % SaveInterval)' = (step % SaveInterval) + n
    OBVIOUS
  <2>1. CASE n = 0
    <3>1. step' = step
      BY <1>2, <1>3, <2>1
    <3> QED BY <1>10, <2>1, <3>1
  <2>2. CASE n = 1
    <3>1. step' = step + 1 /\ todo' = SavesAfter(step + 1)
      BY <1>2, <2>2
    <3>2. todo' # <<>> => ~ Resuming'
      BY <1>1, <1>8 DEF Settled, Saving
    <3>3. (step + 1) % SaveInterval # 0
      <4>1. CASE todo' = <<>>
        BY <3>1, <4>1, SavesAfterEmpty
      <4>2. CASE todo' # <<>>
        BY <3>1, <3>2, <4>2 DEF Resuming
      <4> QED BY <4>1, <4>2
    <3>4. (step + 1) % SaveInterval = (step % SaveInterval) + 1
      BY <1>3, <1>10, <3>3, NextRemainder
    <3> QED BY <2>2, <3>1, <3>4
  <2> QED BY <2>1, <2>2
<1>12. StepNear'
  <2> SUFFICES ASSUME Whole(disk["json"])
               PROVE  /\ disk["json"].step <= step' /\ step' <= disk["json"].step + SaveInterval
                      /\ Whole(disk["optim"]) => disk["optim"].updates <= optim'
                      /\ Settled' => step' <= disk["json"].step + (step % SaveInterval)'
    BY <1>1 DEF StepNear
  <2>1. /\ disk["json"].step <= step
        /\ Whole(disk["optim"]) => disk["optim"].updates <= optim
        /\ step <= disk["json"].step + (step % SaveInterval)
    BY <1>1 DEF StepNear
  <2>2. /\ disk["json"].step \in Nat
        /\ Whole(disk["optim"]) => disk["optim"].updates \in Nat
    BY DEF TypeOK, Whole, Counters, Counts
  <2>3. disk["json"].step <= step' /\ step' <= disk["json"].step + SaveInterval
    BY <1>2, <1>3, <1>10, <2>1, <2>2
  <2>4. Whole(disk["optim"]) => disk["optim"].updates <= optim'
    BY <1>2, <1>3, <2>1, <2>2
  <2>5. Settled' => step' <= disk["json"].step + (step % SaveInterval)'
    <3>1. step + n <= disk["json"].step + ((step % SaveInterval) + n)
      BY <1>3, <1>10, <2>1, <2>2
    <3> QED BY <1>2, <1>11, <3>1
  <2> QED BY <2>3, <2>4, <2>5
<1>13. LagBounded'
  <2>1. launches - 1 \in Nat /\ LagOf(launches - 1) \in Nat
    BY <1>3, <1>4, LagGrows
  <2>2. step <= optim /\ optim <= model.updates /\ model.updates <= step + LagOf(launches - 1)
    BY <1>1 DEF LagBounded
  <2>3. /\ step + n <= optim + n /\ optim + n <= model.updates + n
        /\ model.updates + n <= (step + n) + LagOf(launches - 1)
    BY <1>3, <2>1, <2>2
  <2>4. step' <= optim' /\ optim' <= model'.updates /\ model'.updates <= step' + LagOf(launches - 1)
    BY <1>2, <1>5, <2>3
  <2> QED BY <1>1, <2>4 DEF LagBounded, LagOf
<1>14. BatchesCounted'
  <2>1. ASSUME NEW e \in 0..(Epochs - 1), NEW c \in 1..Batches
        PROVE  /\ Times(model'.seen, e, c) <= launches
               /\ ~ Passed(e, c)' => Times(model'.seen, e, c) <= launches - 1
    <3>1. /\ Times(model.seen, e, c) <= launches
          /\ ~ Passed(e, c) => Times(model.seen, e, c) <= launches - 1
      BY <1>1 DEF BatchesCounted
    <3>2. Times(model.seen, e, c) \in Nat
      BY <1>3, PretrainAssumption DEF Times, BatchIds
    <3>3. CASE e = epoch /\ c = b
      <4>1. ~ Passed(e, c) /\ Passed(e, c)'
        BY <1>1, <1>2, <1>3, <1>4, <3>3 DEF Passed, b
      <4> QED BY <1>3, <1>6, <3>1, <3>2, <3>3, <4>1
    <3>4. CASE ~ (e = epoch /\ c = b)
      <4>1. Passed(e, c) => Passed(e, c)'
        BY <1>1, <1>2, <1>3, <1>4 DEF Passed, b
      <4> QED BY <1>6, <3>1, <3>4, <4>1
    <3> QED BY <3>3, <3>4
  <2>2. OnlyTwoOrders(model'.seen)
    BY <1>1, <1>6 DEF BatchesCounted
  <2> QED BY <1>1, <1>4, <2>1, <2>2 DEF BatchesCounted
<1>15. FirstInOrder'
  <2> SUFFICES ASSUME launches = 1, maxSteps = NoBudget
               PROVE  /\ seed = epoch
                      /\ \A id \in BatchIds :
                            model'.seen[id] = IF id[2] = id[1] /\ Passed(id[1], id[3])' THEN 1 ELSE 0
    BY <1>1 DEF FirstInOrder
  <2>1. /\ seed = epoch
        /\ \A id \in BatchIds :
              model.seen[id] = IF id[2] = id[1] /\ Passed(id[1], id[3]) THEN 1 ELSE 0
    BY <1>1 DEF FirstInOrder
  <2>2. ASSUME NEW id \in BatchIds
        PROVE  model'.seen[id] = IF id[2] = id[1] /\ Passed(id[1], id[3])' THEN 1 ELSE 0
    <3>0. id = <<id[1], id[2], id[3]>> /\ id[1] \in 0..(Epochs - 1) /\ id[3] \in 1..Batches
      BY DEF BatchIds
    <3>1. CASE id = at
      <4>1. id[1] = epoch /\ id[2] = id[1] /\ id[3] = b
        BY <2>1, <3>1
      <4>2. ~ Passed(id[1], id[3]) /\ Passed(id[1], id[3])'
        BY <1>1, <1>2, <1>3, <1>4, <4>1 DEF Passed, b
      <4>3. model.seen[id] = 0
        BY <2>1, <4>2
      <4> QED BY <1>6, <3>1, <4>1, <4>2, <4>3
    <3>2. CASE id # at
      <4>1. id[2] = id[1] => (Passed(id[1], id[3])' <=> Passed(id[1], id[3]))
        <5> SUFFICES ASSUME id[2] = id[1] PROVE Passed(id[1], id[3])' <=> Passed(id[1], id[3])
          OBVIOUS
        <5>1. ~ (id[1] = epoch /\ id[3] = b)
          BY <2>1, <3>0, <3>2
        <5>2. id[1] \in Nat /\ id[3] \in Nat
          BY <3>0, PretrainAssumption
        <5> QED BY <1>1, <1>2, <1>3, <1>4, <5>1, <5>2 DEF Passed, b
      <4>2. model'.seen[id] = model.seen[id]
        BY <1>6, <3>2
      <4> QED BY <2>1, <4>1, <4>2
    <3> QED BY <3>1, <3>2
  <2> QED BY <2>1, <2>2
<1>16. EpochsBehind'
  <2> SUFFICES ASSUME maxSteps = NoBudget PROVE EpochsBehind'
    BY <1>1 DEF EpochsBehind
  <2>1. ASSUME NEW id \in BatchIds PROVE model'.seen[id] >= model.seen[id] /\ model'.seen[id] \in Nat
    BY <1>3, <1>6
  <2>2. ASSUME NEW e \in 0..(Epochs - 1), e < epoch PROVE InOneOrder(model'.seen, e)
    <3>1. PICK s \in {0, e} : \A c \in 1..Batches : model.seen[<<e, s, c>>] >= 1
      BY <1>1, <2>2 DEF EpochsBehind, InOneOrder
    <3>2. \A c \in 1..Batches : <<e, s, c>> \in BatchIds
      BY PretrainAssumption DEF BatchIds
    <3>3. \A c \in 1..Batches : model'.seen[<<e, s, c>>] >= 1
      BY <1>3, <2>1, <3>1, <3>2
    <3> QED BY <3>3 DEF InOneOrder
  <2>3. ASSUME NEW c \in 1..Batches, c <= batch' PROVE model'.seen[<<epoch, seed, c>>] >= 1
    <3>1. <<epoch, seed, c>> \in BatchIds
      BY <1>3, <1>4, PretrainAssumption DEF BatchIds
    <3>2. CASE c = b
      BY <1>3, <1>6, <3>1, <3>2
    <3>3. CASE c # b
      <4>1. c <= batch
        BY <1>2, <1>3, <1>4, <2>3, <3>3 DEF b
      <4>2. model.seen[<<epoch, seed, c>>] >= 1
        BY <1>1, <4>1 DEF EpochsBehind
      <4> QED BY <1>3, <2>1, <3>1, <4>2
    <3> QED BY <3>2, <3>3
  <2> QED BY <1>1, <2>2, <2>3 DEF EpochsBehind
<1>17. LastUpload'
  BY <1>1 DEF LastUpload
<1> QED BY <1>7, <1>8, <1>9, <1>12, <1>13, <1>14, <1>15, <1>16, <1>17

(* The pass over an epoch ends; after the last one the last save begins.   *)
LEMMA EndPassKeeps ==
    ASSUME TrainerInv, EndPass
    PROVE  TrainerInv'
<1> USE DEF TrainerInv
<1>1. /\ pc = "training" /\ todo = <<>> /\ Settled /\ Running /\ ~ Saving /\ Running'
      /\ PassIsOver /\ seed' = epoch + 1
      /\ UNCHANGED <<step, accum, model, optim, maxSteps, disk, launches, thread, copy>>
  BY DEF EndPass, NextSeed, Settled, Running, Saving, uploadVars
<1>2. \/ /\ epoch + 1 < Epochs /\ epoch' = epoch + 1 /\ batch' = 0
         /\ UNCHANGED <<pc, todo>>
      \/ /\ ~ (epoch + 1 < Epochs)
         /\ pc' = "finishing" /\ todo' = LastSave
         /\ UNCHANGED <<epoch, batch>>
  BY DEF EndPass, LastSave
<1>3. /\ epoch \in 0..(Epochs - 1) /\ epoch \in Nat /\ Epochs \in Nat \ {0}
      /\ batch \in 0..Batches /\ Batches \in Nat /\ batch \in Nat
      /\ model.seen \in [BatchIds -> Nat]
  BY PretrainAssumption DEF TypeOK, Weights
<1>4. TypeOK'
  BY <1>1, <1>2, <1>3, ZeroIs DEF TypeOK
<1>5. TodoIsRest' /\ (Done' = 0 \/ ~ Saving')
  <2>1. CASE pc' = pc /\ todo' = todo
    BY <1>1, <2>1, NothingToDo DEF Saving
  <2>2. CASE pc' = "finishing" /\ todo' = LastSave
    BY <2>2, SaveBegins
  <2> QED BY <1>2, <2>1, <2>2
<1>6. Written'
  <2>1. Done' = 0 => ~ Past(2)' /\ ~ Past(4)' /\ ~ Past(6)' /\ ~ Past(9)'
    BY DEF Past
  <2>2. ~ Saving' => ~ Past(2)' /\ ~ Past(4)' /\ ~ Past(6)' /\ ~ Past(9)'
    BY DEF Past
  <2> QED BY <1>1, <1>5, <2>1, <2>2 DEF Written
<1>7. StepNear'
  BY <1>1 DEF StepNear, Settled
<1>8. LagBounded'
  BY <1>1 DEF LagBounded, LagOf
<1>9. NoBudget = maxSteps => batch = Batches
  BY <1>1 DEF PassIsOver, BudgetReached
<1>10. BatchesCounted'
  <2>1. ASSUME NEW e \in 0..(Epochs - 1), NEW c \in 1..Batches, ~ Passed(e, c)'
        PROVE  ~ Passed(e, c)
    BY <1>1, <1>2, <1>3, <2>1 DEF Passed
  <2>2. pc' = "training" => seed' \in {0, epoch'}
    BY <1>1, <1>2
  <2> QED BY <1>1, <1>2, <2>1, <2>2 DEF BatchesCounted
<1>11. FirstInOrder'
  <2> SUFFICES ASSUME launches = 1, maxSteps = NoBudget
               PROVE  /\ pc' = "training" => seed' = epoch'
                      /\ \A id \in BatchIds :
                            model.seen[id] = IF id[2] = id[1] /\ Passed(id[1], id[3])' THEN 1 ELSE 0
    BY <1>1 DEF FirstInOrder
  <2>1. ASSUME NEW id \in BatchIds
        PROVE  Passed(id[1], id[3])' <=> Passed(id[1], id[3])
    <3>1. id[1] \in Nat /\ id[3] \in 1..Batches
      BY DEF BatchIds
    <3> QED BY <1>1, <1>2, <1>3, <1>9, <3>1 DEF Passed
  <2>2. \A id \in BatchIds :
            model.seen[id] = IF id[2] = id[1] /\ Passed(id[1], id[3]) THEN 1 ELSE 0
    BY <1>1 DEF FirstInOrder
  <2>3. pc' = "training" => seed' = epoch'
    BY <1>1, <1>2
  <2>4. \A id \in BatchIds :
            model.seen[id] = IF id[2] = id[1] /\ Passed(id[1], id[3])' THEN 1 ELSE 0
    BY <2>1, <2>2
  <2> QED BY <2>3, <2>4
<1>12. EpochsBehind'
  <2> SUFFICES ASSUME maxSteps = NoBudget PROVE EpochsBehind'
    BY <1>1 DEF EpochsBehind
  <2>1. InOneOrder(model.seen, epoch)
    <3>1. \A c \in 1..Batches : model.seen[<<epoch, seed, c>>] >= 1
      BY <1>1, <1>3, <1>9 DEF EpochsBehind
    <3>2. seed \in {0, epoch}
      BY <1>1 DEF BatchesCounted
    <3> QED BY <3>1, <3>2 DEF InOneOrder
  <2>2. \A e \in 0..(Epochs - 1) : e <= epoch => InOneOrder(model.seen, e)
    BY <1>1, <1>3, <2>1 DEF EpochsBehind
  <2>3. \A e \in 0..(Epochs - 1) : e < epoch' => InOneOrder(model.seen, e)
    BY <1>2, <1>3, <2>2
  <2>4. pc' = "training" => \A c \in 1..Batches : ~ (c <= batch')
    BY <1>1, <1>2, <1>3
  <2>5. pc' = "finishing" => epoch' = Epochs - 1 /\ InOneOrder(model.seen, epoch')
    BY <1>1, <1>2, <1>3, <2>1
  <2>6. Whole(disk["json"]) => disk["json"].epoch <= epoch'
    <3>1. Whole(disk["json"]) => disk["json"].epoch <= epoch /\ disk["json"].epoch \in 0..(Epochs - 1)
      BY <1>1 DEF EpochsBehind, TypeOK, Whole, Counters
    <3> QED BY <1>2, <1>3, <3>1
  <2>7. pc' \in {"training", "finishing"}
    BY <1>1, <1>2
  <2> QED BY <1>1, <2>3, <2>4, <2>5, <2>6, <2>7 DEF EpochsBehind
<1>13. LastUpload'
  <2>1. todo' = LastSave => todo' # <<>>
    <3>1. \A s : s = <<>> => Len(s) = 0
      BY EmptyIs
    <3> QED BY <3>1, LastSaveIs
  <2> QED BY <1>1, <1>2, <2>1 DEF LastUpload
<1> QED BY <1>4, <1>5, <1>6, <1>7, <1>8, <1>10, <1>11, <1>12, <1>13

-----------------------------------------------------------------------------
(* The jobs of a save.                                                     *)

(* What every job of a save has in common.                                 *)
LEMMA SaveStep ==
    ASSUME TrainerInv, NEW op \in {"open", "close", "upload"}, NEW part,
           Doing([op |-> op, part |-> part]),
           todo' = Tail(todo), UNCHANGED <<pc, step>>
    PROVE  /\ TodoIsRest'
           /\ pc \in {"training", "finishing"} /\ Running /\ Running' /\ Saving /\ todo # <<>>
           /\ Resuming' = Resuming
           /\ Done \in Nat /\ Done' = Done + 1
           /\ todo' = <<>> /\ Resuming => Done' \in {7, 8, 10}
           /\ todo' = <<>> /\ pc = "finishing" => Done' = 10
           /\ op # "upload" => /\ Resuming
                               /\ Done' = PlaceOf(op, part)
                               /\ part = "final" => pc = "finishing"
           /\ op = "upload" /\ Resuming => Done' \in {7, 8, 10}
           /\ op = "upload" /\ pc = "finishing" => Done' \in {7, 10}
<1>1. TodoIsRest /\ todo # <<>>
  BY DEF TrainerInv, Doing
<1>2. /\ Running /\ Saving
      /\ Done \in Nat
      /\ op # "upload" => /\ Resuming
                          /\ Done + 1 = PlaceOf(op, part)
                          /\ part = "final" => pc = "finishing"
      /\ op = "upload" /\ Resuming => Done + 1 \in {7, 8, 10}
      /\ op = "upload" /\ pc = "finishing" => Done + 1 \in {7, 10}
  BY <1>1, NextPlace
<1>3. /\ TodoIsRest' /\ Done' = Done + 1 /\ Resuming' = Resuming
      /\ Done' = Len(Plan) <=> todo' = <<>>
  BY <1>1, JobDone
<1>4. /\ pc = "finishing" => Len(Plan) = 10
      /\ Resuming => Len(Plan) \in {7, 8, 10}
  BY PlanIs
<1>5. pc \in {"training", "finishing"} /\ Running'
  BY <1>2 DEF Running
<1> QED BY <1>1, <1>2, <1>3, <1>4, <1>5

(* A file is opened, which tears it, or closed.                            *)
LEMMA WriteFileKeeps ==
    ASSUME TrainerInv, NEW p \in Parts, OpenFile(p) \/ CloseFile(p)
    PROVE  TrainerInv'
<1> USE DEF TrainerInv
<1>1. /\ todo' = Tail(todo)
      /\ UNCHANGED <<pc, step, epoch, batch, seed, accum, model, optim, maxSteps, launches,
                     thread, copy, uploaded, remote>>
  BY DEF OpenFile, CloseFile, uploadVars
<1>2. PICK op \in {"open", "close"} :
          /\ Doing([op |-> op, part |-> p])
          /\ disk' = [disk EXCEPT ![p] = IF op = "open" THEN Torn ELSE Image(p)]
  BY DEF OpenFile, CloseFile, Open, Close
<1>3. /\ TodoIsRest' /\ pc \in {"training", "finishing"} /\ Running /\ Running' /\ Saving
      /\ todo # <<>> /\ Resuming /\ Resuming'
      /\ Done \in Nat /\ Done' = Done + 1
      /\ Done' = PlaceOf(op, p)
      /\ p = "final" => pc = "finishing"
      /\ todo' = <<>> => Done' \in {7, 8, 10}
      /\ todo' = <<>> /\ pc = "finishing" => Done' = 10
  BY <1>1, <1>2, SaveStep
<1>4. /\ p \in {"model", "optim", "json", "final"}
      /\ p = "model" => Done' = (IF op = "open" THEN 1 ELSE 2)
      /\ p = "optim" => Done' = (IF op = "open" THEN 3 ELSE 4)
      /\ p = "json"  => Done' = (IF op = "open" THEN 5 ELSE 6)
      /\ p = "final" => Done' = (IF op = "open" THEN 8 ELSE 9)
  BY <1>3 DEF PlaceOf, Parts, State
<1>5. /\ disk' = [q \in Parts |-> disk'[q]]
      /\ disk'[p] = IF op = "open" THEN Torn ELSE Image(p)
      /\ \A q \in Parts : q # p => disk'[q] = disk[q]
      /\ {"model", "optim", "json", "final"} = Parts
  BY <1>2 DEF TypeOK, Parts, State
<1>6. /\ model \in Weights /\ step \in Nat /\ optim \in Nat /\ accum \in Nat
      /\ epoch \in 0..(Epochs - 1) /\ model.updates \in Nat
      /\ [updates |-> optim, accum |-> accum] \in Counts
      /\ [step |-> step, epoch |-> epoch] \in Counters
      /\ Image("model") = model /\ Image("final") = model
      /\ Image("optim") = [updates |-> optim, accum |-> accum]
      /\ Image("json") = [step |-> step, epoch |-> epoch]
  BY DEF TypeOK, Weights, Counts, Counters, Image
<1>7. TypeOK'
  <2>1. disk'["model"] \in Weights \cup Unusable /\ disk'["final"] \in Weights \cup Unusable
    BY <1>5, <1>6 DEF TypeOK, Unusable
  <2>2. disk'["optim"] \in Counts \cup Unusable
    BY <1>5, <1>6 DEF TypeOK, Unusable
  <2>3. disk'["json"] \in Counters \cup Unusable
    BY <1>5, <1>6 DEF TypeOK, Unusable
  <2> QED BY <1>1, <1>5, <2>1, <2>2, <2>3 DEF TypeOK
\* What the save has closed before this job.
<1>8. /\ Done >= 2 => disk["model"] = model
      /\ Done >= 4 => disk["optim"] = [updates |-> optim, accum |-> accum]
      /\ Done >= 6 => disk["json"] = [step |-> step, epoch |-> epoch]
  BY <1>3 DEF Past, Written
<1>9. /\ p \in {"optim", "json", "final"} => disk["model"] = model /\ disk'["model"] = model
      /\ p = "json" => disk["optim"] = [updates |-> optim, accum |-> accum] /\ disk'["optim"] = disk["optim"]
  BY <1>3, <1>4, <1>5, <1>8
<1>10. Written'
  <2>1. Done' >= 2 => disk'["model"] = model
    BY <1>3, <1>4, <1>5, <1>6, <1>9
  <2>2. Done' >= 4 => disk'["optim"] = [updates |-> optim, accum |-> accum]
    BY <1>3, <1>4, <1>5, <1>6, <1>8
  <2>3. Done' >= 6 => disk'["json"] = [step |-> step, epoch |-> epoch]
    BY <1>3, <1>4, <1>5, <1>6, <1>8
  <2>4. Done' >= 9 => disk'["final"] = model
    BY <1>3, <1>4, <1>5, <1>6
  <2>5. disk'["json"] # Absent => disk'["model"] # Absent /\ disk'["optim"] # Absent
    <3>1. p = "json" => disk'["model"] # Absent /\ disk'["optim"] # Absent
      BY <1>6, <1>9, ContentsApart
    <3>2. p # "json" => disk'["json"] = disk["json"] /\ disk'[p] # Absent
      BY <1>4, <1>5, <1>6, ContentsApart
    <3> QED BY <1>4, <1>5, <3>1, <3>2 DEF Written
  <2> QED BY <1>1, <2>1, <2>2, <2>3, <2>4, <2>5 DEF Written, Past
<1>11. SaveInterval \in Nat \ {0} /\ step % SaveInterval \in Nat
  BY <1>6, RemainderIs
\* What is whole on disk after the job, and was not before, is in memory.
<1>12. /\ p = "model" /\ Whole(disk'["model"]) => disk'["model"] = model
       /\ p = "optim" /\ Whole(disk'["optim"]) => disk'["optim"].updates = optim
       /\ p = "json" /\ Whole(disk'["json"]) =>
             disk'["json"].step = step /\ disk'["json"].epoch = epoch
  BY <1>5, <1>6, ContentsApart
<1>13. Settled' => p = "json" /\ op = "close"
  BY <1>1, <1>3, <1>4 DEF Settled
<1>14. StepNear'
  <2> SUFFICES ASSUME Whole(disk'["json"])
               PROVE  /\ disk'["json"].step <= step /\ step <= disk'["json"].step + SaveInterval
                      /\ Whole(disk'["optim"]) => disk'["optim"].updates <= optim
                      /\ Settled' => step <= disk'["json"].step + (step % SaveInterval)
    BY <1>1 DEF StepNear
  <2>1. CASE p = "json"
    BY <1>6, <1>9, <1>11, <1>12, <2>1
  <2>2. CASE p # "json"
    <3>1. disk'["json"] = disk["json"] /\ ~ Settled'
      BY <1>5, <1>13, <2>2
    <3>2. Whole(disk'["optim"]) => disk'["optim"].updates <= optim
      <4>1. CASE p = "optim"
        BY <1>6, <1>12, <4>1
      <4>2. CASE p # "optim"
        BY <1>3, <1>5, <3>1, <4>2 DEF StepNear
      <4> QED BY <4>1, <4>2
    <3> QED BY <1>3, <3>1, <3>2 DEF StepNear
  <2> QED BY <2>1, <2>2
<1>15. launches \in Nat /\ launches - 1 \in Nat
  <2>1. launches \in Nat /\ launches >= 1
    BY <1>3 DEF BatchesCounted, TypeOK
  <2> QED BY <2>1
<1>16. /\ step <= optim /\ optim <= model.updates /\ model.updates <= step + LagOf(launches - 1)
       /\ LagOf(launches - 1) \in Nat /\ LagOf(launches) = LagOf(launches - 1) + SaveInterval
  <2>1. (launches - 1) + 1 = launches
    BY <1>15
  <2> QED BY <1>3, <1>15, <2>1, LagGrows DEF LagBounded
<1>17. LagBounded'
  <2>1. Whole(disk'["json"]) /\ Whole(disk'["optim"]) => disk'["json"].step <= disk'["optim"].updates
    <3> SUFFICES ASSUME Whole(disk'["json"]), Whole(disk'["optim"])
                 PROVE  disk'["json"].step <= disk'["optim"].updates
      OBVIOUS
    <3>1. CASE p = "json"
      BY <1>9, <1>12, <1>16, <3>1
    <3>2. CASE p = "optim"
      <4>1. disk'["json"] = disk["json"] /\ disk["json"].step \in Nat
        BY <1>5, <3>2 DEF TypeOK, Whole, Counters
      <4>2. disk["json"].step <= step
        BY <1>3, <4>1 DEF StepNear
      <4> QED BY <1>6, <1>12, <1>16, <3>2, <4>1, <4>2
    <3>3. CASE p \notin {"json", "optim"}
      BY <1>5, <3>3 DEF LagBounded
    <3> QED BY <3>1, <3>2, <3>3
  <2>2. Whole(disk'["json"]) /\ Whole(disk'["optim"]) /\ Whole(disk'["model"]) =>
            disk'["optim"].updates <= disk'["model"].updates
    <3> SUFFICES ASSUME Whole(disk'["json"]), Whole(disk'["optim"]), Whole(disk'["model"])
                 PROVE  disk'["optim"].updates <= disk'["model"].updates
      OBVIOUS
    <3>1. CASE p = "json"
      BY <1>9, <1>16, <3>1
    <3>2. CASE p = "optim"
      BY <1>9, <1>12, <1>16, <3>2
    <3>3. CASE p = "model"
      <4>1. disk'["json"] = disk["json"] /\ disk'["optim"] = disk["optim"]
        BY <1>5, <3>3
      <4>2. disk["optim"].updates <= optim /\ disk["optim"].updates \in Nat
        BY <1>3, <4>1 DEF StepNear, TypeOK, Whole, Counts
      <4> QED BY <1>6, <1>12, <1>16, <3>3, <4>1, <4>2
    <3>4. CASE p = "final"
      BY <1>5, <3>4 DEF LagBounded
    <3> QED BY <1>4, <3>1, <3>2, <3>3, <3>4
  <2>3. Whole(disk'["json"]) /\ Whole(disk'["model"]) =>
            disk'["model"].updates <= disk'["json"].step + LagOf(launches)
    <3> SUFFICES ASSUME Whole(disk'["json"]), Whole(disk'["model"])
                 PROVE  disk'["model"].updates <= disk'["json"].step + LagOf(launches)
      OBVIOUS
    <3>1. CASE p = "json"
      BY <1>6, <1>9, <1>11, <1>12, <1>16, <3>1
    <3>2. CASE p = "model"
      <4>1. disk'["json"] = disk["json"] /\ disk["json"].step \in Nat
        BY <1>5, <3>2 DEF TypeOK, Whole, Counters
      <4>2. step <= disk["json"].step + SaveInterval
        BY <1>3, <4>1 DEF StepNear
      <4> QED BY <1>6, <1>11, <1>12, <1>16, <3>2, <4>1, <4>2
    <3>3. CASE p \notin {"json", "model"}
      BY <1>5, <3>3 DEF LagBounded
    <3> QED BY <3>1, <3>2, <3>3
  <2> QED BY <1>1, <1>16, <2>1, <2>2, <2>3 DEF LagBounded, LagOf
<1>18. BatchesCounted'
  <2>1. Whole(disk'["model"]) => disk'["model"] \in {model, disk["model"]}
    BY <1>5, <1>12
  <2>2. Whole(disk'["model"]) /\ disk'["model"] # model => Whole(disk["model"]) /\ disk'["model"] = disk["model"]
    BY <2>1
  <2>3. launches # 0 /\ pc # "down"
    BY <1>3, <1>15
  <2>4. Whole(disk'["model"]) =>
          /\ OnlyTwoOrders(disk'["model"].seen)
          /\ \A e \in 0..(Epochs - 1), b \in 1..Batches : Times(disk'["model"].seen, e, b) <= launches
    BY <2>2, <2>3 DEF BatchesCounted
  <2> QED BY <1>1, <2>3, <2>4 DEF BatchesCounted, Passed
<1>19. FirstInOrder'
  BY <1>1, <1>3 DEF FirstInOrder, Passed
<1>20. EpochsBehind'
  <2> SUFFICES ASSUME maxSteps = NoBudget PROVE EpochsBehind'
    BY <1>1 DEF EpochsBehind
  <2>1. Whole(disk'["json"]) => disk'["json"].epoch <= epoch /\ disk'["json"].epoch \in Nat
    <3>1. CASE p = "json"
      BY <1>6, <1>12, <3>1
    <3>2. CASE p # "json"
      BY <1>3, <1>5, <3>2 DEF EpochsBehind, TypeOK, Whole, Counters
    <3> QED BY <3>1, <3>2
  <2>2. ASSUME Whole(disk'["json"]), Whole(disk'["model"]),
               NEW e \in 0..(Epochs - 1), e < disk'["json"].epoch
        PROVE  InOneOrder(disk'["model"].seen, e)
    <3>1. CASE p \in {"json", "model"}
      <4>1. disk'["model"] = model
        BY <1>9, <1>12, <2>2, <3>1
      <4>2. e < epoch
        BY <1>6, <2>1, <2>2
      <4> QED BY <1>3, <4>1, <4>2 DEF EpochsBehind
    <3>2. CASE p \notin {"json", "model"}
      BY <1>5, <2>2, <3>2 DEF EpochsBehind
    <3> QED BY <3>1, <3>2
  <2> QED BY <1>1, <2>1, <2>2 DEF EpochsBehind
<1>21. LastUpload'
  <2>1. ~ (pc = "finishing" /\ todo' = <<>>) /\ pc # "returned"
    BY <1>3, <1>4
  <2> QED BY <1>1, <2>1 DEF LastUpload
<1> QED BY <1>3, <1>7, <1>10, <1>14, <1>17, <1>18, <1>19, <1>20, <1>21

(* An upload begins when the one before it has ended.                      *)
LEMMA StartUploadKeeps ==
    ASSUME TrainerInv, StartUpload
    PROVE  TrainerInv'
<1> USE DEF TrainerInv
<1>1. /\ todo' = Tail(todo) /\ Doing([op |-> "upload", part |-> "all"])
      /\ UNCHANGED <<pc, step, epoch, batch, seed, accum, model, optim, maxSteps, disk, launches, copy>>
      /\ HfRepo => thread' \in {"model", "clear"}
      /\ thread' \in {"model", "clear", thread}
  BY DEF StartUpload, Upload, FirstOfThread
<1>2. /\ TodoIsRest' /\ pc \in {"training", "finishing"} /\ Running /\ Saving
      /\ todo # <<>> /\ Resuming' = Resuming
      /\ Done \in Nat /\ Done' = Done + 1
      /\ Resuming => Done' \in {7, 8, 10}
      /\ pc = "finishing" => Done' \in {7, 10}
  BY <1>1, SaveStep
<1>3. TypeOK'
  BY <1>1 DEF TypeOK, Parts, State
<1>4. Written'
  <2>1. Past(2)' => Past(2)
    BY <1>2 DEF Past
  <2>2. Past(4)' => Past(4)
    BY <1>2 DEF Past
  <2>3. Past(6)' => Past(6)
    BY <1>2 DEF Past
  <2>4. pc = "finishing" /\ Past(9)' => Past(9)
    BY <1>2 DEF Past
  <2> QED BY <1>1, <2>1, <2>2, <2>3, <2>4 DEF Written
<1>5. Settled' => Settled
  BY <1>1, <1>2 DEF Settled
<1>6. StepNear' /\ LagBounded'
  BY <1>1, <1>5 DEF StepNear, LagBounded, LagOf, Running
<1>7. BatchesCounted' /\ FirstInOrder' /\ EpochsBehind'
  BY <1>1 DEF BatchesCounted, FirstInOrder, EpochsBehind, Passed, Running
<1>8. LastUpload'
  BY <1>1, <1>2 DEF LastUpload, HasRead
<1> QED BY <1>2, <1>3, <1>4, <1>6, <1>7, <1>8

-----------------------------------------------------------------------------
(* Every step keeps the invariant.                                         *)
LEMMA TrainerStep == TrainerInv /\ [Next]_vars => TrainerInv'
<1> SUFFICES ASSUME TrainerInv, [Next]_vars PROVE TrainerInv'
  OBVIOUS
<1>1. CASE Launch
  BY <1>1, LaunchKeeps
<1>2. CASE TrainBatch
  BY <1>2, TrainBatchKeeps
<1>3. CASE EndPass
  BY <1>3, EndPassKeeps
<1>4. CASE \E p \in Parts : OpenFile(p) \/ CloseFile(p)
  BY <1>4, WriteFileKeeps
<1>5. CASE StartUpload
  BY <1>5, StartUploadKeeps
<1>6. CASE Return \/ Crash
  BY <1>6, EndKeeps
<1>7. CASE Thread
  BY <1>7, ThreadKeeps
<1>8. CASE UNCHANGED vars
  BY <1>8, StutterKeeps
<1> QED BY <1>1, <1>2, <1>3, <1>4, <1>5, <1>6, <1>7, <1>8 DEF Next, Train

(* The invariant of a run of processes, their files and their uploads:     *)
(* what _save_ckpt has written by now, how far latest/ is behind, which    *)
(* batches are counted, and what the upload thread has read.               *)
THEOREM TrainerInvariant == Spec => []TrainerInv
  BY TrainerInit, TrainerStep, PTL DEF Spec

-----------------------------------------------------------------------------
(* However processes die between the files of latest/, the one that runs   *)
(* has no step ahead of its optimizer and no optimizer ahead of its        *)
(* weights, and its step is behind by at most a save interval for each     *)
(* process that died.                                                      *)
THEOREM StepAlwaysLagsBoundedly == Spec => []StepLagsBoundedly
<1>1. TrainerInv => StepLagsBoundedly
  <2> SUFFICES ASSUME TrainerInv, Running PROVE StepLagsBoundedly
    BY DEF StepLagsBoundedly
  <2>1. step <= optim /\ optim <= model.updates /\ model.updates <= step + LagOf(launches - 1)
    BY DEF TrainerInv, LagBounded
  <2>2. step \in Nat /\ model.updates \in Nat /\ launches \in Nat /\ launches >= 1
    BY DEF TrainerInv, TypeOK, Weights, BatchesCounted, Running
  <2>3. LagOf(launches - 1) \in Nat /\ LagOf(launches - 1) = SaveInterval * (launches - 1)
    <3>1. launches - 1 \in Nat
      BY <2>2
    <3> QED BY <3>1, LagGrows DEF LagOf
  <2>4. model.updates - step <= LagOf(launches - 1)
    BY <2>1, <2>2, <2>3
  <2> QED BY <2>1, <2>3, <2>4 DEF StepLagsBoundedly
<1> QED BY <1>1, TrainerInvariant, PTL

(* The first process trains each batch once, in its epoch's own order; a   *)
(* batch is trained at most once with each process; and a run without a    *)
(* budget that returns has trained every batch of every epoch.             *)
THEOREM EpochsAlwaysCovered == Spec => []EpochsCovered
<1>1. TrainerInv => EpochsCovered
  <2> SUFFICES ASSUME TrainerInv PROVE EpochsCovered
    OBVIOUS
  <2>1. ASSUME Running
        PROVE  /\ launches = 1 /\ maxSteps = NoBudget =>
                     \A id \in BatchIds :
                         model.seen[id] = IF id[2] = id[1] /\ Passed(id[1], id[3]) THEN 1 ELSE 0
               /\ \A e \in 0..(Epochs - 1), b \in 1..Batches : TimesTrained(e, b) <= launches
               /\ \A id \in BatchIds : id[2] \notin {0, id[1]} => model.seen[id] = 0
    <3>1. pc # "down"
      BY <2>1 DEF Running
    <3>2. \A e \in 0..(Epochs - 1), b \in 1..Batches : TimesTrained(e, b) = Times(model.seen, e, b)
      BY DEF TimesTrained, Times
    <3> QED BY <2>1, <3>1, <3>2 DEF TrainerInv, FirstInOrder, BatchesCounted, OnlyTwoOrders
  <2>2. ASSUME pc = "returned", maxSteps = NoBudget, NEW e \in 0..(Epochs - 1)
        PROVE  InOneOrder(model.seen, e)
    <3>1. /\ epoch = Epochs - 1 /\ InOneOrder(model.seen, epoch)
          /\ \A d \in 0..(Epochs - 1) : d < epoch => InOneOrder(model.seen, d)
      BY <2>2 DEF TrainerInv, EpochsBehind
    <3>2. e = epoch \/ e < epoch
      BY <3>1, PretrainAssumption
    <3> QED BY <3>1, <3>2
  <2> QED BY <2>1, <2>2 DEF EpochsCovered, InOneOrder
<1> QED BY <1>1, TrainerInvariant, PTL

(* When train returns and its last upload succeeded, the Hub holds the run *)
(* directory as it is: nothing was written while the last thread read it.  *)
THEOREM ReturnedAlwaysUploaded == Spec => []ReturnedIsUploaded
<1>1. TrainerInv => ReturnedIsUploaded
  BY DEF TrainerInv, LastUpload, ReturnedIsUploaded
<1> QED BY <1>1, TrainerInvariant, PTL
=============================================================================
