--------------------------- MODULE SFTTrainerProofs ---------------------------
(***************************************************************************)
(* For any epochs, batches, accumulation and save interval, and wherever   *)
(* processes die: what SFTTrainer promises of the files it leaves, of the  *)
(* work a process that dies costs, and of the batches it trains.           *)
(***************************************************************************)
EXTENDS SFTTrainer, TLAPS

Unusable == {Absent, Torn}
Whole(content) == content \notin Unusable

Jobs == [op : {"open", "close", "mkdir"}, file : Files \cup {"snapshot", "latest_ckpt"}]

TypeOK ==
    /\ pc \in {"down", "training", "finishing", "returned"}
    /\ step \in Steps /\ epoch \in EpochIds
    /\ left \subseteq Batches /\ accum \in Nat
    /\ model \in Weights
    /\ snapshots \in [Steps -> Weights \cup Unusable]
    /\ hasLatest \in BOOLEAN
    /\ disk = [p \in Files |-> disk[p]]
    /\ \A p \in Export \cup {"model"} : disk[p] \in Weights \cup Unusable
    /\ disk["optim"] \in Nat \cup Unusable
    /\ disk["json"] \in Counters \cup Unusable
    /\ disk["pointer"] \in Steps \cup Unusable
    /\ launches \in Nat /\ furthest \in Nat
    /\ finals \subseteq Steps

-----------------------------------------------------------------------------
(* A save and how far it has come.  The places of the jobs in it: snapshot *)
(* 1, 2, latest_ckpt 3, model 4, 5, optim 6, 7, json 8, 9; then pointer    *)
(* 10, 11, or in the last save archive 10, 11, final 12, 13, finalOptim    *)
(* 14, 15, pointer 16, 17.                                                 *)
MiddleSave == SaveCkpt(FALSE)
LastSave   == SaveCkpt(TRUE)

Plan    == IF pc = "finishing" THEN LastSave ELSE MiddleSave
Done    == Len(Plan) - Len(todo)
Saving  == todo # <<>> \/ pc = "finishing"
Past(n) == Saving /\ Done >= n

TodoIsRest ==
    /\ todo \in Seq(Jobs)
    /\ Len(todo) <= Len(Plan)
    /\ \A i \in 1..Len(todo) : todo[i] = Plan[Done + i]
    /\ todo # <<>> => Running

(* What a save has closed is what the process has in memory.               *)
Written ==
    /\ Past(2) => snapshots[step] = model
    /\ Past(3) => hasLatest
    /\ Past(5) => disk["model"] = model
    /\ Past(9) => disk["json"] = [step |-> step, epoch |-> epoch]
    /\ pc = "finishing" /\ Past(11) => disk["archive"] = model
    /\ pc = "finishing" /\ Past(13) => disk["final"] = model
    /\ pc = "finishing" /\ Past(15) => disk["finalOptim"] = model
    /\ pc = "finishing" /\ Past(17) => disk["pointer"] = step
    /\ ~ hasLatest => \A p \in State \cup {"pointer"} : disk[p] = Absent

(* The pointer follows training_state.json, and a save that is not the     *)
(* last one has a step of its own.                                         *)
PointerFollows ==
    /\ disk["pointer"] \in Steps =>
          /\ disk["json"] # Absent
          /\ Whole(disk["json"]) => disk["pointer"] <= disk["json"].step
          /\ Running => disk["pointer"] <= step
          /\ pc = "training" /\ todo # <<>> => disk["pointer"] < step
    /\ pc = "finishing" => step \in finals
    /\ PointedIsWhole

(* What a process launched now would resume from.                          *)
HasWeights  == hasLatest => Whole(disk["model"])
HasStep     == disk["json"] # Torn
BaseUpdates == IF hasLatest THEN disk["model"].updates ELSE 0
BaseStep    == IF disk["json"] = Absent THEN 0 ELSE disk["json"].step

Between == pc = "training" /\ todo = <<>>

\* The steps that n processes which died may have fallen behind.
LagOf(n) == SaveInterval * n

(* The weights on disk are at most a save interval behind, and between two *)
(* saves at most as far as the step is past a multiple of the interval.    *)
UpdatesNear ==
    HasWeights =>
        /\ furthest <= BaseUpdates + SaveInterval
        /\ Running => BaseUpdates <= model.updates /\ model.updates <= BaseUpdates + SaveInterval
        /\ Between => model.updates <= BaseUpdates + (step % SaveInterval)

(* So is the step on disk.                                                 *)
StepNear ==
    HasStep =>
        /\ Running => BaseStep <= step /\ step <= BaseStep + SaveInterval
        /\ Between => step <= BaseStep + (step % SaveInterval)

LagBounded ==
    /\ HasWeights /\ HasStep =>
          BaseStep <= BaseUpdates /\ BaseUpdates <= BaseStep + LagOf(launches)
    /\ Running =>
          /\ furthest <= model.updates + SaveInterval
          /\ step <= model.updates /\ model.updates <= step + LagOf(launches - 1)

(* Under a running process only the file it is writing is not whole.       *)
HalfWritten ==
    /\ pc # "down" => launches >= 1
    /\ Running /\ ~ HasWeights => Past(3) /\ Done <= 4
    /\ Running /\ ~ HasStep => Past(8) /\ Done <= 8

(* Each process trains the batches of its epochs in turn, once.            *)
Ahead(e, b) == e > epoch \/ (e = epoch /\ b \in left)

BatchesCounted ==
    /\ pc # "down" =>
          \A e \in EpochIds, b \in Batches :
              /\ model.seen[<<e, b>>] <= launches
              /\ Ahead(e, b) => model.seen[<<e, b>>] <= launches - 1
              /\ ~ Ahead(e, b) => model.seen[<<e, b>>] >= 1
    /\ Whole(disk["model"]) =>
          \A e \in EpochIds, b \in Batches :
              /\ disk["model"].seen[<<e, b>>] <= launches
              /\ Whole(disk["json"]) /\ e < disk["json"].epoch => disk["model"].seen[<<e, b>>] >= 1
    /\ Running /\ Whole(disk["json"]) => disk["json"].epoch <= epoch
    /\ pc \in {"finishing", "returned"} => epoch = Epochs - 1 /\ left = {}

(* The inductive invariant.                                                *)
TrainerInv ==
    /\ TypeOK
    /\ TodoIsRest
    /\ Written
    /\ PointerFollows
    /\ UpdatesNear
    /\ StepNear
    /\ LagBounded
    /\ HalfWritten
    /\ BatchesCounted
    /\ ReturnedAllAgree

-----------------------------------------------------------------------------
(* Arithmetic of save intervals.                                           *)

(* Quotient and remainder.                                                 *)
LEMMA DivisionIs ==
    ASSUME NEW n \in Nat, NEW k \in Nat \ {0}
    PROVE  /\ n % k \in 0..(k - 1)
           /\ n \div k \in Nat
           /\ n = k * (n \div k) + (n % k)
  BY SMT

(* A remainder grows by one until it wraps.                                *)
LEMMA NextRemainder ==
    ASSUME NEW n \in Nat, NEW k \in Nat \ {0}
    PROVE  /\ n % k \in 0..(k - 1)
           /\ (n + 1) % k # 0 => (n + 1) % k = (n % k) + 1
<1> DEFINE q == n \div k
           r == n % k
           p == (n + 1) \div k
           s == (n + 1) % k
<1>1. q \in Nat /\ r \in 0..(k - 1) /\ n = k * q + r
  BY DivisionIs
<1>2. p \in Nat /\ s \in 0..(k - 1) /\ n + 1 = k * p + s
  <2>1. n + 1 \in Nat
    OBVIOUS
  <2> QED BY <2>1, DivisionIs
<1> HIDE DEF q, r, p, s
<1>3. k * (p - q) = r + 1 - s
  <2>1. k * (p - q) = k * p - k * q /\ k * p \in Int /\ k * q \in Int
    BY <1>1, <1>2
  <2> QED BY <2>1, <1>1, <1>2
<1>4. ASSUME p - q >= 2 PROVE FALSE
  <2>1. k * (p - q) >= k * 2
    BY <1>1, <1>2, <1>4
  <2> QED BY <2>1, <1>1, <1>2, <1>3
<1>5. ASSUME p - q <= -1 PROVE FALSE
  <2>1. k * (p - q) <= k * (-1)
    BY <1>1, <1>2, <1>5
  <2> QED BY <2>1, <1>1, <1>2, <1>3
<1>6. p - q = 0 \/ p - q = 1
  BY <1>1, <1>2, <1>4, <1>5
<1>7. s # 0 => s = r + 1
  BY <1>1, <1>2, <1>3, <1>6
<1> QED BY <1>1, <1>7 DEF r, s

(* Another process that died adds a save interval.                         *)
LEMMA LagGrows ==
    ASSUME NEW n \in Nat
    PROVE  LagOf(n) \in Nat /\ LagOf(n + 1) = LagOf(n) + SaveInterval
  BY SFTAssumption DEF LagOf

-----------------------------------------------------------------------------
(* The jobs of a save, by place.                                           *)

(* Jobs that follow jobs.                                                  *)
LEMMA JoinedIs ==
    ASSUME NEW s \in Seq(Jobs), NEW t \in Seq(Jobs)
    PROVE  s \o t \in Seq(Jobs)
  OBVIOUS

(* The two jobs of writing a file.                                         *)
LEMMA WriteIs ==
    ASSUME NEW p \in Files \cup {"snapshot"}
    PROVE  Write(p) \in Seq(Jobs)
  BY DEF Write, Open, Close, Jobs

(* A save between two batches.                                             *)
LEMMA MiddleSaveIs ==
    LET save == MiddleSave
    IN  /\ save = [i \in 1..11 |-> save[i]] /\ Len(save) = 11
        /\ save[1] = Open("snapshot") /\ save[2] = Close("snapshot") /\ save[3] = Mkdir
        /\ save[4] = Open("model")    /\ save[5] = Close("model")
        /\ save[6] = Open("optim")    /\ save[7] = Close("optim")
        /\ save[8] = Open("json")     /\ save[9] = Close("json")
        /\ save[10] = Open("pointer") /\ save[11] = Close("pointer")
  BY DEF MiddleSave, SaveCkpt, ResumeState, Write

(* The save at the end of training.                                        *)
LEMMA LastSaveIs ==
    LET save == LastSave
    IN  /\ save = [i \in 1..17 |-> save[i]] /\ Len(save) = 17
        /\ save[1] = Open("snapshot") /\ save[2] = Close("snapshot") /\ save[3] = Mkdir
        /\ save[4] = Open("model")    /\ save[5] = Close("model")
        /\ save[6] = Open("optim")    /\ save[7] = Close("optim")
        /\ save[8] = Open("json")     /\ save[9] = Close("json")
        /\ save[10] = Open("archive") /\ save[11] = Close("archive")
        /\ save[12] = Open("final")   /\ save[13] = Close("final")
        /\ save[14] = Open("finalOptim") /\ save[15] = Close("finalOptim")
        /\ save[16] = Open("pointer") /\ save[17] = Close("pointer")
  BY DEF LastSave, SaveCkpt, ResumeState, FinalExport, Write

(* Both are sequences of jobs.                                             *)
LEMMA SaveHasType ==
    /\ MiddleSave \in Seq(Jobs) /\ Len(MiddleSave) = 11
    /\ LastSave \in Seq(Jobs) /\ Len(LastSave) = 17
<1>1. <<Mkdir>> \in Seq(Jobs) /\ <<>> \in Seq(Jobs)
  BY DEF Mkdir, Jobs
<1>2. ResumeState \in Seq(Jobs)
  BY <1>1, WriteIs, JoinedIs DEF ResumeState, Files, State
<1>3. FinalExport \in Seq(Jobs)
  BY WriteIs, JoinedIs DEF FinalExport, Files, Export
<1>4. Write("snapshot") \in Seq(Jobs) /\ Write("pointer") \in Seq(Jobs)
  BY WriteIs DEF Files
<1>5. MiddleSave \in Seq(Jobs) /\ LastSave \in Seq(Jobs)
  BY <1>1, <1>2, <1>3, <1>4, JoinedIs DEF MiddleSave, LastSave, SaveCkpt
<1> QED BY <1>5, MiddleSaveIs, LastSaveIs

\* Where a job stands in a save that writes the pointer at place last.
PlaceIn(op, file, last) ==
    LET shut == IF op = "open" THEN 0 ELSE 1
    IN  CASE file = "snapshot"    -> 1 + shut
          [] file = "latest_ckpt" -> 3
          [] file = "model"       -> 4 + shut
          [] file = "optim"       -> 6 + shut
          [] file = "json"        -> 8 + shut
          [] file = "archive"     -> 10 + shut
          [] file = "final"       -> 12 + shut
          [] file = "finalOptim"  -> 14 + shut
          [] file = "pointer"     -> last + shut

(* Every job of the first knows its place.                                 *)
LEMMA PlacesInMiddle ==
    ASSUME NEW k \in 1..11
    PROVE  LET job == MiddleSave[k]
           IN  PlaceIn(job.op, job.file, 10) = k /\ job.file \notin Export
<1> DEFINE save == MiddleSave
<1>1. /\ save[1] = [op |-> "open", file |-> "snapshot"]
      /\ save[2] = [op |-> "close", file |-> "snapshot"]
      /\ save[3] = [op |-> "mkdir", file |-> "latest_ckpt"]
      /\ save[4] = [op |-> "open", file |-> "model"]
      /\ save[5] = [op |-> "close", file |-> "model"]
      /\ save[6] = [op |-> "open", file |-> "optim"]
      /\ save[7] = [op |-> "close", file |-> "optim"]
      /\ save[8] = [op |-> "open", file |-> "json"]
      /\ save[9] = [op |-> "close", file |-> "json"]
      /\ save[10] = [op |-> "open", file |-> "pointer"]
      /\ save[11] = [op |-> "close", file |-> "pointer"]
  BY MiddleSaveIs DEF Open, Close, Mkdir
<1> HIDE DEF save
<1>2. k \in {1, 2, 3, 4, 5, 6, 7, 8, 9, 10, 11}
  OBVIOUS
<1>3. PlaceIn(save[k].op, save[k].file, 10) = k /\ save[k].file \notin Export
  BY <1>1, <1>2 DEF PlaceIn, Export
<1> QED BY <1>3 DEF save

(* So does every job of the second.                                        *)
LEMMA PlacesInLast ==
    ASSUME NEW k \in 1..17
    PROVE  LET job == LastSave[k] IN PlaceIn(job.op, job.file, 16) = k
<1> DEFINE save == LastSave
<1>1. /\ save[1] = [op |-> "open", file |-> "snapshot"]
      /\ save[2] = [op |-> "close", file |-> "snapshot"]
      /\ save[3] = [op |-> "mkdir", file |-> "latest_ckpt"]
      /\ save[4] = [op |-> "open", file |-> "model"]
      /\ save[5] = [op |-> "close", file |-> "model"]
      /\ save[6] = [op |-> "open", file |-> "optim"]
      /\ save[7] = [op |-> "close", file |-> "optim"]
      /\ save[8] = [op |-> "open", file |-> "json"]
      /\ save[9] = [op |-> "close", file |-> "json"]
      /\ save[10] = [op |-> "open", file |-> "archive"]
      /\ save[11] = [op |-> "close", file |-> "archive"]
      /\ save[12] = [op |-> "open", file |-> "final"]
      /\ save[13] = [op |-> "close", file |-> "final"]
      /\ save[14] = [op |-> "open", file |-> "finalOptim"]
      /\ save[15] = [op |-> "close", file |-> "finalOptim"]
      /\ save[16] = [op |-> "open", file |-> "pointer"]
      /\ save[17] = [op |-> "close", file |-> "pointer"]
  BY LastSaveIs DEF Open, Close, Mkdir
<1> HIDE DEF save
<1>2. k \in {1, 2, 3, 4, 5, 6, 7, 8, 9, 10, 11, 12, 13, 14, 15, 16, 17}
  OBVIOUS
<1>3. PlaceIn(save[k].op, save[k].file, 16) = k
  BY <1>1, <1>2 DEF PlaceIn
<1> QED BY <1>3 DEF save

(* Which job comes next tells how far the save has come.                   *)
LEMMA NextJob ==
    ASSUME TodoIsRest, NEW job, Doing(job)
    PROVE  /\ Running /\ Saving
           /\ Done \in Nat /\ Done + 1 <= Len(Plan)
           /\ job = Plan[Done + 1]
<1>1. todo \in Seq(Jobs) /\ todo # <<>> /\ job = todo[1]
  BY DEF TodoIsRest, Doing
<1>2. Len(todo) \in Nat /\ Len(todo) >= 1
  BY <1>1
<1>3. Len(Plan) \in Nat
  BY SaveHasType DEF Plan
<1>4. Len(todo) <= Len(Plan) /\ todo[1] = Plan[Done + 1]
  BY <1>2 DEF TodoIsRest
<1> QED BY <1>1, <1>2, <1>3, <1>4 DEF Done, Saving, TodoIsRest

(* The job that is done next is the one at the next place.                 *)
LEMMA NextPlace ==
    ASSUME TodoIsRest, NEW op, NEW file,
           Doing([op |-> op, file |-> file])
    PROVE  /\ Running /\ Saving /\ Done \in 0..16
           /\ Done + 1 = PlaceIn(op, file, IF pc = "finishing" THEN 16 ELSE 10)
           /\ file \in Export => pc = "finishing"
<1>1. /\ Running /\ Saving
      /\ Done \in Nat /\ Done + 1 <= Len(Plan)
      /\ Plan[Done + 1] = [op |-> op, file |-> file]
  BY NextJob
<1>2. CASE pc = "finishing"
  <2>1. Plan = LastSave /\ Len(Plan) = 17
    BY <1>2, SaveHasType DEF Plan
  <2>2. Done + 1 \in 1..17 /\ LastSave[Done + 1] = [op |-> op, file |-> file]
    BY <1>1, <2>1
  <2>3. Done + 1 = PlaceIn(op, file, 16)
    BY <2>2, PlacesInLast
  <2> QED BY <1>1, <1>2, <2>1, <2>3
<1>3. CASE pc # "finishing"
  <2>1. Plan = MiddleSave /\ Len(Plan) = 11
    BY <1>3, SaveHasType DEF Plan
  <2>2. Done + 1 \in 1..11 /\ MiddleSave[Done + 1] = [op |-> op, file |-> file]
    BY <1>1, <2>1
  <2>3. Done + 1 = PlaceIn(op, file, 10) /\ file \notin Export
    BY <2>2, PlacesInMiddle
  <2> QED BY <1>1, <1>3, <2>1, <2>3
<1> QED BY <1>2, <1>3

(* Nothing left to do.                                                     *)
LEMMA EmptyIs == \A s : s = <<>> => Len(s) = 0
  OBVIOUS

(* A job done leaves the rest of the same save.                            *)
LEMMA JobDone ==
    ASSUME TodoIsRest, todo # <<>>, todo' = Tail(todo), pc' = pc
    PROVE  /\ TodoIsRest'
           /\ Plan' = Plan /\ Done' = Done + 1
           /\ Saving' => Saving
           /\ pc = "training" => (todo' = <<>> <=> Done' = 11)
           /\ todo' # <<>> => Saving'
<1>1. todo \in Seq(Jobs) /\ Len(todo) \in Nat /\ Len(todo) >= 1
  BY DEF TodoIsRest
<1>2. /\ todo' \in Seq(Jobs) /\ Len(todo') = Len(todo) - 1
      /\ \A i \in 1..Len(todo') : todo'[i] = todo[i + 1]
  BY <1>1
<1>3. Plan' = Plan
  BY DEF Plan
<1>4. Len(Plan) \in Nat /\ (pc = "training" => Len(Plan) = 11)
  BY SaveHasType DEF Plan
<1>5. Done' = Done + 1 /\ Done \in Int
  BY <1>1, <1>2, <1>3, <1>4 DEF Done
<1>6. \A i \in 1..Len(todo') : todo'[i] = Plan'[Done' + i]
  <2> TAKE i \in 1..Len(todo')
  <2>1. i + 1 \in 1..Len(todo)
    BY <1>1, <1>2
  <2>2. todo[i + 1] = Plan[Done + (i + 1)]
    BY <2>1 DEF TodoIsRest
  <2>3. Done + (i + 1) = Done' + i
    BY <1>5, <2>1
  <2> QED BY <1>2, <1>3, <2>2, <2>3
<1>7. TodoIsRest'
  BY <1>1, <1>2, <1>3, <1>6 DEF TodoIsRest, Running
<1>8. pc = "training" /\ todo' = <<>> => Done' = 11
  <2> SUFFICES ASSUME pc = "training", todo' = <<>>
               PROVE  Done' = 11
    OBVIOUS
  <2>1. Len(todo') = 0
    BY EmptyIs
  <2> HIDE DEF Done
  <2>2. Len(Plan') = 11
    BY <1>3, <1>4
  <2> QED BY <2>1, <2>2 DEF Done
<1>9. pc = "training" /\ Done' = 11 => todo' = <<>>
  <2> SUFFICES ASSUME pc = "training", Done' = 11
               PROVE  todo' = <<>>
    OBVIOUS
  <2>1. Done = 11 - Len(todo)
    BY <1>4 DEF Done
  <2>2. Done + 1 = 11
    BY <1>5
  <2>3. (11 - Len(todo)) + 1 = 11
    BY <2>1, <2>2
  <2>4. Len(todo) = 1
    <3>1. \A n \in Nat : (11 - n) + 1 = 11 => n = 1
      OBVIOUS
    <3> HIDE DEF TodoIsRest
    <3> QED BY <1>1, <2>3, <3>1
  <2>5. Len(todo') = 0
    BY <1>2, <2>4
  <2> QED BY <1>2, <2>5
<1> QED BY <1>3, <1>5, <1>7, <1>8, <1>9 DEF Saving

(* A save begins with all its jobs to do.                                  *)
LEMMA SaveBegins ==
    ASSUME \/ pc' = "training" /\ todo' = MiddleSave
           \/ pc' = "finishing" /\ todo' = LastSave
    PROVE  TodoIsRest' /\ Done' = 0 /\ todo' # <<>> /\ Saving'
<1>1. Plan' = todo'
  BY DEF Plan
<1>2. todo' \in Seq(Jobs) /\ Len(todo') \in {11, 17}
  <2>1. CASE todo' = MiddleSave
    BY <2>1, SaveHasType
  <2>2. CASE todo' = LastSave
    BY <2>2, SaveHasType
  <2> QED BY <2>1, <2>2
<1>3. todo' # <<>>
  <2> SUFFICES ASSUME todo' = <<>> PROVE FALSE
    OBVIOUS
  <2>1. Len(todo') = 0
    OBVIOUS
  <2> QED BY <1>2, <2>1
<1>4. Done' = 0
  BY <1>1, <1>2 DEF Done
<1>5. Running'
  BY DEF Running
<1> QED BY <1>1, <1>2, <1>3, <1>4, <1>5 DEF TodoIsRest, Saving

-----------------------------------------------------------------------------
(* The invariant holds at first.                                           *)

(* Nothing that a file may hold is absent or torn.                         *)
LEMMA ContentsApart ==
    /\ \A c \in Weights \cup Counters \cup Nat : Whole(c)
    /\ ~ Whole(Absent) /\ ~ Whole(Torn) /\ Absent # Torn
    /\ Absent \notin Steps /\ Torn \notin Steps
  BY SFTAssumption DEF Whole, Unusable, Steps

(* Remainders by the save interval.                                        *)
LEMMA NothingIsNear ==
    ASSUME NEW n \in Nat
    PROVE  SaveInterval \in Nat \ {0} /\ n % SaveInterval \in Nat
  BY SFTAssumption, NextRemainder

(* The weights that a process starts with when there is no checkpoint.     *)
LEMMA UntrainedIs ==
    Untrained \in Weights /\ Untrained.updates = 0
    /\ \A e \in EpochIds, b \in Batches : Untrained.seen[<<e, b>>] = 0
  BY DEF Untrained, Weights

(* It holds of the first state: nothing on disk, no process.               *)
LEMMA TrainerInit == Init => TrainerInv
<1> SUFFICES ASSUME Init PROVE TrainerInv
  OBVIOUS
<1> USE DEF Init
<1>1. TypeOK
  <2>1. \A p \in Files : disk[p] = Absent
    OBVIOUS
  <2>2. disk = [p \in Files |-> disk[p]]
    OBVIOUS
  <2>3. \A p \in Export \cup {"model", "optim", "json", "pointer"} : disk[p] \in Unusable
    BY <2>1 DEF Unusable, Files, State
  <2>4. snapshots \in [Steps -> Weights \cup Unusable]
    BY DEF Unusable
  <2>5. 0 \in Steps /\ 0 \in EpochIds
    BY SFTAssumption DEF Steps, EpochIds
  <2> HIDE DEF Init
  <2> QED BY <2>2, <2>3, <2>4, <2>5, UntrainedIs DEF TypeOK, Init
<1>2. TodoIsRest
  BY SaveHasType DEF TodoIsRest, Plan
<1>3. ~ Saving /\ ~ Running /\ ~ Between
  BY DEF Saving, Running, Between
<1>4. Written
  BY <1>3 DEF Written, Past, State, Files
<1>5. PointerFollows
  BY <1>3, ContentsApart DEF PointerFollows, PointedIsWhole, Files
<1>6. BaseUpdates = 0 /\ BaseStep = 0 /\ HasWeights /\ HasStep
  BY ContentsApart DEF BaseUpdates, BaseStep, HasWeights, HasStep, Files, State
<1>7. UpdatesNear /\ StepNear
  BY <1>3, <1>6, SFTAssumption DEF UpdatesNear, StepNear
<1>8. LagBounded
  BY <1>3, <1>6, LagGrows DEF LagBounded
<1>9. HalfWritten
  BY <1>3 DEF HalfWritten
<1>10. BatchesCounted
  BY <1>3, ContentsApart DEF BatchesCounted, Files, State
<1>11. ReturnedAllAgree
  BY DEF ReturnedAllAgree
<1> QED BY <1>1, <1>2, <1>4, <1>5, <1>7, <1>8, <1>9, <1>10, <1>11 DEF TrainerInv

-----------------------------------------------------------------------------
(* A process starts from what is whole on disk, or from nothing.           *)

(* A process is launched: it resumes from what is whole on disk, or not at *)
(* all.                                                                    *)
LEMMA LaunchKeeps ==
    ASSUME TrainerInv, Launch
    PROVE  TrainerInv'
<1> USE DEF TrainerInv
<1>1. /\ todo = <<>> /\ todo' = <<>>
      /\ pc' = "training" /\ pc \in {"down", "returned"}
      /\ launches \in Nat /\ launches' = launches + 1 /\ launches' - 1 = launches
      /\ left' = Batches
      /\ UNCHANGED <<snapshots, hasLatest, disk, furthest, finals>>
  BY DEF Launch, TodoIsRest, Running, diskVars, FirstLeft, TypeOK
<1>2. /\ HasWeights /\ HasStep
      /\ model' \in Weights /\ model'.updates = BaseUpdates
      /\ step' \in Steps /\ step' = BaseStep
      /\ accum' \in Nat /\ epoch' \in EpochIds
  <2>1. CASE ~ hasLatest
    <3>1. FromScratch /\ disk["json"] = Absent
      BY <2>1, <1>1 DEF Launch, Written, State
    <3> QED BY <2>1, <3>1, ContentsApart, UntrainedIs, SFTAssumption
            DEF FromScratch, HasWeights, HasStep, BaseUpdates, BaseStep, Steps, EpochIds
  <2>2. CASE hasLatest
    <3>1. Resume
      BY <2>2 DEF Launch
    <3> QED BY <2>2, <3>1, SFTAssumption
            DEF Resume, HasWeights, HasStep, BaseUpdates, BaseStep, Steps, EpochIds, Counters,
                Whole, Unusable, TypeOK
  <2> QED BY <2>1, <2>2 DEF TypeOK
<1>3. ~ Saving' /\ Running' /\ Between'
  BY <1>1 DEF Saving, Running, Between
<1>4. TypeOK'
  BY <1>1, <1>2 DEF TypeOK
<1>5. TodoIsRest'
  BY <1>1, EmptyIs, SaveHasType DEF TodoIsRest, Plan
<1>6. Written'
  BY <1>1, <1>3 DEF Written, Past
<1>7. PointerFollows'
  <2>1. PointedIsWhole'
    BY <1>1 DEF PointedIsWhole, PointerFollows
  <2>2. ASSUME disk["pointer"] \in Steps
        PROVE  disk["json"] # Absent /\ disk["pointer"] <= step'
    <3>1. disk["json"] # Absent
      BY <2>2 DEF PointerFollows
    <3>2. Whole(disk["json"]) /\ step' = disk["json"].step
      BY <1>2, <3>1 DEF HasStep, BaseStep, Whole, Unusable
    <3> QED BY <2>2, <3>1, <3>2 DEF PointerFollows
  <2> QED BY <1>1, <2>1, <2>2 DEF PointerFollows
<1>8. /\ BaseUpdates' = BaseUpdates /\ BaseStep' = BaseStep
      /\ HasWeights' = HasWeights /\ HasStep' = HasStep
  BY <1>1 DEF BaseUpdates, BaseStep, HasWeights, HasStep
<1>9. BaseUpdates \in Nat /\ BaseStep \in Nat /\ furthest \in Nat
  BY <1>2 DEF TypeOK, Weights, Steps
<1>10. (step % SaveInterval)' \in Nat /\ SaveInterval \in Nat
  BY <1>2, NothingIsNear DEF Steps
<1>11. UpdatesNear'
  BY <1>1, <1>2, <1>3, <1>8, <1>9, <1>10 DEF UpdatesNear
<1>12. StepNear'
  BY <1>1, <1>2, <1>3, <1>8, <1>9, <1>10 DEF StepNear
<1>13. LagBounded'
  <2>1. LagOf(launches') = LagOf(launches) + SaveInterval /\ LagOf(launches) \in Nat
    BY <1>1, LagGrows
  <2>2. LagOf(launches' - 1) = LagOf(launches)
    BY <1>1
  <2> QED BY <1>1, <1>2, <1>3, <1>8, <1>9, <1>10, <2>1, <2>2 DEF LagBounded, UpdatesNear
<1>14. HalfWritten'
  BY <1>1, <1>2, <1>8 DEF HalfWritten
<1>15. BatchesCounted'
  <2>1. ASSUME NEW e \in EpochIds, NEW b \in Batches
        PROVE  /\ model'.seen[<<e, b>>] \in Nat
               /\ model'.seen[<<e, b>>] <= launches
               /\ e < epoch' => model'.seen[<<e, b>>] >= 1
    <3>1. CASE ~ hasLatest
      BY <2>1, <3>1, <1>1, UntrainedIs DEF Launch, FromScratch, EpochIds
    <3>2. CASE hasLatest
      <4>1. Resume /\ Whole(disk["model"]) /\ model' = disk["model"]
        BY <3>2, <1>2 DEF Launch, Resume, HasWeights
      <4>2. e < epoch' => Whole(disk["json"]) /\ e < disk["json"].epoch
        BY <2>1, <4>1 DEF Resume, Whole, Unusable, EpochIds
      <4>3. model'.seen[<<e, b>>] \in Nat
        BY <1>2 DEF Weights
      <4> QED BY <4>1, <4>2, <4>3 DEF BatchesCounted
    <3> QED BY <3>1, <3>2
  <2>2. ASSUME NEW e \in EpochIds, NEW b \in Batches, ~ Ahead(e, b)'
        PROVE  e < epoch'
    BY <2>2, <1>1, <1>2 DEF Ahead, EpochIds
  <2>3. ASSUME NEW e \in EpochIds, NEW b \in Batches, Whole(disk["model"])
        PROVE  disk["model"].seen[<<e, b>>] <= launches'
    <3>1. disk["model"].seen[<<e, b>>] <= launches
      BY <2>3 DEF BatchesCounted
    <3>2. disk["model"].seen[<<e, b>>] \in Nat
      BY <2>3 DEF TypeOK, Weights, Whole
    <3> QED BY <1>1, <3>1, <3>2
  <2>4. Whole(disk["json"]) => disk["json"].epoch <= epoch'
    BY <1>1 DEF Launch, Resume, FromScratch, Written, State, Whole, Unusable, TypeOK, Counters, EpochIds
  <2> QED BY <1>1, <2>1, <2>2, <2>3, <2>4 DEF BatchesCounted
<1>16. ReturnedAllAgree'
  BY <1>1 DEF ReturnedAllAgree
<1> QED BY <1>4, <1>5, <1>6, <1>7, <1>11, <1>12, <1>13, <1>14, <1>15, <1>16

-----------------------------------------------------------------------------
(* The training loop.                                                      *)

\* Between two saves everything on disk that a process resumes from is whole.
LEMMA BetweenSaves ==
    ASSUME TrainerInv, Between
    PROVE  /\ HasWeights /\ HasStep /\ Running
           /\ BaseUpdates \in Nat /\ BaseStep \in Nat
           /\ step % SaveInterval \in 0..(SaveInterval - 1)
<1>1. pc = "training" /\ todo = <<>> /\ Running /\ ~ Saving
  BY DEF Between, Running, Saving
<1>2. HasWeights /\ HasStep
  BY <1>1 DEF TrainerInv, HalfWritten, Past
<1>3. BaseUpdates \in Nat /\ BaseStep \in Nat
  <2>1. hasLatest => disk["model"] \in Weights
    BY <1>2 DEF TrainerInv, TypeOK, HasWeights, Whole
  <2>2. disk["json"] # Absent => disk["json"] \in Counters
    BY <1>2 DEF TrainerInv, TypeOK, HasStep, Whole, Unusable
  <2>3. BaseUpdates \in Nat
    BY <2>1 DEF BaseUpdates, Weights
  <2>4. BaseStep \in Nat
    BY <2>2 DEF BaseStep, Counters, Steps
  <2> QED BY <2>3, <2>4
<1>4. step % SaveInterval \in 0..(SaveInterval - 1)
  BY NextRemainder, SFTAssumption DEF TrainerInv, TypeOK, Steps
<1> QED BY <1>1, <1>2, <1>3, <1>4

(* A batch is trained: with the gradients accumulated, an update, a step   *)
(* and perhaps a save.                                                     *)
LEMMA TrainBatchKeeps ==
    ASSUME TrainerInv, TrainBatch
    PROVE  TrainerInv'
<1> USE DEF TrainerInv
<1>1. /\ pc = "training" /\ todo = <<>> /\ Between /\ Running /\ ~ Saving
      /\ UNCHANGED <<pc, epoch, snapshots, hasLatest, disk, launches, finals>>
  BY DEF TrainBatch, Between, Running, Saving, diskVars
<1>2. /\ HasWeights /\ HasStep
      /\ BaseUpdates \in Nat /\ BaseStep \in Nat
      /\ step % SaveInterval \in 0..(SaveInterval - 1)
      /\ SaveInterval \in Nat \ {0}
      /\ step \in Nat /\ step % SaveInterval \in Nat
      /\ model.updates \in Nat /\ furthest \in Nat
  <2>1. /\ HasWeights /\ HasStep
        /\ BaseUpdates \in Nat /\ BaseStep \in Nat
        /\ step % SaveInterval \in 0..(SaveInterval - 1)
    BY <1>1, BetweenSaves
  <2>2. SaveInterval \in Nat \ {0}
    BY SFTAssumption
  <2>3. step \in Nat /\ model.updates \in Nat /\ furthest \in Nat
    BY DEF TypeOK, Weights, Steps
  <2>4. step % SaveInterval \in Nat
    BY <2>2, <2>3, NothingIsNear
  <2> QED BY <2>1, <2>2, <2>3, <2>4
<1>3. PICK b \in left, n \in {0, 1} :
          /\ left' = left \ {b}
          /\ step' = step + n /\ step' <= MaxStep
          /\ model' = [updates |-> model.updates + n,
                       seen |-> [model.seen EXCEPT ![<<epoch, b>>] = @ + 1]]
          /\ accum' \in Nat
          /\ \/ todo' = <<>> /\ (n = 1 => (step + 1) % SaveInterval # 0)
             \/ todo' = MiddleSave /\ n = 1
          /\ furthest' = furthest \/ furthest' = model.updates + n
          /\ furthest' \in Nat
  <2> DEFINE syncs(b) == left = {b} \/ (accum + 1) % GradAccum = 0
             count(b) == IF syncs(b) THEN 1 ELSE 0
  <2>1. PICK b \in left :
            /\ step + count(b) <= MaxStep
            /\ left' = left \ {b}
            /\ model' = [updates |-> model.updates + count(b),
                         seen |-> [model.seen EXCEPT ![<<epoch, b>>] = @ + 1]]
            /\ accum' = (IF syncs(b) THEN 0 ELSE accum + 1)
            /\ step' = step + count(b)
            /\ todo' = (IF syncs(b) /\ SaveIsDue(step + 1) THEN MiddleSave ELSE <<>>)
            /\ furthest' = (IF model.updates + count(b) > furthest
                            THEN model.updates + count(b) ELSE furthest)
    BY DEF TrainBatch, MiddleSave
  <2>2. count(b) \in {0, 1} /\ (count(b) = 1 <=> syncs(b))
    OBVIOUS
  <2>3. accum' \in Nat
    BY <2>1 DEF TypeOK
  <2>4. \/ todo' = <<>> /\ (count(b) = 1 => (step + 1) % SaveInterval # 0)
        \/ todo' = MiddleSave /\ count(b) = 1
    BY <2>1, <2>2 DEF SaveIsDue
  <2> HIDE DEF count
  <2>5. step + count(b) \in Nat /\ model.updates + count(b) \in Nat
    BY <1>2, <2>2
  <2> QED BY <1>2, <2>1, <2>2, <2>3, <2>4, <2>5
<1>4. /\ model'.updates = model.updates + n
      /\ \A e \in EpochIds, c \in Batches :
            model'.seen[<<e, c>>] = IF e = epoch /\ c = b THEN model.seen[<<e, c>>] + 1
                                    ELSE model.seen[<<e, c>>]
      /\ \A e \in EpochIds, c \in Batches : model.seen[<<e, c>>] \in Nat
      /\ model' \in Weights
  <2>1. model.seen \in [EpochIds \X Batches -> Nat] /\ epoch \in EpochIds /\ b \in Batches
    BY <1>3 DEF TypeOK, Weights
  <2>2. model.seen[<<epoch, b>>] + 1 \in Nat
    BY <2>1
  <2>3. model'.seen = [model.seen EXCEPT ![<<epoch, b>>] = model.seen[<<epoch, b>>] + 1]
    BY <1>3
  <2>4. model'.seen \in [EpochIds \X Batches -> Nat]
    BY <2>1, <2>2, <2>3
  <2>5. model'.updates = model.updates + n /\ model.updates + n \in Nat
    BY <1>2, <1>3
  <2>6. model' \in Weights
    BY <1>3, <2>3, <2>4, <2>5 DEF Weights
  <2>7. ASSUME NEW e \in EpochIds, NEW c \in Batches
        PROVE  /\ model'.seen[<<e, c>>] = IF e = epoch /\ c = b THEN model.seen[<<e, c>>] + 1
                                         ELSE model.seen[<<e, c>>]
               /\ model.seen[<<e, c>>] \in Nat
    BY <2>1, <2>3
  <2> QED BY <2>5, <2>6, <2>7
<1>5. /\ TodoIsRest'
      /\ Done' = 0 \/ ~ Saving'
  <2>1. CASE todo' = <<>>
    BY <1>1, <2>1, EmptyIs, SaveHasType DEF TodoIsRest, Plan, Saving
  <2>2. CASE todo' = MiddleSave
    BY <1>1, <2>2, SaveBegins
  <2> QED BY <1>3, <2>1, <2>2
<1>6. TypeOK'
  <2>1. step' \in Steps
    BY <1>2, <1>3 DEF Steps
  <2>2. left' \subseteq Batches
    BY <1>3 DEF TypeOK
  <2> QED BY <1>1, <1>3, <1>4, <2>1, <2>2 DEF TypeOK
<1>7. Written'
  BY <1>1, <1>5 DEF Written, Past
<1>8. PointerFollows'
  <2>1. PointedIsWhole'
    BY <1>1 DEF PointedIsWhole, PointerFollows
  <2>2. ASSUME disk["pointer"] \in Steps
        PROVE  /\ disk["pointer"] <= step'
               /\ todo' # <<>> => disk["pointer"] < step'
    <3>1. disk["pointer"] \in Nat /\ disk["pointer"] <= step
      BY <1>1, <2>2 DEF PointerFollows, Steps
    <3> QED BY <1>2, <1>3, <3>1
  <2> QED BY <1>1, <2>1, <2>2 DEF PointerFollows
<1>9. /\ BaseUpdates' = BaseUpdates /\ BaseStep' = BaseStep
      /\ HasWeights' = HasWeights /\ HasStep' = HasStep
      /\ Running' /\ (Between' <=> todo' = <<>>)
  BY <1>1 DEF BaseUpdates, BaseStep, HasWeights, HasStep, Running, Between
<1>10. todo' = <<>> => (step % SaveInterval)' = (step % SaveInterval) + n
  <2>1. n = 0 => step' = step
    BY <1>2, <1>3
  <2>2. n = 1 /\ todo' = <<>> => (step + 1) % SaveInterval # 0
    <3>1. MiddleSave # <<>>
      <4> SUFFICES ASSUME MiddleSave = <<>> PROVE FALSE
        OBVIOUS
      <4>1. Len(MiddleSave) = 0
        BY EmptyIs
      <4> QED BY <4>1, SaveHasType
    <3> QED BY <1>3, <3>1
  <2>3. CASE n = 0
    BY <1>2, <2>1, <2>3
  <2>4. CASE n = 1
    <3>1. step' = step + 1
      BY <1>3, <2>4
    <3> QED BY <1>2, <2>2, <2>4, <3>1, NextRemainder
  <2> QED BY <2>3, <2>4
<1>11. UpdatesNear'
  BY <1>1, <1>2, <1>3, <1>4, <1>9, <1>10 DEF UpdatesNear
<1>12. StepNear'
  <2>1. BaseStep <= step /\ step <= BaseStep + (step % SaveInterval)
    BY <1>1, <1>2 DEF StepNear
  <2>2. BaseStep <= step' /\ step' <= BaseStep + SaveInterval
    BY <1>2, <1>3, <2>1
  <2>3. todo' = <<>> => step' <= BaseStep + (step % SaveInterval)'
    <3>1. step + n <= BaseStep + ((step % SaveInterval) + n)
      BY <1>2, <2>1
    <3> QED BY <1>3, <1>10, <3>1
  <2> QED BY <1>9, <2>2, <2>3 DEF StepNear
<1>13. LagBounded'
  <2>1. LagOf(launches) \in Nat /\ LagOf(launches - 1) \in Nat
    <3>1. launches \in Nat /\ launches - 1 \in Nat
      BY <1>1 DEF HalfWritten, TypeOK
    <3> QED BY <3>1, LagGrows
  <2>2. LagOf(launches)' = LagOf(launches) /\ LagOf(launches - 1)' = LagOf(launches - 1)
    BY <1>1 DEF LagOf
  <2>3. /\ furthest <= model.updates + SaveInterval
        /\ step <= model.updates /\ model.updates <= step + LagOf(launches - 1)
        /\ BaseStep <= BaseUpdates /\ BaseUpdates <= BaseStep + LagOf(launches)
    BY <1>1, <1>2 DEF LagBounded
  <2>4. furthest' <= model'.updates + SaveInterval
    BY <1>2, <1>3, <1>4, <2>3
  <2>5. step' <= model'.updates /\ model'.updates <= step' + LagOf(launches - 1)
    <3>1. /\ step + n <= model.updates + n
          /\ model.updates + n <= (step + n) + LagOf(launches - 1)
      BY <1>2, <2>1, <2>3
    <3> QED BY <1>3, <1>4, <3>1
  <2> QED BY <1>9, <2>2, <2>3, <2>4, <2>5 DEF LagBounded
<1>14. HalfWritten'
  BY <1>1, <1>2, <1>9 DEF HalfWritten
<1>15. BatchesCounted'
  <2>1. ASSUME NEW e \in EpochIds, NEW c \in Batches
        PROVE  /\ model'.seen[<<e, c>>] <= launches
               /\ Ahead(e, c)' => model'.seen[<<e, c>>] <= launches - 1
               /\ ~ Ahead(e, c)' => model'.seen[<<e, c>>] >= 1
    <3>1. /\ model.seen[<<e, c>>] <= launches
          /\ Ahead(e, c) => model.seen[<<e, c>>] <= launches - 1
          /\ ~ Ahead(e, c) => model.seen[<<e, c>>] >= 1
          /\ launches \in Nat
      BY <1>1 DEF BatchesCounted, TypeOK
    <3>2. CASE e = epoch /\ c = b
      <4>1. Ahead(e, c) /\ ~ Ahead(e, c)'
        BY <1>1, <1>3, <3>2 DEF Ahead, TypeOK, EpochIds
      <4> QED BY <1>4, <3>1, <3>2, <4>1
    <3>3. CASE ~ (e = epoch /\ c = b)
      <4>1. Ahead(e, c)' = Ahead(e, c)
        BY <1>1, <1>3, <3>3 DEF Ahead
      <4> QED BY <1>4, <3>1, <3>3, <4>1
    <3> QED BY <3>2, <3>3
  <2> QED BY <1>1, <1>9, <2>1 DEF BatchesCounted
<1>16. ReturnedAllAgree'
  BY <1>1 DEF ReturnedAllAgree
<1> QED BY <1>5, <1>6, <1>7, <1>8, <1>11, <1>12, <1>13, <1>14, <1>15, <1>16

(* An epoch ends, or the last one does and the last save begins.           *)
LEMMA EndPassKeeps ==
    ASSUME TrainerInv, EndPass
    PROVE  TrainerInv'
<1> USE DEF TrainerInv
<1>1. /\ pc = "training" /\ todo = <<>> /\ left = {} /\ Between /\ Running /\ ~ Saving
      /\ UNCHANGED <<step, accum, model, snapshots, hasLatest, disk, launches, furthest>>
  BY DEF EndPass, Between, Running, Saving, diskVars
<1>2. \/ /\ epoch + 1 < Epochs /\ epoch' = epoch + 1 /\ left' = Batches
         /\ UNCHANGED <<pc, todo, finals>>
      \/ /\ ~ (epoch + 1 < Epochs)
         /\ pc' = "finishing" /\ todo' = LastSave /\ finals' = finals \cup {step}
         /\ UNCHANGED <<epoch, left>>
  BY DEF EndPass, LastSave
<1>3. /\ HasWeights /\ HasStep
      /\ BaseUpdates \in Nat /\ BaseStep \in Nat /\ SaveInterval \in Nat
      /\ step % SaveInterval \in 0..(SaveInterval - 1)
      /\ step \in Nat /\ epoch \in EpochIds /\ Epochs \in Nat
  BY <1>1, BetweenSaves, SFTAssumption DEF TypeOK, Steps
<1>4. TypeOK'
  BY <1>1, <1>2, <1>3 DEF TypeOK, EpochIds
<1>5. /\ TodoIsRest'
      /\ Done' = 0 \/ ~ Saving'
      /\ pc' = "finishing" => Done' = 0
  <2>1. CASE pc' = pc /\ todo' = todo
    BY <1>1, <2>1 DEF TodoIsRest, Plan, Saving, Done, Running
  <2>2. CASE pc' = "finishing" /\ todo' = LastSave
    BY <2>2, SaveBegins
  <2> QED BY <1>2, <2>1, <2>2
<1>6. Written'
  BY <1>1, <1>5 DEF Written, Past
<1>7. PointerFollows'
  <2>1. PointedIsWhole'
    BY <1>1, <1>2 DEF PointedIsWhole, PointerFollows
  <2> QED BY <1>1, <1>2, <2>1 DEF PointerFollows
<1>8. /\ BaseUpdates' = BaseUpdates /\ BaseStep' = BaseStep
      /\ HasWeights' = HasWeights /\ HasStep' = HasStep
      /\ Running'
  BY <1>1, <1>2 DEF BaseUpdates, BaseStep, HasWeights, HasStep, Running
<1>9. UpdatesNear'
  BY <1>1, <1>8 DEF UpdatesNear
<1>10. StepNear'
  BY <1>1, <1>8 DEF StepNear
<1>11. LagBounded'
  BY <1>1, <1>8 DEF LagBounded, LagOf
<1>12. HalfWritten'
  BY <1>1, <1>2, <1>3, <1>8 DEF HalfWritten
<1>13. BatchesCounted'
  <2>1. ASSUME NEW e \in EpochIds, NEW c \in Batches
        PROVE  Ahead(e, c)' = Ahead(e, c)
    BY <1>1, <1>2, <1>3 DEF Ahead, EpochIds
  <2>2. Whole(disk["json"]) => disk["json"].epoch <= epoch'
    <3>1. Whole(disk["json"]) => disk["json"].epoch <= epoch /\ disk["json"].epoch \in EpochIds
      BY <1>1 DEF BatchesCounted, TypeOK, Whole, Counters
    <3> QED BY <1>2, <1>3, <3>1 DEF EpochIds
  <2>3. pc' \in {"finishing", "returned"} => epoch' = Epochs - 1 /\ left' = {}
    BY <1>1, <1>2, <1>3 DEF EpochIds
  <2> QED BY <1>1, <2>1, <2>2, <2>3 DEF BatchesCounted
<1>14. ReturnedAllAgree'
  BY <1>1, <1>2 DEF ReturnedAllAgree
<1> QED BY <1>4, <1>5, <1>6, <1>7, <1>9, <1>10, <1>11, <1>12, <1>13, <1>14

-----------------------------------------------------------------------------
(* The jobs of a save.                                                     *)

(* What every job of a save has in common.                                 *)
LEMMA SaveStep ==
    ASSUME TrainerInv, NEW op, NEW file, Doing([op |-> op, file |-> file]),
           todo' = Tail(todo),
           UNCHANGED <<pc, step, epoch, left, accum, model, launches, furthest, finals>>
    PROVE  /\ TodoIsRest'
           /\ pc \in {"training", "finishing"} /\ Running /\ Running' /\ Saving
           /\ Done \in 0..16 /\ Done' = Done + 1
           /\ Done' = PlaceIn(op, file, IF pc = "finishing" THEN 16 ELSE 10)
           /\ file \in Export => pc = "finishing"
           /\ pc = "training" => (todo' = <<>> <=> Done' = 11)
           /\ Between' => pc = "training" /\ Done' = 11
           /\ todo # <<>>
           /\ ReturnedAllAgree'
<1>1. TodoIsRest /\ todo # <<>>
  BY DEF TrainerInv, Doing
<1>2. /\ Running /\ Saving /\ Done \in 0..16
      /\ Done + 1 = PlaceIn(op, file, IF pc = "finishing" THEN 16 ELSE 10)
      /\ file \in Export => pc = "finishing"
  BY <1>1, NextPlace
<1>3. /\ TodoIsRest' /\ Done' = Done + 1
      /\ pc = "training" => (todo' = <<>> <=> Done' = 11)
  BY <1>1, JobDone
<1>4. pc \in {"training", "finishing"} /\ Running' /\ (Between' => pc = "training" /\ Done' = 11)
  BY <1>2, <1>3 DEF Running, Between
<1>5. ReturnedAllAgree'
  BY <1>4 DEF ReturnedAllAgree
<1> QED BY <1>1, <1>2, <1>3, <1>4, <1>5

(* The snapshot of the step is opened or closed.                           *)
LEMMA WriteSnapshotKeeps ==
    ASSUME TrainerInv, WriteSnapshot
    PROVE  TrainerInv'
<1> USE DEF TrainerInv
<1>1. /\ todo' = Tail(todo)
      /\ UNCHANGED <<pc, step, epoch, left, accum, model, hasLatest, disk, launches, furthest, finals>>
  BY DEF WriteSnapshot
<1>2. PICK content \in {Torn, model}, op \in {"open", "close"} :
          /\ Doing([op |-> op, file |-> "snapshot"])
          /\ snapshots' = [snapshots EXCEPT ![step] = content]
          /\ op = "close" => content = model
  BY DEF WriteSnapshot, Open, Close
<1>3. /\ TodoIsRest' /\ pc \in {"training", "finishing"} /\ Running /\ Running' /\ Saving
      /\ Done' = (IF op = "open" THEN 1 ELSE 2)
      /\ ~ Between' /\ todo # <<>>
      /\ ReturnedAllAgree'
  BY <1>1, <1>2, SaveStep DEF PlaceIn
<1>4. /\ step \in Steps /\ model \in Weights /\ Whole(model)
      /\ snapshots'[step] = content
      /\ \A n \in Steps \ {step} : snapshots'[n] = snapshots[n]
      /\ snapshots' \in [Steps -> Weights \cup Unusable]
  <2>1. step \in Steps /\ model \in Weights /\ Whole(model)
    BY ContentsApart DEF TypeOK
  <2>2. content \in Weights \cup Unusable
    BY <1>2, <2>1 DEF Unusable
  <2> QED BY <1>2, <2>1, <2>2 DEF TypeOK
<1>5. TypeOK'
  BY <1>1, <1>4 DEF TypeOK
<1>6. Written'
  <2>1. Past(2)' => snapshots'[step'] = model'
    BY <1>1, <1>2, <1>3, <1>4 DEF Past
  <2>2. ~ Past(3)' /\ ~ Past(5)' /\ ~ Past(9)' /\ ~ Past(11)' /\ ~ Past(13)' /\ ~ Past(15)' /\ ~ Past(17)'
    BY <1>3 DEF Past
  <2> QED BY <1>1, <2>1, <2>2 DEF Written
<1>7. PointerFollows'
  <2>1. ASSUME disk["pointer"] \in Steps
        PROVE  \/ snapshots'[disk["pointer"]] \notin {Absent, Torn}
               \/ disk["pointer"] \in finals
    <3>1. CASE disk["pointer"] = step
      <4>1. CASE pc = "training"
        BY <1>3, <3>1, <4>1, <2>1 DEF PointerFollows, Steps
      <4>2. CASE pc = "finishing"
        BY <3>1, <4>2 DEF PointerFollows
      <4> QED BY <1>3, <4>1, <4>2
    <3>2. CASE disk["pointer"] # step
      BY <1>4, <2>1, <3>2 DEF PointerFollows, PointedIsWhole
    <3> QED BY <3>1, <3>2
  <2>2. PointedIsWhole'
    BY <1>1, <2>1 DEF PointedIsWhole
  <2> QED BY <1>1, <1>3, <2>2 DEF PointerFollows
<1>8. /\ BaseUpdates' = BaseUpdates /\ BaseStep' = BaseStep
      /\ HasWeights' = HasWeights /\ HasStep' = HasStep
  BY <1>1 DEF BaseUpdates, BaseStep, HasWeights, HasStep
<1>9. HasWeights /\ HasStep
  <2>1. Done <= 1 /\ Done \in Int
    BY <1>1, <1>2, SaveStep DEF PlaceIn
  <2> QED BY <1>3, <2>1 DEF HalfWritten, Past
<1>10. UpdatesNear' /\ StepNear' /\ LagBounded'
  BY <1>1, <1>3, <1>8 DEF UpdatesNear, StepNear, LagBounded, LagOf
<1>11. HalfWritten'
  BY <1>1, <1>8, <1>9 DEF HalfWritten
<1>12. BatchesCounted'
  BY <1>1, <1>3 DEF BatchesCounted, Ahead
<1> QED BY <1>3, <1>5, <1>6, <1>7, <1>10, <1>11, <1>12

(* latest_ckpt is made: from now on a process would resume.                *)
LEMMA MakeLatestKeeps ==
    ASSUME TrainerInv, MakeLatest
    PROVE  TrainerInv'
<1> USE DEF TrainerInv
<1>1. /\ todo' = Tail(todo) /\ hasLatest' = TRUE
      /\ Doing([op |-> "mkdir", file |-> "latest_ckpt"])
      /\ UNCHANGED <<pc, step, epoch, left, accum, model, snapshots, disk, launches, furthest, finals>>
  BY DEF MakeLatest, Mkdir
<1>2. /\ TodoIsRest' /\ pc \in {"training", "finishing"} /\ Running /\ Running' /\ Saving
      /\ Done = 2 /\ Done' = 3
      /\ ~ Between' /\ todo # <<>>
      /\ ReturnedAllAgree'
  BY <1>1, SaveStep DEF PlaceIn
<1>3. Saving' /\ Past(2) /\ Past(3)'
  <2>1. todo' # <<>> \/ pc = "finishing"
    BY <1>1, <1>2, SaveStep
  <2> QED BY <1>1, <1>2, <2>1 DEF Saving, Past
<1>4. TypeOK'
  BY <1>1 DEF TypeOK
<1>5. Written'
  <2>1. ~ Past(5)' /\ ~ Past(9)' /\ ~ Past(11)' /\ ~ Past(13)' /\ ~ Past(15)' /\ ~ Past(17)'
    BY <1>2 DEF Past
  <2> QED BY <1>1, <1>3, <2>1 DEF Written
<1>6. PointerFollows'
  <2>1. PointedIsWhole'
    BY <1>1 DEF PointedIsWhole, PointerFollows
  <2> QED BY <1>1, <1>2, <2>1 DEF PointerFollows
<1>7. HasWeights /\ HasStep /\ HasStep' /\ BaseStep' = BaseStep
  BY <1>1, <1>2 DEF HalfWritten, Past, HasStep, BaseStep
<1>8. HasWeights' => BaseUpdates' = BaseUpdates
  BY <1>1, ContentsApart DEF HasWeights, BaseUpdates, Written, State
<1>9. UpdatesNear' /\ StepNear' /\ LagBounded'
  BY <1>1, <1>2, <1>7, <1>8 DEF UpdatesNear, StepNear, LagBounded, LagOf
<1>10. HalfWritten'
  BY <1>1, <1>2, <1>3, <1>7 DEF HalfWritten
<1>11. BatchesCounted'
  BY <1>1, <1>2 DEF BatchesCounted, Ahead
<1> QED BY <1>2, <1>4, <1>5, <1>6, <1>9, <1>10, <1>11

(* A file is opened, which tears it, or closed.                            *)
LEMMA WriteFileKeeps ==
    ASSUME TrainerInv, NEW p \in Files, WriteFile(p)
    PROVE  TrainerInv'
<1> USE DEF TrainerInv
<1>1. /\ todo' = Tail(todo)
      /\ UNCHANGED <<pc, step, epoch, left, accum, model, snapshots, hasLatest, launches, furthest, finals>>
  BY DEF WriteFile
<1>2. PICK op \in {"open", "close"} :
          /\ Doing([op |-> op, file |-> p])
          /\ disk' = [disk EXCEPT ![p] = IF op = "open" THEN Torn ELSE Image(p)]
  BY DEF WriteFile, Open, Close
<1>3. /\ TodoIsRest' /\ pc \in {"training", "finishing"} /\ Running /\ Running' /\ Saving
      /\ Done \in 0..16 /\ Done' = Done + 1
      /\ p \in Export => pc = "finishing"
      /\ Between' => pc = "training" /\ Done' = 11
      /\ pc = "training" => (todo' = <<>> <=> Done' = 11)
      /\ ReturnedAllAgree'
      /\ Saving' \/ Between'
  BY <1>1, <1>2, SaveStep DEF Saving, Between
<1>4. /\ p = "model"      => Done' = (IF op = "open" THEN 4 ELSE 5)
      /\ p = "optim"      => Done' = (IF op = "open" THEN 6 ELSE 7)
      /\ p = "json"       => Done' = (IF op = "open" THEN 8 ELSE 9)
      /\ p = "archive"    => Done' = (IF op = "open" THEN 10 ELSE 11)
      /\ p = "final"      => Done' = (IF op = "open" THEN 12 ELSE 13)
      /\ p = "finalOptim" => Done' = (IF op = "open" THEN 14 ELSE 15)
      /\ p = "pointer" /\ pc = "finishing" => Done' = (IF op = "open" THEN 16 ELSE 17)
      /\ p = "pointer" /\ pc = "training" => Done' = (IF op = "open" THEN 10 ELSE 11)
  <2>1. Done' = PlaceIn(op, p, IF pc = "finishing" THEN 16 ELSE 10)
    BY <1>1, <1>2, SaveStep
  <2> QED BY <1>3, <2>1 DEF PlaceIn
<1>5. /\ p \in State \cup Export \cup {"pointer"}
      /\ disk' = [q \in Files |-> disk'[q]]
      /\ disk'[p] = IF op = "open" THEN Torn ELSE Image(p)
      /\ \A q \in Files : q # p => disk'[q] = disk[q]
  BY <1>2 DEF Files, TypeOK
<1>6. /\ model \in Weights /\ accum \in Nat /\ step \in Steps /\ step \in Nat /\ epoch \in EpochIds
      /\ [step |-> step, epoch |-> epoch] \in Counters
      /\ Image("model") = model /\ Image("optim") = accum
      /\ Image("json") = [step |-> step, epoch |-> epoch] /\ Image("pointer") = step
      /\ \A q \in Export : Image(q) = model
  BY DEF TypeOK, Counters, Image, Steps, Export
<1>7. {"model", "optim", "json", "archive", "final", "finalOptim", "pointer"} \subseteq Files
  BY DEF Files, State, Export
<1>8. Past(3) /\ hasLatest /\ snapshots[step] = model /\ Past(2)
  BY <1>3, <1>4, <1>5 DEF Past, Written, State, Export
<1>9. TypeOK'
  <2>1. \A q \in Export \cup {"model"} : disk'[q] \in Weights \cup Unusable
    BY <1>5, <1>6, <1>7 DEF TypeOK, Unusable, Export
  <2>2. disk'["optim"] \in Nat \cup Unusable
    BY <1>5, <1>6, <1>7 DEF TypeOK, Unusable
  <2>3. disk'["json"] \in Counters \cup Unusable
    BY <1>5, <1>6, <1>7 DEF TypeOK, Unusable
  <2>4. disk'["pointer"] \in Steps \cup Unusable
    BY <1>5, <1>6, <1>7 DEF TypeOK, Unusable
  <2> QED BY <1>1, <1>5, <2>1, <2>2, <2>3, <2>4 DEF TypeOK
<1>10. Written'
  <2>1. Past(5)' => disk'["model"] = model
    <3> SUFFICES ASSUME Done' >= 5 PROVE disk'["model"] = model
      BY DEF Past
    <3>1. CASE p = "model"
      <4>1. op = "close"
        BY <1>2, <1>4, <3>1
      <4> QED BY <1>5, <1>6, <3>1, <4>1 DEF Export
    <3>2. CASE p # "model"
      <4>1. Done' # 5
        BY <1>3, <1>4, <1>5, <3>2 DEF State, Export
      <4>2. Done >= 5
        BY <1>3, <4>1
      <4>3. disk["model"] = model
        BY <1>3, <4>2 DEF Past, Written
      <4> QED BY <1>5, <1>7, <3>2, <4>3
    <3> QED BY <3>1, <3>2
  <2>2. Past(9)' => disk'["json"] = [step |-> step, epoch |-> epoch]
    <3> SUFFICES ASSUME Done' >= 9 PROVE disk'["json"] = [step |-> step, epoch |-> epoch]
      BY DEF Past
    <3>1. CASE p = "json"
      <4>1. op = "close"
        BY <1>2, <1>4, <3>1
      <4> QED BY <1>5, <1>6, <3>1, <4>1 DEF Export
    <3>2. CASE p # "json"
      <4>1. Done' # 9
        BY <1>3, <1>4, <1>5, <3>2 DEF State, Export
      <4>2. Done >= 9
        BY <1>3, <4>1
      <4>3. disk["json"] = [step |-> step, epoch |-> epoch]
        BY <1>3, <4>2 DEF Past, Written
      <4> QED BY <1>5, <1>7, <3>2, <4>3
    <3> QED BY <3>1, <3>2
  <2>3. pc = "finishing" /\ Past(11)' => disk'["archive"] = model
    <3> SUFFICES ASSUME pc = "finishing", Done' >= 11 PROVE disk'["archive"] = model
      BY DEF Past
    <3>1. CASE p = "archive"
      <4>1. op = "close"
        BY <1>2, <1>4, <3>1
      <4> QED BY <1>5, <1>6, <3>1, <4>1 DEF Export
    <3>2. CASE p # "archive"
      <4>1. Done' # 11
        BY <1>3, <1>4, <1>5, <3>2 DEF State, Export
      <4>2. Done >= 11
        BY <1>3, <4>1
      <4>3. disk["archive"] = model
        BY <1>3, <4>2 DEF Past, Written
      <4> QED BY <1>5, <1>7, <3>2, <4>3
    <3> QED BY <3>1, <3>2
  <2>4. pc = "finishing" /\ Past(13)' => disk'["final"] = model
    <3> SUFFICES ASSUME pc = "finishing", Done' >= 13 PROVE disk'["final"] = model
      BY DEF Past
    <3>1. CASE p = "final"
      <4>1. op = "close"
        BY <1>2, <1>4, <3>1
      <4> QED BY <1>5, <1>6, <3>1, <4>1 DEF Export
    <3>2. CASE p # "final"
      <4>1. Done' # 13
        BY <1>3, <1>4, <1>5, <3>2 DEF State, Export
      <4>2. Done >= 13
        BY <1>3, <4>1
      <4>3. disk["final"] = model
        BY <1>3, <4>2 DEF Past, Written
      <4> QED BY <1>5, <1>7, <3>2, <4>3
    <3> QED BY <3>1, <3>2
  <2>5. pc = "finishing" /\ Past(15)' => disk'["finalOptim"] = model
    <3> SUFFICES ASSUME pc = "finishing", Done' >= 15 PROVE disk'["finalOptim"] = model
      BY DEF Past
    <3>1. CASE p = "finalOptim"
      <4>1. op = "close"
        BY <1>2, <1>4, <3>1
      <4> QED BY <1>5, <1>6, <3>1, <4>1 DEF Export
    <3>2. CASE p # "finalOptim"
      <4>1. Done' # 15
        BY <1>3, <1>4, <1>5, <3>2 DEF State, Export
      <4>2. Done >= 15
        BY <1>3, <4>1
      <4>3. disk["finalOptim"] = model
        BY <1>3, <4>2 DEF Past, Written
      <4> QED BY <1>5, <1>7, <3>2, <4>3
    <3> QED BY <3>1, <3>2
  <2>6. pc = "finishing" /\ Past(17)' => disk'["pointer"] = step
    <3> SUFFICES ASSUME pc = "finishing", Done' >= 17 PROVE disk'["pointer"] = step
      BY DEF Past
    <3>1. CASE p = "pointer"
      <4>1. op = "close"
        BY <1>2, <1>4, <3>1
      <4> QED BY <1>5, <1>6, <3>1, <4>1 DEF Export
    <3>2. CASE p # "pointer"
      <4>1. Done' # 17
        BY <1>3, <1>4, <1>5, <3>2 DEF State, Export
      <4>2. Done >= 17
        BY <1>3, <4>1
      <4>3. disk["pointer"] = step
        BY <1>3, <4>2 DEF Past, Written
      <4> QED BY <1>5, <1>7, <3>2, <4>3
    <3> QED BY <3>1, <3>2
  <2> QED BY <1>1, <1>8, <2>1, <2>2, <2>3, <2>4, <2>5, <2>6 DEF Written
<1>11. Done >= 9 => disk["json"] = [step |-> step, epoch |-> epoch]
  BY <1>3 DEF Past, Written
<1>12. Done >= 5 => disk["model"] = model
  BY <1>3 DEF Past, Written
<1>13. /\ p = "pointer" => Done >= 9
       /\ p \in {"json", "pointer"} \cup Export => Done >= 5
  BY <1>3, <1>4 DEF Export
<1>14. PointerFollows'
  <2>1. CASE p = "pointer"
    <3>1. disk'["pointer"] \in Steps => disk'["pointer"] = step /\ op = "close"
      BY <1>5, <1>6, <2>1, ContentsApart
    <3>2. disk'["json"] = [step |-> step, epoch |-> epoch]
      BY <1>5, <1>7, <1>11, <1>13, <2>1
    <3>3. disk'["json"] # Absent /\ disk'["json"].step = step
      BY <1>6, <3>2, ContentsApart
    <3>4. op = "close" /\ pc = "training" => todo' = <<>>
      BY <1>3, <1>4, <2>1
    <3>5. Whole(snapshots[step])
      BY <1>6, <1>8, ContentsApart
    <3>6. PointedIsWhole'
      BY <1>1, <3>1, <3>5 DEF PointedIsWhole, Whole, Unusable
    <3> QED BY <1>1, <1>6, <3>1, <3>3, <3>4, <3>6 DEF PointerFollows
  <2>2. CASE p # "pointer"
    <3>1. disk'["pointer"] = disk["pointer"]
      BY <1>5, <1>7, <2>2
    <3>2. PointedIsWhole'
      BY <1>1, <3>1 DEF PointedIsWhole, PointerFollows
    <3>3. ASSUME disk["pointer"] \in Steps
          PROVE  /\ disk'["json"] # Absent
                 /\ Whole(disk'["json"]) => disk["pointer"] <= disk'["json"].step
      <4>1. CASE p = "json"
        BY <1>3, <1>5, <1>6, <3>3, <4>1, ContentsApart DEF PointerFollows
      <4>2. CASE p # "json"
        BY <1>5, <1>7, <3>3, <4>2 DEF PointerFollows
      <4> QED BY <4>1, <4>2
    <3>4. todo # <<>>
      BY <1>2 DEF Doing
    <3> QED BY <1>1, <1>3, <3>1, <3>2, <3>3, <3>4 DEF PointerFollows
  <2> QED BY <2>1, <2>2
<1>15. /\ SaveInterval \in Nat \ {0} /\ step % SaveInterval \in Nat
       /\ model.updates \in Nat /\ furthest \in Nat
       /\ launches \in Nat /\ launches - 1 \in Nat
  <2>1. launches \in Nat /\ launches - 1 \in Nat
    BY <1>3 DEF HalfWritten, TypeOK
  <2>2. model.updates \in Nat /\ furthest \in Nat
    BY DEF TypeOK, Weights
  <2> QED BY <1>6, <2>1, <2>2, NothingIsNear
<1>16. /\ furthest <= model.updates + SaveInterval
       /\ step <= model.updates /\ model.updates <= step + LagOf(launches - 1)
       /\ LagOf(launches - 1) \in Nat /\ LagOf(launches) = LagOf(launches - 1) + SaveInterval
  <2>1. (launches - 1) + 1 = launches
    BY <1>15
  <2> QED BY <1>3, <1>15, <2>1, LagGrows DEF LagBounded
\* What the step leaves of the resume state.
<1>17. /\ p = "model" /\ op = "open"  => ~ HasWeights'
       /\ p = "model" /\ op = "close" => HasWeights' /\ BaseUpdates' = model.updates
       /\ p # "model" => HasWeights' = HasWeights /\ BaseUpdates' = BaseUpdates
       /\ p = "json" /\ op = "open"  => ~ HasStep'
       /\ p = "json" /\ op = "close" => HasStep' /\ BaseStep' = step
       /\ p # "json" => HasStep' = HasStep /\ BaseStep' = BaseStep
  <2>1. Whole(model) /\ Whole([step |-> step, epoch |-> epoch])
    BY <1>6, ContentsApart
  <2>2. p # "model" => disk'["model"] = disk["model"]
    BY <1>5, <1>7
  <2>3. p # "json" => disk'["json"] = disk["json"]
    BY <1>5, <1>7
  <2>4. p = "model" /\ op = "close" => disk'["model"] = model
    BY <1>5, <1>6
  <2>5. p = "json" /\ op = "close" => disk'["json"] = [step |-> step, epoch |-> epoch]
    BY <1>5, <1>6
  <2>6. op = "open" => disk'[p] = Torn
    BY <1>5
  <2> QED BY <1>1, <1>8, <2>1, <2>2, <2>3, <2>4, <2>5, <2>6, ContentsApart
          DEF HasWeights, BaseUpdates, HasStep, BaseStep, Whole, Unusable
<1>18. /\ Done >= 5 => HasWeights /\ BaseUpdates = model.updates
       /\ Done >= 9 => HasStep /\ BaseStep = step
  <2>1. Done >= 5 => HasWeights /\ BaseUpdates = model.updates
    BY <1>6, <1>8, <1>12, ContentsApart DEF HasWeights, BaseUpdates
  <2>2. Done >= 9 => HasStep /\ BaseStep = step
    BY <1>6, <1>11, ContentsApart DEF HasStep, BaseStep, Whole, Unusable
  <2> QED BY <2>1, <2>2
<1>19. Between' => p = "pointer" /\ op = "close"
  BY <1>3, <1>4, <1>5 DEF State, Export
<1>20. UpdatesNear'
  <2>1. CASE p = "model"
    BY <1>1, <1>15, <1>16, <1>17, <1>19, <2>1 DEF UpdatesNear
  <2>2. CASE p = "pointer"
    BY <1>1, <1>3, <1>13, <1>15, <1>16, <1>17, <1>18, <2>2 DEF UpdatesNear
  <2>3. CASE p \notin {"model", "pointer"}
    BY <1>1, <1>3, <1>17, <1>19, <2>3 DEF UpdatesNear
  <2> QED BY <2>1, <2>2, <2>3
<1>21. StepNear'
  <2>1. CASE p = "json"
    BY <1>1, <1>6, <1>15, <1>17, <1>19, <2>1 DEF StepNear
  <2>2. CASE p = "pointer"
    BY <1>1, <1>6, <1>13, <1>15, <1>17, <1>18, <2>2 DEF StepNear
  <2>3. CASE p \notin {"json", "pointer"}
    BY <1>1, <1>3, <1>17, <1>19, <2>3 DEF StepNear
  <2> QED BY <2>1, <2>2, <2>3
<1>22. LagBounded'
  <2>1. LagOf(launches)' = LagOf(launches) /\ LagOf(launches - 1)' = LagOf(launches - 1)
    BY <1>1 DEF LagOf
  <2>2. ASSUME HasWeights', HasStep'
        PROVE  BaseStep' <= BaseUpdates' /\ BaseUpdates' <= BaseStep' + LagOf(launches)
    <3>1. CASE p = "model"
      <4>1. BaseUpdates' = model.updates /\ HasStep /\ BaseStep' = BaseStep
        BY <1>2, <1>17, <2>2, <3>1
      <4>2. BaseStep <= step /\ step <= BaseStep + SaveInterval
        BY <1>3, <4>1 DEF StepNear
      <4>3. BaseStep \in Nat
        BY <4>1 DEF BaseStep, HasStep, TypeOK, Counters, Steps, Unusable
      <4> QED BY <1>6, <1>15, <1>16, <4>1, <4>2, <4>3
    <3>2. CASE p = "json"
      BY <1>6, <1>13, <1>15, <1>16, <1>17, <1>18, <2>2, <3>2
    <3>3. CASE p \notin {"model", "json"}
      BY <1>17, <2>2, <3>3 DEF LagBounded
    <3> QED BY <3>1, <3>2, <3>3
  <2> QED BY <1>1, <1>16, <2>1, <2>2 DEF LagBounded
<1>23. HalfWritten'
  <2>1. Running' /\ ~ HasWeights' => Past(3)' /\ Done' <= 4
    BY <1>1, <1>2, <1>3, <1>4, <1>5, <1>13, <1>17, <1>18, <1>19 DEF HalfWritten, Past, State, Export
  <2>2. Running' /\ ~ HasStep' => Past(8)' /\ Done' <= 8
    BY <1>1, <1>2, <1>3, <1>4, <1>5, <1>13, <1>17, <1>18, <1>19 DEF HalfWritten, Past, State, Export
  <2> QED BY <1>1, <1>15, <2>1, <2>2 DEF HalfWritten
<1>24. BatchesCounted'
  <2>1. ASSUME NEW e \in EpochIds, NEW b \in Batches
        PROVE  /\ model.seen[<<e, b>>] <= launches
               /\ e < epoch => model.seen[<<e, b>>] >= 1
    <3>1. e < epoch => ~ Ahead(e, b)
      BY <1>6 DEF Ahead, EpochIds
    <3> QED BY <1>3, <3>1 DEF BatchesCounted
  <2>2. Whole(disk'["json"]) => disk'["json"].epoch <= epoch
    <3>1. CASE p = "json"
      BY <1>5, <1>6, <3>1, ContentsApart DEF EpochIds
    <3>2. CASE p # "json"
      BY <1>3, <1>5, <1>7, <3>2 DEF BatchesCounted
    <3> QED BY <3>1, <3>2
  <2>3. ASSUME NEW e \in EpochIds, NEW b \in Batches, Whole(disk'["model"])
        PROVE  /\ disk'["model"].seen[<<e, b>>] <= launches
               /\ Whole(disk'["json"]) /\ e < disk'["json"].epoch => disk'["model"].seen[<<e, b>>] >= 1
    <3>1. CASE p \in {"model", "json"}
      <4>1. disk'["model"] = model
        BY <1>5, <1>6, <1>7, <1>12, <1>13, <2>3, <3>1, ContentsApart
      <4>2. Whole(disk'["json"]) /\ e < disk'["json"].epoch => e < epoch
        <5>1. Whole(disk'["json"]) => disk'["json"].epoch \in EpochIds
          BY <1>9 DEF TypeOK, Whole, Counters
        <5> QED BY <1>6, <2>2, <5>1 DEF EpochIds
      <4> QED BY <2>1, <4>1, <4>2
    <3>2. CASE p \notin {"model", "json"}
      BY <1>5, <1>7, <2>3, <3>2 DEF BatchesCounted
    <3> QED BY <3>1, <3>2
  <2> QED BY <1>1, <1>3, <2>2, <2>3 DEF BatchesCounted, Ahead
<1> QED BY <1>3, <1>9, <1>10, <1>14, <1>20, <1>21, <1>22, <1>23, <1>24

-----------------------------------------------------------------------------
(* A process ends: by itself, or killed.                                   *)

(* The process returns with all saved, or dies anywhere.                   *)
LEMMA EndKeeps ==
    ASSUME TrainerInv, Return \/ Crash
    PROVE  TrainerInv'
<1> USE DEF TrainerInv
<1>1. /\ UNCHANGED <<snapshots, hasLatest, disk, launches, furthest, finals>>
      /\ pc' \in {"down", "returned"} /\ todo' = <<>>
      /\ pc \in {"training", "finishing"}
  BY DEF Return, Crash, diskVars
<1>2. ~ Running' /\ ~ Saving' /\ ~ Between'
  BY <1>1 DEF Running, Saving, Between
<1>3. TypeOK'
  <2>1. 0 \in Steps /\ 0 \in EpochIds
    BY SFTAssumption DEF Steps, EpochIds
  <2>2. CASE Return
    BY <1>1, <2>2 DEF TypeOK, Return
  <2>3. CASE Crash
    BY <1>1, <2>1, <2>3, UntrainedIs DEF TypeOK, Crash
  <2> QED BY <2>2, <2>3
<1>4. TodoIsRest'
  BY <1>1, EmptyIs, SaveHasType DEF TodoIsRest, Plan
<1>5. Written'
  BY <1>1, <1>2 DEF Written, Past
<1>6. PointerFollows'
  BY <1>1, <1>2 DEF PointerFollows, PointedIsWhole
<1>7. /\ BaseUpdates' = BaseUpdates /\ BaseStep' = BaseStep
      /\ HasWeights' = HasWeights /\ HasStep' = HasStep
  BY <1>1 DEF BaseUpdates, BaseStep, HasWeights, HasStep
<1>8. UpdatesNear' /\ StepNear' /\ LagBounded'
  BY <1>1, <1>2, <1>7 DEF UpdatesNear, StepNear, LagBounded, LagOf
<1>9. HalfWritten'
  BY <1>1, <1>2 DEF HalfWritten
<1>10. BatchesCounted'
  <2>1. CASE Return
    BY <1>1, <1>2, <2>1 DEF BatchesCounted, Ahead, Return
  <2>2. CASE Crash
    BY <1>1, <1>2, <2>2 DEF BatchesCounted, Crash
  <2> QED BY <2>1, <2>2
<1>11. ReturnedAllAgree'
  <2>1. CASE Return
    <3>1. pc = "finishing" /\ todo = <<>> /\ UNCHANGED <<step, model>>
      BY <2>1 DEF Return
    <3>2. Done = 17 /\ Saving
      BY <3>1, EmptyIs, SaveHasType DEF Done, Plan, Saving
    <3>3. Past(2) /\ Past(5) /\ Past(9) /\ Past(11) /\ Past(13) /\ Past(15) /\ Past(17)
      BY <3>2 DEF Past
    <3>4. /\ disk["pointer"] = step /\ disk["json"].step = step
          /\ snapshots[step] = model /\ disk["model"] = model
          /\ disk["archive"] = model /\ disk["final"] = model /\ disk["finalOptim"] = model
      BY <3>1, <3>3 DEF Written
    <3> QED BY <1>1, <3>1, <3>4 DEF ReturnedAllAgree, Export
  <2>2. CASE Crash
    BY <2>2 DEF Crash, ReturnedAllAgree
  <2> QED BY <2>1, <2>2
<1> QED BY <1>3, <1>4, <1>5, <1>6, <1>8, <1>9, <1>10, <1>11

(* A stutter.                                                              *)
LEMMA StutterKeeps ==
    ASSUME TrainerInv, UNCHANGED vars
    PROVE  TrainerInv'
<1> USE DEF TrainerInv, vars, procVars, diskVars
<1>1. TypeOK' /\ TodoIsRest'
  BY DEF TypeOK, TodoIsRest, Plan, Done, Running
<1>2. Written' /\ PointerFollows' /\ ReturnedAllAgree'
  BY DEF Written, Past, Saving, Done, Plan, PointerFollows, PointedIsWhole, Running, ReturnedAllAgree
<1>3. UpdatesNear' /\ StepNear' /\ LagBounded' /\ HalfWritten'
  BY DEF UpdatesNear, StepNear, LagBounded, HalfWritten, HasWeights, HasStep, BaseUpdates, BaseStep,
         Running, Between, LagOf, Past, Saving, Done, Plan
<1>4. BatchesCounted'
  BY DEF BatchesCounted, Ahead, Running
<1> QED BY <1>1, <1>2, <1>3, <1>4

(* Every step keeps the invariant.                                         *)
LEMMA TrainerStep == TrainerInv /\ [Next]_vars => TrainerInv'
<1> SUFFICES ASSUME TrainerInv, [Next]_vars PROVE TrainerInv'
  OBVIOUS
<1>1. CASE Launch
  BY <1>1, LaunchKeeps
<1>2. CASE TrainBatch
  BY <1>2, TrainBatchKeeps
<1>3. CASE EndPass
  BY <1>3, EndPassKeeps
<1>4. CASE WriteSnapshot
  BY <1>4, WriteSnapshotKeeps
<1>5. CASE MakeLatest
  BY <1>5, MakeLatestKeeps
<1>6. CASE \E p \in Files : WriteFile(p)
  BY <1>6, WriteFileKeeps
<1>7. CASE Return \/ Crash
  BY <1>7, EndKeeps
<1>8. CASE UNCHANGED vars
  BY <1>8, StutterKeeps
<1> QED BY <1>1, <1>2, <1>3, <1>4, <1>5, <1>6, <1>7, <1>8 DEF Next, Train

(* The invariant the theorems below follow from: how far a save has come   *)
(* and what it has closed, how near the disk is to the memory of the       *)
(* process, and which batches were trained.                                *)
THEOREM TrainerInvariant == Spec => []TrainerInv
  BY TrainerInit, TrainerStep, PTL DEF Spec

-----------------------------------------------------------------------------
(* However processes die, the one that runs has lost at most a save        *)
(* interval of updates against the best before it; its step never runs     *)
(* ahead of its weights, and behind by at most an interval for each        *)
(* process that died.                                                      *)
THEOREM LostWorkAlwaysBounded == Spec => []LostWorkIsBounded
<1>1. TrainerInv => LostWorkIsBounded
  <2> SUFFICES ASSUME TrainerInv, Running PROVE LostWorkIsBounded
    BY DEF LostWorkIsBounded
  <2>1. /\ furthest <= model.updates + SaveInterval
        /\ step <= model.updates /\ model.updates <= step + LagOf(launches - 1)
    BY DEF TrainerInv, LagBounded
  <2>2. /\ furthest \in Nat /\ model.updates \in Nat /\ step \in Nat
        /\ SaveInterval \in Nat /\ launches - 1 \in Nat
    BY SFTAssumption DEF TrainerInv, TypeOK, Weights, Steps, HalfWritten, Running
  <2>3. LagOf(launches - 1) \in Nat /\ LagOf(launches - 1) = SaveInterval * (launches - 1)
    BY <2>2, LagGrows DEF LagOf
  <2>4. model.updates - step <= LagOf(launches - 1)
    BY <2>1, <2>2, <2>3
  <2>5. furthest - model.updates <= SaveInterval
    BY <2>1, <2>2
  <2> QED BY <2>1, <2>3, <2>4, <2>5 DEF LostWorkIsBounded
<1> QED BY <1>1, TrainerInvariant, PTL

(* A run that returns has trained every batch of every epoch, and at most  *)
(* once with each process.                                                 *)
THEOREM EpochsAlwaysCovered == Spec => []EpochsCovered
<1>1. TrainerInv => EpochsCovered
  <2> SUFFICES ASSUME TrainerInv, pc = "returned", NEW e \in EpochIds, NEW b \in Batches
               PROVE  model.seen[<<e, b>>] \in 1..launches
    BY DEF EpochsCovered
  <2>1. epoch = Epochs - 1 /\ left = {}
    BY DEF TrainerInv, BatchesCounted
  <2>2. ~ Ahead(e, b)
    BY <2>1, SFTAssumption DEF Ahead, EpochIds
  <2>3. model.seen[<<e, b>>] <= launches /\ model.seen[<<e, b>>] >= 1
    BY <2>2 DEF TrainerInv, BatchesCounted
  <2>4. model.seen[<<e, b>>] \in Nat /\ launches \in Nat
    BY DEF TrainerInv, TypeOK, Weights
  <2> QED BY <2>3, <2>4
<1> QED BY <1>1, TrainerInvariant, PTL

(* Wherever processes die, the folder that `latest` names is whole, but    *)
(* when a last save was writing it again.                                  *)
THEOREM PointedAlwaysWhole == Spec => []PointedIsWhole
<1>1. TrainerInv => PointedIsWhole
  BY DEF TrainerInv, PointerFollows
<1> QED BY <1>1, TrainerInvariant, PTL

(* When train returns, the exports, the resume state and the pointer all   *)
(* belong to the last step.                                                *)
THEOREM ReturnedAlwaysAgree == Spec => []ReturnedAllAgree
<1>1. TrainerInv => ReturnedAllAgree
  BY DEF TrainerInv
<1> QED BY <1>1, TrainerInvariant, PTL
=============================================================================
