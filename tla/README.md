# Formal models of pre2post-chess

The repository trains chess-playing language models in three stages: pretraining on
games (`pretraining/`), supervised fine-tuning on generated chains of thought (`sft/`)
and reinforcement learning with an adapted copy of verl (`rl/`). Most of it is tensor
arithmetic, text processing and one-shot scripts. What is hard to get right and hard to
test is the control around it: long jobs that die and are launched again, checkpoints
that are written file by file, data loaders that must continue where they stopped,
rollouts in which many samples of different lengths share blocking generations and
collectives, tools that wait for threads and tokens, and index arithmetic that sorts,
pads, cuts, masks and puts back. These are modelled here.

## Inventory

| component | state | operations | interacts with | what is hard |
|---|---|---|---|---|
| RL checkpoint store (`checkpoint_manager.py`, `fsdp_checkpoint_manager.py`, `_save_checkpoint`) | folders `global_step_<s>` with `actor/`, `critic/`, `data.pt`, `prompt_filter.pt`; the tracker file; `previous_saved_paths` of each manager | save, rotate, find latest | called by the driver; read by the next process | crash between any two writes; rotation before the new checkpoint exists; memory lost with the process |
| RL trainer driver (`ray_trainer.py`) | `global_steps`, the epoch, the data loader, the prompt filter, `_epoch_prompt_mean` | `_load_checkpoint`, a training step, save, end of epoch, filter, early stop | store, rollout workers | resume at any point, state that is and is not in a checkpoint, two loops with different ends |
| Multi-turn rollout (`fsdp_workers.py`) | one `_SampleState` per sample: context, response, counters, replies | round, output of a sample, env call, restore order, `all_reduce` | vLLM (external), the other ranks | shared token budget, limits, sorting, a collective after loops of different lengths |
| Test-time scaling and no-stop rollouts (`fsdp_workers.py`) | the same, plus a thinking phase | as above, `</T>` replaced by `<sep>`, cut after a move | vLLM | two budgets, forced tokens, one loop guards what the other does not |
| Pretraining trainer (`trainer_hf.py`) | step, epoch, loader seed, `latest/`, upload thread | train, save, resume, upload | accelerate, the Hub (external) | skipping batches on resume, seeds per epoch, short accumulations, files read while they are overwritten |
| SFT trainer (`sft_trainer.py`, `sft_data_utils.py`) | step, epoch, `step_<N>/`, `latest_ckpt/`, `latest`; the labels of a sample | train, save, resume, export; mask | accelerate | checkpoint overwritten in place, epoch restarted; labels shifted against tokens and words |
| Chat scheduler (`chat_scheduler.py`) | depth counters, LRU map, heap of addresses, done events | batch, submit, complete, callback | asynchronous servers, tools | callbacks, eviction, a counter that must reach zero |
| Tool rate limiter (`search_tool.py`) | a semaphore and a count in a Ray actor, a thread pool | acquire, release, execute | scheduler | calls that are not awaited, failures |
| Batch balancing, `DataProto` | none (pure) | partition, reorder, put back | driver, worker groups | boundaries, ties |
| Chain-of-thought generation (`puzzle_sequence_generator.py`, `subtree_minimax_generator.py`) | a stack of calls, the lines of a position, flat slots of a batch, the tree | expand, roll out, inject the solution, build, annotate, choose, traverse | engine and model (external) | budgets down a recursion, sorting and putting back, skipped outputs, texts that must retrace a tree |
| Evaluation (`inference.py`, `base_evaluator.py`, `metrics.py`, `multiturn_puzzle_evaluator.py`) | outputs beside states, counters, board and context | generate, convert, count, play a puzzle | model (external) | prompts skipped for their length, outputs without a move, counters over many exits |
| Losses, rewards, tokenizers, worker groups, other back ends, data preparation | – | – | – | not control: see `PROJECT.json` for the reason each is left out |

What makes each correct: the **store** never lets a relaunch find a damaged checkpoint;
the **driver** applies each step once, loses a bounded amount of work, keeps its data set
across restarts and ends; the **rollouts** give every sample what it would get alone, within
its budgets, in the right row, and end on all ranks together; the other **trainers** leave
no batch out, repeat a bounded number and leave files that belong together; the
**scheduler** ends every batch and the **limiter** loses no token; **generation** does the
work its budget pays for and writes texts from which the tree can be read back; a sample
trains the tokens the model wrote; an **evaluation** counts an answer for the state it was
given for, once.

## Modules

| module | models |
|---|---|
| `CheckpointStore` | the checkpoint directory, one file-system effect per action |
| `RLTrainer` | `fit` and `_load_checkpoint` over an instance of `CheckpointStore` |
| `SampleState` | `_SampleState` and the processing of one output, as operators |
| `Episode` | abstract specification: each sample played alone |
| `MultiTurnRollout` | `generate_multi_turn_sequences` on all ranks; implements `Episode` |
| `PhasedRollout` | `generate_sequences_tts` and `generate_multi_turn_sequences_no_stop`, on `SampleState` |
| `PretrainTrainer` | `HFTrainer.train` with its saves, its resume and its upload thread |
| `SFTTrainer` | `SFTTrainer.train` with its saves, exports and resume |
| `ToolScheduler` | pass | tokens are conserved; the load of the addresses stays even, although the root of the heap is changed in place; every batch ends |
| `BatchBalancing`, `BudgetAllocation`, `EnvMask`, `SFTDataset` | sharing out rows and budgets, and the labels of a sample |
| `TrajectoryTree` | the tree of lines, minimax and the traversal texts, as operators |
| `TreeEvaluation` | steps 4 to 8 of `finalize_position_puzzle` on `TrajectoryTree` |
| `TreeSynthesis` | `_expand_node_stockfish` as a stack of calls, and the injected solution |
| `RolloutBatch` | `generate_trajectories_multi_position_batched` and its one-position sibling, from slots to lines, as operators |
| `BatchedInference` | the three batched generation functions of evaluation, as operators |
| `Evaluation` | `BaseEvaluator` and `SFTEvaluator` on `BatchedInference`, as operators |
| `PuzzleEvaluation` | `MultiturnPuzzleEvaluator.evaluate`, as operators |
| `Algorithms` | composes all that runs on its own in one process: the inputs, the answers of engine and model, and what the results must be |
| `...Proofs` | theorems about the module of that name |
| `MC...` | small instances for TLC: sets of replies, batches, games, symmetry |

Where a definition has a mutant (named `Definition_Flaw`), it is a plausible bug of the code
that one of the properties finds.

### CheckpointStore

A checkpoint is a function from parts to contents: `Absent`, `Torn` (being written, or its
writer died) or an image of what the trainer had in memory. `BeginSave` is the call of
`_save_checkpoint`; `Rotate`, `OpenPart` and `ClosePart` are the three phases of a manager
(remove old paths, write the shards between the barriers, append to
`previous_saved_paths`), of which `data.pt` and `prompt_filter.pt` have the last two;
`OpenTracker` and `CloseTracker` are `open(..., "w")` and the flush at the end of the
`with`. `Stop` is the death of the process anywhere, and the normal end; `Launch` is
`_load_checkpoint` as seen by the directory, with the guard that it raises on nothing
(`CanLaunch`). The store on its own requires of its user that a save is for a step after
the tracked one; that `RLTrainer` does so is the property `ImplementsStore`.

Abstractions: the shards of all ranks are one part, which is sound because nothing reads
a part between the barriers; removing a folder is one step, since a half-removed folder
other than the tracked one is read by nothing and a tracked one is a violation either
way; a write that reached its end is durable.

### RLTrainer

The weights are the number of actor updates they received, the loader is the set of
prompts it iterates over and the set still ahead. `Launch` is everything before the batch
loop; `TrainStep` is one turn of it, ending in a save (`pc = "saving"`) or in `EndStep`.
`FilterPrompts`, `StopEarly` and `EndPass` are the three outcomes at the end of a pass.
Which of the measured prompts are useful is chosen freely when `FilterPrompts` asks for their
means. `furthest` is a history variable. Whether prompts are filtered, and at the end of which
epoch, is a configuration that all processes of a run share: `filterEpoch` has any value of
`FilterEpochs` at first and never changes.

The position in a loader is restored exactly only in its first pass: the sampler of a new
process is seeded anew and what the loader state records of a later pass is how far it
was, so a later pass resumes with any set of as many prompts (`RestoredLeft`).

### SampleState, Episode, MultiTurnRollout

Tokens are counted. A response is a sequence of segments, one per `append_model` or
`append_env`. An output of the model is a length and whether it ends in `<call_env>`, which
a clipped output does not; end of sequence and the token limit both end the sample. Replies of the environment are
a number of tokens, which may be 0 (text that the tokenizer maps to nothing), or `Blank`.
A round has one action that fixes `max_tokens` for all active samples and one per output;
ranks interleave freely and meet in `AllReduce`, after which a rank whose assertions
fail has raised. `Episode` has no rounds, ranks or sorting: one action is one turn of one
sample with the limit of that sample alone. vLLM is external: it returns at most
`max_tokens` tokens and does not pass `max_model_len`.

### PhasedRollout

The two other loops, chosen by `mode`. In `"tts"` a sample thinks until it has closed its
thinking: `Think` appends an output, replaces a `</T>` by `<sep>` while budget is left, and
`ForceClose` writes the one that ends it; `EndThinking` closes those that remain; then
`Answer` is a turn with the environment. In `"nostop"` a round generates
`round_max_tokens` without a stop token and `PlayMove` keeps the output up to its first
move (`Play` chooses how long that is, or none). A request longer than the context is
`"rejected"`, a batch that fails the assertions of `Assemble` `"raised"`. The two modes share
state because they share the code of `_SampleState`; neither sorts.

### PretrainTrainer

A batch is its position with the seed that ordered the shards; the weights are the bag of
batches they were trained on. `Launch` builds the process, `Resume` restores it from
`latest/`, and `FirstBatch` says which batches the first pass trains. `TrainBatch` is one
turn of the loop and lists the saves that follow it in `todo`; `OpenFile` and `CloseFile`
carry them out one file at a time, so a crash falls between any two. `StartUpload` joins the
previous thread; the thread clears the repository once in each process, then reads the
run directory file by file while training goes on, and commits what it read, torn or
mixed. `Return` joins it.

### SFTTrainer

The same shape without a thread: a save is `WriteSnapshot` (`step_<N>/`), `MakeLatest`,
then `WriteFile` for each file of `latest_ckpt/`, the exports of a final save, and the
pointer. `Resume` reads `latest_ckpt/` and restarts the epoch with all its batches, in any
order.

### ToolScheduler

A conversation moves through `submitted`, `requested` and `calling` to `over`; what it does
between two awaits is one action. `SendRequest` looks up or routes a request
(`CacheAfter`, `Weighed`). The heap of addresses is there with its entries in their places. Of
`heapq`, which is external, the model takes what it promises: `heapreplace` with the root itself
lets it sink to its place if only the root was out of order, and otherwise promises nothing but
its entries. So that the root may be changed in place before it is replaced is a result, and
not assumed.
`FailRequest` is an exception of the request, `CallTools` counts the messages and starts the
tools of the last completion, `GiveUp` and `Resubmit` are its two continuations, and `Settle`
takes one from the depth and sets the event at zero. A call of the search tool takes a
thread, then a token, and searches; `release` is a remote call that nobody awaits
(`releases.sent`), and the count changes in a step after the semaphore. The two parts are
one module because conversations wait for tools and tools for tokens: that every batch
ends is a property of the composition.

### Algorithms

What runs on its own in one process and shares no state is composed in one module, which
takes one `task` at a time. The expansion of a puzzle (`Expand`) and the differencing method
(`Balance`) go step by step. The others are operators: an input is taken in `AlgorithmInit`,
then the answers to it in one step (`Annotate`: labels and scores of an engine; `Generate`:
what a model writes in each slot, or that a call fails; `Infer`: what it says to each
prompt; `Compute`, where nobody is asked). The properties compare the result with a definition
that uses none of the code's indices.

### BatchBalancing, BudgetAllocation, EnvMask, SFTDataset

`BatchBalancing` is `karmarkar_karp` with its heap as a relation (`MayPrecede`: any order
among ties that Python's comparison leaves open) and one action per merge, then
`get_reverse_idx` and the two ways in which rows are dealt out and put back.
`BudgetAllocation` shares a budget by weights and gives the rest to the heaviest. `EnvMask` is the scan of
`_mask_env_responses` as a fold over the tokens. `SFTDataset` goes from the moves of a puzzle
through `generate_puzzle_sequence` and the three `env_mode`s to the labels of
`__getitem__`.

### TrajectoryTree, TreeEvaluation

A node is the sequence of moves that leads to it, a tree the sequence of its nodes in the
order of their generation. `build_tree_from_trajectories`, `minimax_on_tree` and the
traversals follow the code's loops and queues; a text is a sequence of marks (`move`, `down`,
`up`, `result`, `level`, `sep`, `verify`), of which the checks read the tree back by
readers of their own. `finalize_position_puzzle` runs them in the order of the code, on lines,
labels and scores; the engine is external.

### TreeSynthesis

The recursion is a stack of calls, each a line, and its budget. `Stop` is the base cases,
`Rollout` the principal line that a decided position is played on with, `Branch` the
choice of up to `MaxCandidates` moves with weights and the calls they make. Which moves the
engine proposes, and with what weights, is free; so is whether it is decided. `Finish` adds the
solution and drops duplicates. Game rules are abstracted to a set of moves and the
positions in which the game is over.

### RolloutBatch

A slot is one rollout of one candidate of one position with its depth. The pipeline is the
code's: flatten, sort by depth (stably), cut into
chunks, pad with the first state of the chunk, generate, write back by index, parse, and
per candidate insert the solution and drop duplicates. A prompt has a length; the model's
answer is free. `batched = FALSE` is `generate_trajectories_batched`, which makes one
call for a position.

### BatchedInference, Evaluation, PuzzleEvaluation

An output is the number of the prompt it was generated for, or `None`; so an output beside
the wrong state shows. `Evaluation` takes it through the conversions to the metrics for both
evaluators. Moves are castling (the only text that does not name its squares), or a quiet
move. `PuzzleEvaluation` is a fold over the puzzles: one is left out (`LeftOut`), fails in the
thinking (`FailThinking`), or is asked for moves (`Ask`) until it is solved or missed. A game
is given by how many right moves the model makes, what it then produces, and which replies
promote a pawn; the context and the board of each turn (`Turn`) are kept apart, as in the code.
`uci_to_lan` is the conversion of a reply for the context, which yields nothing for a promotion.

## Runs

| run | result | what it shows |
|---|---|---|
| `CheckpointStore` | pass | the tracked checkpoint stays whole over three saves, three processes, a critic and rotation to two |
| `CheckpointStoreTruncated` | violation | a crash inside the rewrite of the tracker blocks every relaunch |
| `RLTrainer` | pass | over crashes and resumes: no step twice or skipped, at most `save_freq` steps repeated, the end is saved, with critic warm-up and saves forced by an expiring instance; filtered prompts stay filtered; refinement to the store's specification; every launch ends |
| `MultiTurnRollout` | pass | counters agree with the response and replies with the calls; budgets, number of rounds and order of rows in batches of three, with blank, empty and missing replies; batching is invisible to a sample; ranks whose numbers of rounds differ, or whose batches are not valid, all leave the collective |
| `PhasedRollout` | pass | thinking is closed once, shared budgets hold for each sample, each loop fails only where the other guards, both end |
| `PretrainTrainer` | pass | the step never runs ahead of the weights and lags boundedly, no batch is left out and repeats are bounded by processes, the Hub holds what train returned from, every launch ends |
| `PretrainResume` | violation | batches skipped on resume are trained again |
| `SFTTrainer` | pass | a save interval of work is lost at most, every batch is trained, the pointer names a whole model, the outputs of a finished run agree |
| `ToolScheduler` | pass | tokens are conserved, every batch ends |
| `Algorithms` | pass | rows are dealt out evenly and found again; samples train the tokens the model wrote; budgets are fair; lines are apart, playable and paid for, and the answer is among the candidates; values are what can be forced; texts retrace their tree; rollouts belong to their own states; what an evaluation counts was said of that state, and what is found is counted; the counters of puzzles agree with the results, and the context of each turn with the board but for promotions |
| `MicroBatches` | violation | a micro-batch holds more tokens than `max_token_len` |
| `PuzzleReplies` | violation | a promoting reply is on the board and not in the context |

The violations are described, with the lines they contradict, under `findings` in
`PROJECT.json`.

### What reading the code shows

Not every surprise contradicts a line of the repository. The following are true of the
code and of the models, and no run refutes a document by them.

- *Store.* With `max_ckpt_to_keep = 1` a save of step 2 first deletes `global_step_1`, which
  the tracker names, and writes the new one after it: a death in between leaves a tracker
  that names nothing (`fsdp_checkpoint_manager.py:201-211`). No recipe sets it. Managers
  forget checkpoints of earlier processes, so more than `max_ckpt_to_keep` may stay.
- *Driver.* After a resume within an epoch the filter decides on the prompts seen since
  (`_epoch_prompt_mean` is not saved). A finished run that is launched again trains one
  step past the total. An early stop saves under the number of the step that would come
  next.
- *Rollout.* There is no final turn after the last call: an episode has `max_env_calls`
  generations and ends with a reply. A sample whose first output is empty has no row of
  model tokens, and its rank raises on its own assertion after the collective. In the
  thinking loop the unused thinking budget is left to the answer, and no test of the
  context guards the next request; the no-stop loop has that test.
- *Pretraining.* Reaching the token budget leaves only the pass; every later epoch trains
  until its first test of the budget. The cleanup looks for `step\d+$`, which no `step_<N>` matches. The first upload
  of each process deletes the repository. The upload may commit `latest/` while it is half
  overwritten; the next upload repairs it.
- *SFT.* `latest_ckpt/` is made before it holds a state and is overwritten in place; a process
  that finds it without one raises, and so does every later one, until it is removed.
- *Scheduler.* `max_assistant_turns` is compared with the number of messages. Load only grows:
  addresses are balanced by conversations ever sent. With more conversations under way than the
  cache holds (10000 by default) one of them is evicted while its tools run; its next request
  fails an assertion outside the `try` (`chat_scheduler.py:328`), its depth stays and the batch never
  ends. `SendRequest` has that case; `EveryBatchEnds` is checked with batches that the cache holds.
- *Budgets.* What is left of a budget without weights goes to the heaviest candidates.
- *Generation.* "Adds the full puzzle-solution line as one trajectory"
  (`puzzle_sequence_generator.py:20`): under the engine's policy it is added only if no line
  begins with the answer, and then cut to `trajectory_depth` (`:2117`). In a call where one
  state does not fit the context and another does, the output of the first is `None`, on which
  `_parse_move_sequence` raises outside the `try` (`:1276`): the whole batch of positions is
  lost (`Raises`). For one position at a time, a sub-batch of which nothing fits is skipped
  (`inference.py:162`), so that later outputs move up to earlier slots (`:984`);
  `OutputsOfOwnState` holds of all calls but those (`LeavesOut`). `_sample_num_trajectories` and `num_trajectories_answer` are not used. The
  expansion yields no duplicates, against which `Dedup` guards (`LinesApart`). The example in
  the docstring of `generate_puzzle_sequence` shows six moves for `max_puzzle_moves = 5`.
  `env_mode = "strip"` leaves moves that do not follow each other, as its docstring says.
- *Evaluation.* A batch of which no prompt fits adds no outputs (`inference.py:162`), so that
  the predictions are fewer than the states and the assertion of equal lengths
  (`metrics.py:107`) fails (`LengthsAgree`). `lan_to_uci` is called without the side to move
  (`base_evaluator.py:190`), so that Black's castling is never counted as right; an output
  without a move is `None`, which it does not accept, and only `ValueError` is caught
  (`Unconverted`): the evaluation ends. `format_ok_count` is never incremented
  (`multiturn_puzzle_evaluator.py:285`), so that the format rate is zero. After a promoting reply
  (`PuzzleReplies`) the model is asked in a position it was not shown; the metrics count its
  answers like any others. A target that is no move equals an output without a move in the metrics but
  not in the files of predictions. `SFTEvaluator.evaluate_pass_at_k` with an output path names a
  variable that does not exist. Accuracy per depth leaves out puzzles that fail in
  the thinking. What the model writes after its first move of a turn stays in the
  context.

### Bounds

`MaxStep` and `MaxLaunches` bound the store's counters. Three saves with two kept are the
fewest in which a manager rotates while another checkpoint is tracked; three processes let
one crash in the first save of a relaunched one. Two images suffice to mix two saves, as a
part is only compared with others. In `RLTrainer` four prompts and batches of two give two
steps in a pass and a filter that can keep half a pass; the total of steps does not divide
by the save interval, so the last save is a special case. `MaxStep` leaves room for the
steps that relaunches add past the total, so the bound itself never disables a step that
the property is about. There are runs without the filter and runs with it at the end of the
first epoch.

In the rollout three samples are the fewest where a round mixes three states of progress; three
model tokens and a context of six let each limit be the one that binds. The ranks share nothing
but the collective, so `Batches` gives them two kinds of prompts together (`MCBatches`): every
order of three prompts with different replies on one rank, of which some fill the context,
beside a rank that has nothing to generate; and batches on both ranks whose numbers of rounds
differ. That a sample plays its own episode is checked in both, where the limit of a round comes
from another sample and the sort moves it.

`PhasedRollout` has two samples, a thinking budget of three, answers of two and a context
of five, so that budgets end before, with and after the context. `PretrainTrainer` has two
epochs of five batches accumulated by two: the last accumulation of a pass is short, saves
fall within and at the end of a pass, and the second process resumes at any of them; with
and without a budget that ends within the first epoch. `SFTTrainer` has two epochs of three
batches and four processes, because a loss of more than one interval takes two deaths
in a row; `MaxStep` is past every step they reach. `ToolScheduler` has a batch of two, a batch of one, a cache of
two and one token for two threads: the second batch evicts, and a thread waits while the
other searches. Its three addresses are the fewest of which a root has two children to sink
below, and each gets a first request. `Algorithms` has, for each task: four rows, the fewest that make pairs of pairs; puzzles of
up to four moves, which hold a masked reply between trained ones and one at the end; three
candidates with weights up to four and up to seven trajectories; for the expansion three
moves, two candidates and depth three, budgets below, at and above what a full level costs,
and a solution longer than the depth; for trees up to three of six lines of up to three moves,
with shared beginnings, prefixes, repeats and two turns of one side; for rollouts two
positions of up to two candidates and two rollouts, at most three slots in calls of two padded
to three (the code: a multiple of 16), so that a chunk is short, mixed or full, and prompts
that fit for some depths only; for evaluations three states in batches of two (a short batch
at the end), three repetitions and at most six outputs; two puzzles of up to six moves, of
which the model has at most two, so that the limit binds, with and without promotions.
`MicroBatches` has rows of up to four tokens for micro-batches of five, and `PuzzleReplies` one
puzzle.

Deadlock is not checked, because the systems end: `fit` and `train` return, a rollout or a
batch is done, and no process is launched beyond the bound. Where something must not stop
halfway, a liveness property says so.

Symmetry, over images in `CheckpointStoreTruncated` and over batches in `SFTTrainer`, is used for
invariants only, never in a run with a temporal property.

### Fairness

`CheckpointStore`: weak fairness of the steps of a save, since the code runs straight
through it; launching is never fair, and a process may die at any time. `RLTrainer`:
weak fairness of `Fit`, a sequential program that is not blocked. `MultiTurnRollout`: weak
fairness of each rank, given that a generation returns, and of the collective, which
completes once all ranks have called it. `Episode`: weak fairness of each turn.
`PhasedRollout`: weak fairness of `Next`, a sequential program on one
process. `PretrainTrainer`: weak fairness of `Train` and, apart from it, of `Thread`, which the
operating system schedules; an upload may fail but not hang, as its exceptions are caught and
its client has time limits. `SFTTrainer`: weak fairness of `Train`. `ToolScheduler`: weak
fairness of `Next`; it suffices, as every step brings the end nearer and none is taken
back, whereas the code promises fairness of each task of the event loop. `Algorithms` states no
fairness and no liveness: its loops are over finite inputs, and each call of the expansion
has less budget than its caller.

## Proofs

All theorems hold for every value of the constants that satisfies the assumption named in
the module.

`CheckpointStoreProofs`: `StoreTypeCorrect` (`Spec => []StoreTypeOK`) and `TrackedAlwaysWhole`
(`Keep # 1 /\ Spec => []TrackedIsWhole`). `TrackedIsWhole` is not inductive: it does not say why
a rotation spares the tracked folder. `StoreInv` adds that a running save is for a step
after the tracked one (`SaveIsAhead`), so writing its parts touches no tracked file; that
what it has completed holds its image (`WrittenHoldsImage`), so the tracker moves to a whole
checkpoint; and that a manager's paths ascend and end in the tracked step until the manager
is done with the current save (`NewestIsTracked`), so a rotation, which drops a proper prefix
when `Keep # 1` (`ExcessIsProper`), spares it. Each step is treated in `InvStep`, action
by action. `StoreInv` is proved and is no property of a run. `Keep # 1` is needed: the first item of the list above is the counterexample.

`RLTrainerProofs`, for `Keep # 1`: `TrainerInvariant`, `TrainerUsesStore` (the safety part of the
refinement: the initial states are the store's, every step is one of the store or leaves it
alone), `TrainerTracksWhole`, `FilterAlwaysSurvives`, and `UpdatesAlwaysMatchSteps`, whose property is
about runs without the filter. `TrainerInv` contains the store's invariant, and the lemma on the store's steps
is taken from `CheckpointStoreProofs` through an instance, so that only the trainer's own
moves are proved anew. It says further that what is being saved fits the step it is saved
under (`ImagesFit`), without which nothing is known of a resumed process; that the tracker is
behind the step of a process but right after a save (`StepsInOrder`), which is what the store
requires; and that the data ahead is in the loader (`DataInOrder`).

`LostWorkAlwaysBounded` (with saves: `SaveFreq > 0`) rests on `WorkNear`: where the next process
would start is never more than an interval behind the furthest step, and at the top of the loop
no further than the step is past a multiple of the interval. `ReturnedIsSaved` is about runs
without the filter, as an early stop saves under the number of a step that was not trained, and
`ReturnedAlwaysSaved` needs a hypothesis more, which the model refutes without: that the epochs
hold the steps (`PassesSuffice`: `TotalSteps <= TotalEpochs * PassSize`, which the code's default
number of steps satisfies), as otherwise `fit` runs out of epochs and returns without the last save. `PassesReach` says
that the batches ahead of a process always suffice for the steps that are left, also for one that
resumed within a pass; `FurthestIsSaved` that a run past its last step has saved it.

`MultiTurnRolloutProofs`: `RolloutInvariant`, `BudgetsAlwaysHold`, `RoundsAlwaysBounded`,
`RowsAlwaysMatchPrompts`. The lemmas follow one output through `TakeTurn`: what clipping leaves
fits both budgets, although `max_tokens` came from another sample. Rounds are bounded because
at the start of a round each active sample has been answered in every earlier one; rows
match because the sort is a permutation and the places of samples never change.

`ResponseAlwaysConsistent` is about folds over sequences of any length (`Tokens`, `Only`,
`Calls`). The library's induction theorems cannot be instantiated here, so induction is proved for
the one set that is needed (`Induction`: a set of numbers with 0 and all successors is `Nat`, by
its least missing number), and with it that the recursion inside `FoldLeft` has a solution
(`FoldExists`) and agrees on a common prefix (`RunsAgree`), so that one more element adds one more
term (`TokensAppend`, `OnlyAppend`). Then each operation of a sample keeps its counters and the
order of its replies. `PlaysEpisodes` is the refinement of `Episode` without its fairness: the
step of a rank on one sample is that sample's turn alone (`TurnAlone`), all others stutter.

`PhasedRolloutProofs`: `PhaseInvariant`, `ThinkingAlwaysClosedOnce`, `PhaseBudgetsAlwaysHold`,
`FailuresAlwaysOfModes`. The fold lemmas are those above, through an instance. `PhaseInv` says
of each sample of the thinking loop whether it is open (only thoughts, separated) or closed (one
`</T>`, thoughts before it, none after), and that it is within the thinking budget, or one token
above it after a forced `</T>`; of the batch, that what is still to be processed was active when the round began
(`PendingIsActive`), which is what makes clipping to a sample's own rest sound. That
`"tts"` never fails its assertions follows from `Closed`: a closed sample has a token.

`SFTTrainerProofs` and `PretrainTrainerProofs`: `TrainerInvariant` and from it all safety properties
of the two runs, for any epochs, batches, accumulation and interval and any number of processes
that die between any two writes. Both invariants number the jobs of a save by place and say how far the
running one has come (`TodoIsRest`) and what it has closed (`Written`). The lag is bounded
because the file of the weights is written before that of the step, so the disk never has a
step ahead of its weights, and because each death adds at most what lies between two saves
(`LagBounded`, `StepNear`); a process that starts finds at most one torn file (`HalfWritten`), on
which it raises instead of starting. `EpochsCovered` needs that what the disk's step says was
trained is in the disk's weights (`BatchesCounted`, `EpochsBehind`). For `ReturnedIsUploaded` the
invariant follows the thread: once the last upload has begun nothing is written any more, and what
the thread has read is what the disk holds (`LastUpload`). The constants are assumed to be such that a file's contents are told apart from `Absent` and
`Torn`.

`ToolSchedulerProofs`: `SchedulerInvariant`, `TokensAlwaysConserved`, `LoadAlwaysEven`. Tokens are
conserved only because no call is forgotten while it holds one (`NoCallForgotten`): a
conversation that gives up leaves its searches running, and the callback of the next turn
must not reuse their places. `LoadAlwaysEven` rests on the order of the heap (`HeapOrdered`): the
root precedes every entry, by induction from a place to its parent (`RootIsLeast`); changing the
load of the root leaves the rest in order, which is what `heapreplace` asks for, so the heap is
in order again with the same entries (`WeighedIsHeap`); and a step that adds one to the least
load keeps all within one of each other (`LoadStep`).

`AlgorithmsProofs` is about what runs on its own, and has five parts.

- *Lines* (`SynthesisInvariant`, `LinesAlwaysSound`, and `PuzzlesExpandedSoundly` for the
  composition). The invariant speaks of the lines kept and of the calls still on the stack:
  candidates of one node differ in their last move, and a line that is replaced by longer ones
  stays apart from all others.
- *Work* (`WorkAlwaysWithinBudget`). The positions that the lines kept have passed through say
  nothing of what is to come. `WorkInv` adds what is owed: those positions, and with them what
  the budgets of the calls on the stack pay for, never exceed the budget of the puzzle. A call
  that branches owes what its children are given, as the shares of a budget add up to it; a
  call that stops, or plays a line out, passes through no more than it owed. Sums over finite
  sets are a fold, so the lemmas on them (`SumTake`, `SumAdd`, `SumOver`) come first, each by
  induction as above.
- *Budgets* (`BudgetsAlwaysFair`, under `AllocationAssumption`: finitely many candidates, at
  least one, with weights that are natural numbers). `floor` of each share by the lemmas on
  quotients; the places of the candidates in the order by weight are those of a strict total
  order, so as many get one more as are missing, and they are the heaviest.
- *Rows* (`RowsAlwaysDealtOut`). `BalanceInv` holds of the states left in the heap: each is `k`
  sets of rows in descending order of their sums, which differ by no more than the longest row,
  or, where all sets have one size, than the longest and the shortest row do; a set is empty only
  while none has two rows; and every row is in one set of one state (`DealtOut`). Merging two
  states adds the largest of one to the smallest of the other (`MergedIsMixed`), so the
  difference does not grow (`Rearranged`). What is dealt out is the last state
  (`OneStateLeft`), in which no set is empty when there are rows enough (`NoneEmpty`); the order
  is a permutation, and its inverse finds every row again (`PartitionsInRow`). TLC checked
  `BalanceInv` on the instance of the run before it was proved.
- *Puzzles* (`PuzzlesAlwaysCounted`, under `PuzzleAssumption`: the model may make at least one
  move). Each puzzle that is not left out adds one result and what goes with it to the counters
  (`Increments`), however it ends (`FailThinkingCounts`, `AskCounts`); so after any number of
  puzzles each counter is the number of results of its kind (`Tallied`, `GamesTallied`). `ContextsAlwaysFollowBoards` follows a puzzle turn by turn
  (`TurnInStep`): the board has all its moves in order, and the context those in the same order
  without the first and without the replies that promote (`ContextsFollow`). That the context
  names all of them, as documented, is what `PuzzleReplies` refutes.

Only model-checked: liveness (`LaunchEnds`, `AllRanksFinish`, `PhasesEnd`,
`EveryBatchEnds`) and the fairness of the refinements, which are outside the prover; and of
`Algorithms` the properties `OwnTokensTrained`, `TreeOfPuzzle`, `MinimaxIsForced`, `TextsRetrace`,
`RolloutsOfOwnState` and `MatchesAreFound`. These are about recursive functions over trees,
selections from and sorts of sequences, whose definitions the provers do not see through, and
folds within folds: each would need an induction of its own over the data, as above.

## Not modelled

*RL.* `trainer.resume_mode = resume_path` and `disable` (which may save at or below the tracked
step and so break the store's requirement), `del_local_ckpt_after_load`, HDFS, validation,
`val_only`, rewards and advantages, the log-probabilities carried with the tokens, the test
that a reply contains no padding token, worker failures inside a step. `UpdatesMatchSteps` is
stated for runs without the filter, since an early stop names its save after a step not
trained. With `drop_last` and a number of prompts that the batch size does not divide, some
prompts of every epoch are not measured. The agent loop, the sandbox tool (a copy of the classes of the search tool) and the life of
the servers.

*Other stages.* Evaluation during training, an explicit resume path, the legacy checkpoint
format and the padding of a last batch in the trainers; the numbers that weigh candidates, the
stratified labels, the worker pool and the writing of results in generation; the legality metric and
the files of predictions in evaluation.

*Everything else.* Losses, advantages and kernels are tensor arithmetic; rewards, tokenizers
and the analysis scripts are functions of text without state; worker groups are remote calls
whose semantics are Ray's; Megatron and SGLang are alternative back ends that no recipe uses.

## Plan

1. `DataProto`: padding to a divisor, `union` and the order of keys; the agent loop.
2. A refinement of both trainers to one abstract specification of an epoch ("each batch once,
   in order, across restarts"), to state in one place how each departs from it.
3. The main loop of generation with its pool of workers and its shards of output.
4. Proofs of the rest of `Algorithms`, beginning with `OwnTokensTrained`, whose folds are over one
   sequence, as those of the evaluation are.
