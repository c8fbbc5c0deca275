# TLA+ verification of sha256_research_miner

This directory holds TLA+ models of the miner, the TLC configurations that check
them on small instances, and TLAPS proofs of the properties that matter most, for
every value of the constants. Paths below are relative to the repository root
(`src/mining/...`, `include/mining/...`); `PROJECT.json` maps every definition to
the lines it models.

## 1. Inventory

| Part | State it keeps | Operations | Talks to |
|---|---|---|---|
| Work allocator (`work_allocator.cpp`) | `units_`, `metadata_` (work, `next_extranonce2_counter`), two mutexes | `load_existing`, `prepare_live_job`, `prepare_historical`, `acquire`, `update_progress`, `complete`, `release`, `mark_all_stale`, `snapshot`, `checkpoint` | called by every other thread; writes through the state store |
| CPU miner (`cpu_miner.cpp`) | a vector of threads, one unit copy per thread | `start`, `stop`, `worker` | allocator, `active_generation`, candidate handler |
| GPU miner (`gpu_miner.cpp`) | one thread, one unit copy, OpenCL objects | `start`, `stop`, `run`, `detect` | the same |
| Mining controller (`mining_controller.cpp`) | `active_generation`, `subscribed`, `authorized`, `extranonce1`, `pending_job`, `pending_submissions` | Stratum callbacks, `launch_job`, `on_candidate`, `run_live`, `run_historical`, `run_research` | everything |
| Stratum client (`stratum_client.cpp`) | socket, network thread, pending submission times | `start`, `run`, `handle`, `submit`, `stop` | runs all callbacks of the controller |
| State store (`state_store.cpp`) | one file and its `.tmp` | `load_or`, `save` | file system |
| Result logger, best PoW tracker (`logging/`) | candidate files, share audits, record file and history, in-memory best | `save_candidate`, `update_candidate`, `save_share_audit`, `update_share_audit`, `observe`, purge | called from worker threads and the network thread |
| Context campaigns (`research/context_campaign.cpp`, `context_analysis_main.cpp`) | `manifest.json`, `checkpoint.json`, `features.jsonl`, `block_labels.jsonl`, summary, report, holdout evaluation | `new`, `resume`, `analyze` | header space scanner |
| Phase 2 studies (`research/context_phase2.cpp`) | two directories of artifacts, meant to be immutable | `phase2`, `phase2-refinement` | reads a campaign's files while another console may write them, or run the same command |
| Trajectory campaign (`research/context_trajectory.cpp`) | one capture, metadata and temporary per block, checkpoint, analysis directory; a pool of workers, a queue, a condition variable | `trajectory-new`, `-resume`, `-analyze` | sparse scanner |
| Header space scanner (`research/header_space*.cpp`, `kernels/header_space_map.cl`) | zone statistics, hit buffer and counter, `zones.csv`, `summary.json` | scan, reduce, verify, aggregate, capture | OpenCL |
| White box (`research/sha256d_whitebox*.cpp`) | traces of two hashes, statistics of their differences | trace, compare, prescan, single-bit campaign, context transfer | - |
| Pure parts (`bitcoin/`, `crypto/`, `stratum_job.cpp`) | none | targets, difficulty, merkle, headers, SHA-256 | - |
| Telemetry, configuration, platform, scripts | counters, settings | output and parsing | - |

What is hard about it. In live mode five kinds of actors share the allocator: CPU
workers, the GPU thread, the network thread that executes every Stratum callback,
the main thread with its checkpoints and its shutdown, and the process being killed
at any time. Ownership of a nonce range passes through memory, a checkpoint being
written and the file. A job change invalidates a generation while workers still
hold units of it. The extranonce2 counter is the only thing that keeps an erased
complete unit from being handed out again. A candidate leaves a worker thread for
the disk and the pool while the job, the connection or the process may go away. The
research commands share directories without a lock, append to files that a kill may
cut off in the middle of a line, and publish results that must never change again. The
kernels are races for slots and reductions between barriers. The statistics are
correct only if no label reaches the rows it must not reach. `PROJECT.json` lists these hazards with
the line where each bites and the properties that would catch it.

What makes each part correct:

- allocator: unit ids are unique, ranges are disjoint, a recorded nonce is not
  handed out again, no nonce of a reserved extranonce2 is lost;
- miners: a unit in a worker's hands is the allocator's unit in progress, its cursor
  never runs ahead of the hashes, an interrupted unit is not completed;
- controller and client: units are replaced only when no worker is left, a launch
  uses the extranonce1 of its session, the shutdown ends and its checkpoint is exact;
- state store: the file holds the old or the new state, and never goes back;
- share pipeline: a candidate is durable before it is submitted, an answer finds its own
  solution and stays, the best hash is not lost, nobody waits for ever;
- campaigns and studies: a block is neither lost nor scanned twice over restarts, labels
  stay behind their partition, a study is made of a whole campaign and is final once
  no other command races for it;
- trajectory campaign: a task is claimed and handled once, a complete capture stays,
  the coordinator is always woken;
- scanner: the published figures are those of the range, a capture has every hit once;
- white box: additions, carries and differences are those of the arithmetic;
- statistics: out-of-fold predictions, permutation maxima, ranks, ties and top-k are
  what their names say.

## 2. Modules

| Module | What it is |
|---|---|
| `WorkAllocator` | the allocator as one record; every method an operator from the record before the call to the record after it |
| `LiveMiner` | the threads of a live session around that record, the checkpoint file and crashes; extends `WorkAllocator` |
| `MCLiveMiner` | sets and functions that the configurations assign to the constants |
| `LiveMinerProofs` | what each method of the allocator preserves, the inductive invariant of `LiveMiner` and the theorems that follow; `StateStore` implements `AtomicFile` |
| `HistoricalScan` | `run_historical` and the part of the allocator it uses, over restarts |
| `HistoricalScanProofs` | no hit is lost, and where ids are unique a clean stop is exact |
| `AtomicFile` | what the users of the state store rely on: a file replaced in one step or left |
| `StateStore` | `save` and `load_or` call by call, in both builds, with kills and power failures |
| `ShareSubmission` | a proof of work from the worker that finds it to the pool's answer and the files |
| `ShareSubmissionProofs` | its inductive invariant: what is sent is on disk, answers match and stay, records improve |
| `ContextCampaign` | a campaign directory under one scanning and any number of studying consoles: scan, analysis, phase 2 and its refinement |
| `ContextCampaignProofs` | its inductive invariant: rows, checkpoint, partition barriers, studies |
| `DiscoveryStudy` | the statistics of a phase 2 study, on two label tables at once |
| `DiscoveryStudyProofs` | no label has a part in its own prediction; the maximum statistic is exact |
| `TrajectoryCampaign` | the capture of sparse hits by a pool of GPU workers and one coordinator |
| `TrajectoryCampaignProofs` | its inductive invariant: tasks, end of the pool, captures, records |
| `HeaderSpace` | the header-space scanner, its kernels and its files |
| `HeaderSpaceProofs` | what is captured and what is published are the figures of the range |
| `Sha256` | words as sets of bits, the functions, sums with their carries, one round |
| `WhiteBox` | two SHA256d hashes in lock-step and what the comparison collects; extends `Sha256` |
| `WhiteBoxProofs` | the sigmas are linear over exclusive or, and what follows in every round; the prescan |
| `MC...` | for each of them, the instance for TLC |

`LiveMiner` extends `WorkAllocator`. Its saves (`WriteSnapshot`) and those of
`HistoricalScan` are one step that replaces the file or leaves it: the `Commit` and
`GiveUp` of `AtomicFile`, which `StateStore` is proved to implement.

### WorkAllocator

Every method of the class holds `mutex_` from its first to its last line, so a call
is one atomic step and a method is an operator on a record:

| Field | Code |
|---|---|
| `units` | `units_`. The vector matters only through the order in which `acquire` looks at it; groups are appended with growing extranonce2 counters and growing ranges, so for one kind that order is `Before` and a set suffices |
| `work` | `last_job_id`, `last_prevhash`, `extranonce1`, `extranonce2_size` and `work_fingerprint` of `metadata_`: the job and the subscription it is mined under |
| `counter` | `next_extranonce2_counter` |
| `done`, `tenure` | history no method reads: the nonces recorded as scanned for the work, and a stamp that tells apart two periods of the same work with another work in between |

A unit id is made of the generation in which the unit was created, the extranonce2,
the kind and the index; the string is a tuple here (`Id`).

Abstractions. One model nonce is one block between two looks at the stop flag: 4096
hashes of a CPU worker, one kernel launch of the GPU. `NonceSpace` stands for 2^32.
`Ex2Space[e]` is the number of extranonce2 values of a subscription, 0 when its size
is 0 (it is never 1: one byte already gives 256). `best_hash`, `best_nonce` and
`hashes_tested` decide nothing and are left out. The branches for modes other than
`live` and `mock_stratum` are not taken in those modes. A size above 8, refused with
`invalid_argument`, is not announced by the modelled pool.

Exceptions are part of the methods: `PrepareThrows`/`HalfPrepared` and
`CompleteThrows`/`HalfCompleted` say what is left behind when `append_live_group`
throws `overflow_error` half way through.

### LiveMiner

| Variable | Code |
|---|---|
| `al` | `Impl::allocator` |
| `disk` | `state/live_state.json` |
| `snap[p]` | the state a thread is saving while it holds `checkpoint_mutex_` |
| `generation` | `active_generation` |
| `thr[t]` | CPU workers `1..CpuCount` and the GPU thread `0`: program counter, generation and work of its job, its unit copy, `nonce`/`next`, `pending`, stop token |
| `net` | the network thread: where it is in `run`, `launch_job` or the disconnected callback, and with which job |
| `session` | `subscribed`, `authorized`, `extranonce1`, `pending_job` |
| `main` | the main thread of `run_live`; `dead` after `std::terminate` |
| `hashed` | history: the nonces hashed for the current work, those of a failed GPU batch or of a crash excepted |
| `crashes`, `ticks` | counters for the bounds |

Actions and code:

- workers: `Check` (loop heads), `AcquireUnit`/`AcquireNone`, `Hash` (one block and
  `update_progress` every `Batch` blocks), `LeaveLoop` (the flush after the loop),
  `CompleteUnit`, `ReleaseUnit`; they model `CpuMiner::worker` and the loop of
  `GpuMiner::Impl::run`, which differ in where the stop flag is looked at and in what
  follows a release. `GpuExhausted`, `CpuExhausted`: `complete` throws. `GpuFail`: an
  OpenCL call throws;
- network thread: `Connect`, `OnSubscribed`, `OnAuthorized`, `OnJob`, `Disconnect`
  raise the generation and request the stop, `NetJoinCpu` and `NetJoinGpu` are the
  two joins of `stop_workers`, `Prepare`/`PrepareOverflow`, `StartCpu`, `StartGpu`,
  then `NetSnapshot` and `NetSave`. All callbacks run on this thread, so
  `control_mutex` excludes nobody and is not a variable;
- main thread: `PeriodicSnapshot`/`PeriodicSave`, `Shutdown`, `MainStopLate`,
  `MainJoinCpu`, `MainJoinGpu`, `MainJoinNet`, `FinalSnapshot`, `FinalSave`;
- environment: `Crash`, a power failure or a kill at any moment and the next start.

A save either replaces the file or leaves it (`WriteSnapshot`): `save` may throw, and
`safe_checkpoint` swallows it.

`run_live` calls `stop_workers` on shutdown without `control_mutex`, while the network
thread may be changing the same vector of threads. That is a data race in C++. The
model takes the outcomes in which the program survives it, any interleaving of the two
stop sequences at the level of requests and joins, plus `Crash` for the others.

The pool repeats the current job with `clean_jobs` only when `CleanRenotify` is
true: what the code does then (section 6) would make `NeverForgotten` and
`NeverReallocated` false in the first step after it. `NeverForgotten` says that every nonce below
the counter is recorded as done or is in a unit that is not complete, and that no unit is
stale while a worker is about: nothing that is left to do is out of a worker's reach.

### HistoricalScan

This mode keeps every unit it ever made, and `update_progress`, `complete` and `release`
act on the first one with the given id, so here the vector is a sequence and an id is
not unique: `<<header, index>>`, as `prepare_historical` builds it. The round is always
64. The workers look at `found` and `stop_requested` before every nonce, so a model
nonce is a nonce; `Batch` stands for 65536.

| Variable | Code |
|---|---|
| `units`, `meta`, `disk` | `units_`, the range in `metadata_`, `state/historical_state.json` |
| `thr[t]` | a worker: its place, its unit copy, `nonce`, `pending`, its stop token |
| `found`, `stopped` | the two atomic flags |
| `main` | the loop of the main thread: look, sleep, perhaps checkpoint; then join, last checkpoint, end. `unwind`: `checkpoint` threw and the destructors of the threads stop and join |
| `saved` | the candidates `save_candidate` made durable |
| `hashed` | history: what this process hashed of its range, with what its checkpoint had behind it |

`found` is set by the exchange of `Hash`; the winner then saves (`SaveCandidate`) while
the other threads see the flag, and one that loses the exchange passes its own hit
without saving it. The token is looked at only between two units (`Check`). If saving a
candidate throws, the exception leaves the thread function and the process ends: that is
`Crash`, which is possible in that state even where the power never fails. The
model assumes `save_block_candidates` is on, its default. A checkpoint is written by one
thread only, so the file may as well change when the snapshot is taken.

### StateStore and AtomicFile

A payload is `Parts` writes; `file`, `tmp` and `dur` (what the device holds under the
name) are absent or the sequence of parts written. `windows` tells the build: there
`FlushFileBuffers` makes the temporary file durable before `MoveFileExW` with
`MOVEFILE_WRITE_THROUGH`, and a locked file is tried again, up to `Attempts` times
for the open and again for the rename; the other build has `output.flush()`, which
reaches the operating system only, and `rename`. `Throw` is a failure at any call and
leaves the temporary file behind. A part that is torn inside a write is covered
by its being missing. `PowerFailure` returns what the device holds, or, for data still
with the system, any prefix of it under the new name. `load_or` refuses a file that
opens and is not one whole state (`stage = "refused"`): the exception ends the program.

### ShareSubmission

A find is a hash worth telling: `Kind` says whether it is plain, a share or a block, and
finds are ordered by their hash, 1 the best. `on_candidate` is called for a find that meets
the target and for a thread's new best; the worker thread goes through it one write at a
time.

| Variable | Code |
|---|---|
| `generation`, `link`, `conn` | `active_generation`; the TCP connection; `is_connected` and `is_authorized` |
| `net` | the network thread: listening, in a callback, joining the workers, dropped |
| `w[t]` | the CPU and the GPU thread: place in `on_candidate`, what is left to report, the solution, `active` and `can_submit` as they were read |
| `owner` | `submissions_mutex` |
| `nextId`, `awaited`, `filed` | ids and `pending_submissions` of the client, `pending_submissions` of the controller |
| `requests` | what the pool received and has not answered, or the answer is on the way |
| `best`, `bestFile`, `records` | `BestPowTracker`: memory and mutex, record file, history |
| `candidate`, `audit` | the status in the two files of each solution |

Abstractions: one CPU and one GPU worker; `BufferSize` stands for the 64 entries of the
candidate buffer and a launch keeps an arbitrary choice of that many hits, since the
work-items race for them (`dropped` is what it leaves out). Besides the hits a thread reports its
best hash: a CPU worker, which starts every unit without one, at the end of a batch that improves
it; the GPU thread, whose best lasts from unit to unit, from the minima of its first launch, and from
then on through the target of the kernel, which is the easier of the share target and its best. The best is
taken from what was reported only. The pool's verdict is a constant set; a write succeeds or throws,
and a kill may come between any two. Every branch of the error handling is there: a block
candidate that cannot be saved is not sent, a share whose audit cannot be saved is not
sent, the audit of a block is secondary.

### ContextCampaign

Files are variables, one step is one write. A `.jsonl` file is its lines and whether the
last one lacks its newline; a torn line reads as row 0 and a row appended after it lands on
the same line, as `append_jsonl` does; `ids_in_jsonl` then refuses the file. The scan of 2^32
nonces is part of `AppendLabel`. An analysis is the set of labels it used, for its
statistics, for its fitted model and for each section, which is what the barriers are about.
A study is the sequence of its files, each with the console that wrote it and the rows it is
made of; the digests of its sources are the sources themselves. What a command publishes is
looked for when it starts and written when it ends, in steps of their own, so every
console of `Studies` may be between the two at once. `PublishPhase2` does not ask whether
`create_directory` created anything and `WithFile` writes over the file of another command;
`PublishRefinement` asks. The consoles are an environment: the operator scans on one, which is
an assumption that no lock of the code enforces, and studies on the others.

### DiscoveryStudy

One action per analysis of `run` and `run_refinement` and per outer fold. Real arithmetic
is kept exact: contexts have one or two rows, so that a Spearman coefficient inside a
context is -1, 0 or 1 and the means are integers over `Unit`; coefficients over more rows are
triples (covariance and two variances) compared by cross-multiplication. A ridge
model is the record of everything its fit reads. The study runs on two label tables that
agree except on one prevhash; `OutOfFold` compares the two.

### TrajectoryCampaign

`co` is the coordinator's place, `wk[i]` a worker's, `pool` what they share under
`state_mutex` or atomically. `Wait` evaluates the predicate and either goes to sleep or swaps the queue;
a notification is a step of its own, so a wake-up that comes too early or not at all is in
the model. Captures are `none`, `whole` or `bad` (the checksum fails), temporaries may be
partial. The coordinator's writes are one step each: quarantine of each of the three files,
temporary, rename, metadata, checkpoint.

### HeaderSpace

A header is the function from nonces to the value of their hash, so SHA-256 is data here.
The zone layout, the classification, the accumulation by stride, the tree reduction, the
aggregation, the integrity check and the CPU reference are operators; a work-item is an actor
that scans, then takes part in each level of the reduction once its whole group has
reached the barrier. The verified prefix is scanned first and the whole range after it
unless they are the same. `Remove` and `Rename...` are the calls of `write_atomic`. In the sparse
kernel `Probe` draws a slot with `atomic_inc` and `Store` writes the nonce if the slot is in
the buffer; `ReadHits` returns or launches again with twice the capacity. 32-bit
counters wrap at `NonceSpace`.

### Sha256 and WhiteBox

A word is the set of its one bits, 0 the lowest; `Sum` adds any number of words column by column
and keeps the carry out of every column, as the tracer does. `WhiteBox` runs a reference and a
candidate header through the three compressions, one round of both per step, and keeps
the additions and the rounds of the last step, the collected analysis and the
carry statistics. Everything is at full width with the real constants and headers: Genesis
and two contexts of the transfer campaign.

## 3. Runs

| Run | Instance | Checks |
|---|---|---|
| `Crash` | 1 CPU worker + GPU, 2 nonces, batch 2, 3 extranonce2 values, 2 generations, 1 crash, 1 periodic checkpoint | `NeverReallocated`, `NeverForgotten`, `RecordedWasHashed`, `DiskNeverRegresses` |
| `Jobs` | 1 CPU worker + GPU, 2 nonces, batch 2, two jobs, one refused by the target code, `clean_jobs` either way, two subscriptions, one of size 0, 3 generations | `MinerInv`, `ExclusiveScan`, `NeverForgotten` |
| `Stop` | 2 CPU workers, 3 nonces (an uneven split), batch 2, 2 extranonce2 values, Ctrl+C at any time, fair, no crash | `CleanStopIsExact`, `EveryUnitFinishes`, `ShutdownEnds` |
| `Zombie` | 1 CPU worker, 2 nonces, 1 periodic checkpoint, 1 crash, fair | violates `EveryUnitFinishes` |
| `HistoricalResume` | 2 threads, nonces 1..3, hits 1 and 3 or none, batch 2, two headers, Ctrl+C, crashes, 2 processes, fair | `ScanInv`, `CleanStopIsExact`, `ScanEnds` |
| `StoreAtomic` | 2 states, 3 parts, 4 attempts; Win32 with power failures, the other build with kills only | `NeverRefused`, `ImplementsAtomicFile` |
| `Shares` | a block and a share, a buffer of 1, 2 jobs, 1 trouble (lost connection, failed write or kill), fair | `DurableBeforeSubmit`, `AnswersMatch`, `RecordsInv`, `AnswerIsFinal`, `CandidateEnds` |
| `CampaignResume` | 2 blocks, discovery and holdout, 2 scan commands, 3 commands over 2 studying consoles, 1 kill, torn lines, fair | `RowsInv`, `PartitionBarrier`, `StudyIsWhole`, `SettledIsFinal`, `ResumeLabelsAll` |
| `Study` | 9 rows, 5 contexts, 4 prevhashes, 4 features, 3 outer folds, 54 label tables | `OutOfFold`, `MaxStatisticIsExact`, `StatisticsAreExact` |
| `Trajectory` | 3 blocks, 2 of them discovery, 2 GPU workers, 3 commands, 2 troubles, fair | `PoolInv`, `AnalysisIsWhole`, `CompleteStays`, `CommandEnds` |
| `HeaderSpace` | 8 nonces, groups of 4 work-items, 5 headers, 15 requests, 2 commands, 1 abort, fair | `MapIsExact`, `CaptureIsExact`, `ScanEnds` |
| `WhiteBox` | Genesis with 32 flips and its successor, 2 contexts with 3 flips; 192 rounds each | `DigestsAreKnown`, `SigmaDifferential`, `AdditionIsExact`, `PrescanIsExact`, `ComparisonIsConsistent` |

Why the bounds are enough for what is asked: two nonces and a batch of two give every
relation between the cursor of a worker, the published cursor and the end of the range;
three extranonce2 values let the CPU and the GPU each start a second group, compete for
the last value and run out of values; two generations are a launch and its
disconnection or replacement, three a job that comes back; one crash already separates
memory from file at every point; two CPU workers are what
a liveness property needs: the worker that finds nothing leaves, the other takes the next group. What
holds for any number of workers is proved.

In the historical runs each thread has a hit of its own, so both may find one at the same
time; the batch does not divide what a thread scans after an interruption; two processes
are a stop and its resumption. `ScanEnds` excepts a checkpoint with a half-finished unit
(`HalfFinished`), the one of the run `Zombie`: from there `run_historical` really waits for
ever, and nothing else makes it. `HistoricalResume` has one range per header:
with two processes a header cannot come back after another one, so the ids are unique
there; section 6 says what happens when they are not. Three parts tell an
empty file, a torn one and a whole one apart; the attempts are the four of the code.

In `Shares` two finds are a record that is beaten and one that is not, and more hits than
the buffer; one trouble already separates every two writes of a call, and a second
job lets a call outlive its generation. Each solution is called for twice, so the pool
both accepts and refuses. In `CampaignResume` a campaign needs two commands to be
scanned, killed or torn, and resumed; the analysis that ends the scan is what a study needs,
so that the three other commands are a study and two refinements at once, two studies and a
refinement, or analyses and the openings of the holdout between them. A validation block, a
second kill or a third studying console takes the run past five minutes; those are left to the theorems,
which hold for every plan and every number of consoles, commands and kills. In `Trajectory` two workers and three tasks leave one worker without
a task while the other is scanning, and a queue of two when the coordinator comes late. In
`HeaderSpace` four work-items are two levels of the reduction; the requests have zones that
divide the range and zones that do not, batches smaller than, equal to and larger than the
zones, and capacities that must be doubled never, once, several times and once too often; the
headers have ties, hits everywhere but one, and none. `Study` has
two contexts of one prevhash, ties in every table, contexts of one row, and every
difference a single prevhash can make. `WhiteBox` is not a bound but a sample: what it
checks on 39 pairs is also the code's own choice of pairs.

Fairness. `FairSpec` asks weak fairness of each worker, of the network thread and of
the main thread: the operating system schedules every thread, hashing a block and an
OpenCL call end, a lock is handed on. Nothing is asked of the pool, of the operator or
of the power supply: a notification, a disconnection, Ctrl+C and a crash may happen or
not. In `HistoricalScan` it is weak fairness of each worker thread and of the main
thread, whose loop sleeps for 100 ms and looks again. `ShareSubmission` asks it of the
network thread's own steps and of each call of `on_candidate`, not of the pool, the
connection or the finds. `ContextCampaign` asks it of the scanning command, whose exceptions and
kills are not fair steps; `TrajectoryCampaign` of the coordinator and of each worker;
`HeaderSpace` of the command, since a device runs the work-items of a launch to their
end. The runs in which a process may end, or the bound on its commands is reached,
switch deadlock checking off.

What the runs show:

- through crashes, failing saves, job changes and a shutdown at any point, a recorded
  nonce is not handed out again, no nonce of a reserved extranonce2 is lost, and a
  cursor never passes what was hashed; README lines 189-195 of the repository say so;
- `checkpoint_mutex_` is what keeps the file from going back, and joining the workers
  before `prepare_live_job` is what keeps their units known: dropping either is a
  mutant that TLC refutes;
- the historical scan never loses a solution: the candidate is durable before the cursor
  of its thread passes it, and when a second thread passes a hit of its own meanwhile and
  a crash follows, the first hit is still to be scanned in every checkpoint;
- with its flush and write-through the Win32 build of `save` is an atomic replacement
  through power failures, and the other build through the death of the process;
- a submitted candidate was on disk before, and an answer, however early, finds its own
  solution because `submissions_mutex` is held from the drawing of the id to the update of the files;
  the records improve strictly and the best hash survives every job change and disconnection. What
  the full GPU buffer may drop is a hash of a later launch (`dropped`);
- rows read back from the files, not the checkpoint, are what makes a campaign resumable:
  no block is scanned twice whatever is killed. No interleaving of one scanning and several studying
  consoles lets a label past its barrier, publishes a study of an unfinished campaign, or replaces an
  evaluation or a study once the commands that raced for it are done (they may replace one
  another's: section 6); a finished refinement is never replaced;
- the pool of the trajectory campaign loses no task and never sleeps for ever, whether its
  workers finish, throw or are stopped; captures outlive every kill;
- the scanner's figures do not depend on the order of the work-items or of the batches, and the sparse
  capture is complete after any number of overflows;
- folds by prevhash keep the labels of a prevhash out of its predictions through selection,
  scaling and the choice of lambda; the permutation test selects again; the two implementations of
  the primary score agree;
- the tracer's carries and differences are those of the arithmetic in all 936
  additions of each hash, and the constants of the prescan are those every candidate goes through.

Every property of a passing run has a mutant in `PROJECT.json`: a plausible slip in a
definition that models code, under which the property fails.

## 4. Proofs

### LiveMiner

`LiveMinerProofs` proves, for every value of the constants that satisfies
`AllocatorAssumption` and `MinerAssumption` (any number of workers, nonces,
extranonce2 values, jobs, generations, crashes):

| Theorem | Statement |
|---|---|
| `TypesHold`, `MinerInvHolds` | `Spec => []TypeOK`, `Spec => []MinerInv` |
| `HeldUnitsAreKnown` | `Spec => []HeldUnitsKnown` |
| `ScansAreExclusive` | `Spec => []ExclusiveScan` |
| `FileNeverRegresses` | `Spec => DiskNeverRegresses` |
| `RecordsAreExact`, `HashedIsRecorded` | `Spec /\ []NoReturn => []ExactInv`, `... => []HashInv` |
| `NeverReallocatedHolds`, `NeverForgottenHolds`, `RecordedWasHashedHolds`, `CleanStopIsExactHolds` | `Spec /\ []NoReturn => []NeverReallocated`, and so on |
| `QuietPoolNeverReturns` | `QuietPool` implies `Spec => []NoReturn` |
| `LiveMinerIsExact` | `QuietPool` implies `Spec => []` of those four properties |

The argument. `ExclusiveScan` alone is not inductive: it says nothing of units nobody
holds. `IInv`, that is `TypeOK /\ MinerInv`, adds what a step needs:

- `RecordsWellFormed`: in memory, in the snapshots under way and on disk, ids are
  unique, ranges of one extranonce2 are disjoint, cursors lie in their range, and the
  counter is past every extranonce2 in use (`CounterAhead`), so a new group is new.
  It must hold of `disk` and `snap` because a crash makes them the memory;
- `CompleteErased` and `CpuHasOpen`: `prepare_live_job` stores the counter only after
  the GPU group, so an overflow after a CPU group has been appended would leave a used
  extranonce2 below the counter. It cannot happen: while values are left the CPU always
  has an open unit, and when none are left the CPU group itself throws;
- `LaunchHasWork`, `JoinedBeforePrepare`: the units are replaced only between the join
  and the start of the workers, and a running worker belongs to the current work;
- `HeldUnitsKnown`, `DistinctHeld`: a worker's copy and the allocator's unit agree, and
  two workers hold different ids. Together with disjoint ranges this gives
  `ExclusiveScan`.

What is proved about the history rests on `IInv` and on four more invariants:

- `OrderInv`: the file is not ahead of a snapshot, a snapshot not ahead of the memory, and
  there is one snapshot at a time. This is `checkpoint_mutex_`; it gives `DiskNeverRegresses`;
- `ExactInv`: each record (memory, snapshot, file) accounts for every nonce of every
  extranonce2 below its counter: it is recorded as done or in a unit that is not
  complete, and not both. It gives `NeverReallocated`, and with `StaleInv` (no unit is stale
  while a worker runs or is about to be started) `NeverForgotten`;
- `HashInv`: what is recorded was hashed, and what was hashed is recorded or in the hands of a
  worker that has not published it. It gives `RecordedWasHashed`;
- `ShutdownInv`: the last snapshot is taken after the network thread has ended, which ends with no worker
  left. With `HashInv` it gives `CleanStopIsExact`.

`NoReturn` is the hypothesis of the last three: whenever `prepare_live_job` is called for the
work the record is about, no unit of the record is stale. Section 6 says what the code does
otherwise. It is not an assumption about unreachable states: `QuietPoolNeverReturns` proves it
for every pool that never sends `clean_jobs`, whatever crashes (`KeepsAll`: no record ever has a
stale unit), and for every pool that sends `clean_jobs` with other work only, as long as the
process is not killed (`Replaces`: what `mark_all_stale` abandons is replaced before anyone
looks at it). The run `Jobs` has clean jobs and the run `Crash` has crashes.

The module begins with one lemma per method of the allocator: it preserves the type, `WellFormed` and
the account, and says what it does to the units a worker may hold. Then there is
one lemma per action, on a few frame lemmas (a step of one worker, a step that only
stops threads, a step that only saves).

### HistoricalScan

`HistoricalScanProofs` proves, from `ScanAssumption` (any number of threads, headers, ranges, hits,
processes):

| Theorem | Statement |
|---|---|
| `ScanIsSound` | `Spec => []SoundInv` |
| `ScanInvHolds` | `Spec => []ScanInv`: the types, and `HitNeverLost` |
| `CleanStopIsExactHolds` | `Spec /\ []UniqueIds => []CleanStopIsExact` |
| `OneSearchIsExact` | with one header and one range, `Spec => []CleanStopIsExact` |

`HitNeverLost` speaks of the file; `SoundInv` says the same of the memory the file is written
from, and why it stays so. The range is divided without gap or overlap (`CutsInOrder`, `CutsCover`). Open
units have different ids and disjoint ranges, although a unit that is over may have the id of an open
one. Every thread scans a unit of its own and passes a hit only after one was found
(`NoHitBehind`), and of what was found one is on disk or being saved (`FoundIsSaved`), in which case its
nonce is still waiting. No hypothesis on the ids is needed: a progress report that reaches an older
unit of the same id moves nothing, so a hit is at worst scanned twice.

`CleanStopIsExact` does need it. `ExactInv` says that a thread is ahead of the cursor of its unit by
exactly what it has not published (`Pace`) and that a nonce of the range was hashed or is left
before the thread of its unit, never both (`Accounted`). Both fail when a report goes to another unit
(section 6). `OneSearchIsExact` shows the hypothesis to be that of the ordinary use: while only one
range of one header is searched, a process finds its own units in the file and adds none.

### ShareSubmission

`ShareSubmissionProofs` proves, from `SubmissionAssumption` (any finds, verdicts of the pool, buffer, number of
jobs, lost connections, failed writes and kills):

| Theorem | Statement |
|---|---|
| `SubmissionInvariant` | `Spec => []SubmissionInv` |
| `DurableBeforeSubmitHolds` | `Spec => []DurableBeforeSubmit` |
| `AnswersMatchHolds` | `Spec => []AnswersMatch` |
| `AnswerIsFinalHolds` | `Spec => AnswerIsFinal` |
| `RecordsInvHolds` | `Spec => []RecordsInv` |

`SubmissionInv` is inductive; its parts are what each result needs. `Calls`: a worker holds
`submissions_mutex` exactly from the draw of its id to the update of the files. `SavedFirst`: from the
decision to submit on, the solution is on disk. `Once`, `FiledOnce`: a solution is in one hand, in one queue
or filed, under one id. `TakenIsKnown`: the id a callback has taken is filed already, or held by the worker that
owns the mutex and will file it before the callback looks; this is why an early answer finds its
solution. `ResultIsAlone`, `Settled`: a solution whose answer is being written or was written is nowhere else, so
nothing writes over it. `Tracked`: memory and record file agree, and the worker between the file and the
history holds the tracker's mutex with a hash better than all of the history. `AllCovered`: while no write failed
and nothing was killed, every reported hash has something at least as good in the record file or still to be
observed, and so has the best hash each worker measures against.

### ContextCampaign

`ContextCampaignProofs` proves, from `CampaignAssumption` (any manifest and partition, any number of artifacts,
of consoles that study at once, of commands and crashes, with and without torn lines):

| Theorem | Statement |
|---|---|
| `CampaignInvariant` | `Spec => []CampaignInv` |
| `RowsInvHolds` | `Spec => []RowsInv` |
| `PartitionBarrierHolds` | `Spec => []PartitionBarrier` |
| `StudyIsWholeHolds` | `Spec => []StudyIsWhole` |
| `SettledIsFinalHolds` | `Spec => SettledIsFinal` |

`CampaignInv` is inductive. `RowsOK`: no row is twice in a file, labels are a subset of features, and a
scan that runs knows exactly what is written; it found the files readable, so a line that is still open
holds one row and the next row does not merge two. `CheckpointOK`: the checkpoint is behind the labels, and once
it is COMPLETE all blocks are labelled, which no later command undoes. `AnalysisOK`: what a command
holds while it writes was read behind the barrier, and only a command that opened the holdout saves an
evaluation. `StudyOK`: a directory exists only over a COMPLETE campaign and every file in it is made of all
discovery blocks, whichever console wrote it; `AtOK` says what each console under way knows of both
directories, and that one which writes a refinement has made the directory and all of its files, so that no other
console is doing the same. `SettledIsFinal` follows step by step: a command writes the evaluation or a file of
phase 2 only if it is under way past its check, which the settled state excludes, and no command gets past that check
any more because the file exists; the directory of a refinement is taken by whoever creates it.

### TrajectoryCampaign

`TrajectoryCampaignProofs` proves, from `TrajectoryAssumption` (any manifest, discovery partition, number of
workers, commands, kills, exceptions, refusals and damaged files):

| Theorem | Statement |
|---|---|
| `TrajectoryInvariant` | `Spec => []TrajectoryInv` |
| `PoolInvHolds` | `Spec => []PoolInv` |
| `AnalysisIsWholeHolds` | `Spec => []AnalysisIsWhole` |
| `CompleteStaysHolds` | `Spec => CompleteStays` |

`TrajectoryInv` is inductive. `ClaimsOK`: a task below `next_task` is in the hands of one worker, in a list or
handled; only an exception loses one. `QueueOK`: the queue and the ready list hold no task twice or in common, and
of the ready ones only the first may have been handled, while its files are written. `EndOK`: a worker leaves
only when `next_task` has passed the end or something was thrown, and `all`, the coordinator's copy of the
predicate, is set after the last of them left, with the queue empty; hence no result can come after the
last swap, and at `join` everything is handled. `CapturesOK` ties the tasks to the files: a pending block is
captured exactly if its task was handled, so the handler's quarantine meets only incomplete captures, which is
`CompleteStays`. `RecordsOK`: the captures that are or once were complete never become fewer, so neither the
checkpoint nor an analysis begun over a COMPLETE one is ever ahead of them. That the sorted tasks of a command are its
incomplete blocks, each once (`OrderIsExact`), is proved by a least counterexample.

### StateStore

The last part of `LiveMinerProofs` proves, for any set of states and any number of parts and attempts
(`StoreAssumption`), when the power does not fail under the build with streams
(`Supported == ~StreamPower`; section 6 says why it is needed):

| Theorem | Statement |
|---|---|
| `StoreInvHolds` | `StoreSpec => [](StoreTypeOK /\ StoreInv)` |
| `NeverRefusedHolds` | `StoreSpec => []NeverRefused` |
| `ImplementsAtomicFileHolds` | `StoreSpec => ImplementsAtomicFile` |

`StoreInv` is inductive: besides the file being absent or whole it says that the temporary
file holds parts of the state being saved and nothing older, all of them before the
rename, and that on Windows the device already holds the file. Under it the rename maps to
`Commit`, an error, a kill and a power failure to `GiveUp`, and everything else
changes neither the file its users see (`Seen`) nor the request. `Seen` shows a torn
file as itself, never as a state, so the refinement is not vacuous there.

### HeaderSpace

`HeaderSpaceProofs` proves, from `HeaderSpaceAssumption` (any number of nonces, any headers with a hit, any
requests, any power of two of work-items, tail thresholds that decrease as the code's do):

| Theorem | Statement |
|---|---|
| `CaptureIsExactHolds` | `Spec => []CaptureIsExact` |
| `MapIsExactHolds` | `Spec => []MapIsExact` |

`SparseInv` carries the capture. While a launch runs (`LaunchInv`), a work-item is at an offset of its own
(`OwnOffsets`), the counter is the number of hits that have drawn a slot (`CounterIsExact`), a slot below the capacity is
held by one work-item or filled (`SlotsAreOwn`) and what fills it is a hit that fills no other (`FilledAreHits`,
`FilledDiffer`). When the last work-item is through, all hits have a slot; if they fit, the buffer is the hits,
whatever the order of the increments, and if not, the counter says how many they are, so a
capacity is doubled or refused for the right reason.

`MapInv` carries the map. `Running` says that the zones downloaded so far are the first ones of the layout, each with
the figures of its own nonces, and `Writing` and `Published` follow them into the files. In a launch (`TreeInv`) the
figures a work-item holds at a stride are those of the nonces of its zone that are congruent to it modulo the width of
that step; a step of the reduction joins two classes and the last leaves the zone. This is where the power of two is
needed. The figures of a set of nonces are unique (minimum with its least nonce, counts), so what the CPU
computes for a zone it verifies is the same, and `exit = "mismatch"` cannot happen. What the recursions of the scan
and of the aggregation compute is proved by a least counterexample.

### WhiteBox

`WhiteBoxProofs` proves, for any set of specimens of the three contexts (`SpecimensAssumption`):

| Theorem | Statement |
|---|---|
| `SmallSigmaXor` | the sigmas of the message schedule map the exclusive or of two words to the exclusive or of their values |
| `SigmaDifferentialHolds` | `Spec => []SigmaDifferential`: in every round the difference of the recorded sigmas is the sigma of the difference of the registers |
| `PrescanIsExactHolds` | `Spec => []PrescanIsExact` |

The lemmas show linearity of rotation and shift over sets of bits; the invariant needed for the
second theorem is that the recorded sigmas are those of the recorded registers.

For the third the invariant is `PrescanInv`: the two hashes are equal throughout compression 0, and in
compression 1 they start from the same chaining state and have the same registers until the nonce enters in round 3; the
tail of the header gives every word of their schedules but the nonce and what comes from it (`IsTail`). What is computed
ahead is a sum of the operands without the nonce. That adding the rest afterwards is the sum of all operands, in the order
the traced addition takes them, is `SumOfFive`, from the carries of the two sums (`CarryProfileIs`).

### DiscoveryStudy

`DiscoveryStudyProofs` proves, from `StudyAssumption` (any finite numbers of rows, features and contexts of one or two
rows, any prevhashes, hash orders, labels, number of folds and of features to choose):

| Theorem | Statement |
|---|---|
| `OutOfFoldHolds` | `Spec => []OutOfFold` |
| `MaxStatisticIsExactHolds` | `Spec => []MaxStatisticIsExact` |

`OutOfFoldInv` is inductive: what is predicted for a row is what the outer fold of the row makes of the labels
of that world (`PredictionsOf`), the targets of the two worlds agree off the victim's rows (`LabelsAgree`, because a context score
is computed inside one context), and nothing is predicted before the ranks are prepared (`NothingPredicted`), so a
prediction never outlives the ranks it was made with. `VictimFoldSame` follows the labels through an outer fold: the features selected, the
inner splits, the errors that choose lambda and the fit depend on the responses of training rows only
(`SelectSame`, `SplitsSame`, `FitSame`, `OuterFoldSame`), and the rows of a prevhash are all in one fold (`FoldOfSame`), so
in the fold that predicts the victim no label that differs is used. The model is a free term, hence equality says that all inputs
of the fit are the same.

`MaxStatisticIsExact` needs no invariant: it holds of the test as an algorithm. The shuffles are a group (`ShuffleTwice`,
`BothPermutes`), so the shuffles of a shuffled table are all the shuffles and those as extreme as a shuffle are counted by its
statistic alone (`AsExtremeIs`); this fails as soon as the statistic of a shuffle is not a function of the shuffled
responses, as with a feature chosen before the shuffle. Of the shuffles with at most `k` as extreme, the one with the least
statistic (`LeastExtreme`) counts all the others. What remains is that statistics are integers, hence comparable: sums over
finite sets (`SumIsInt`) and maxima (`MaxIs`), by least counterexamples.

### Only model-checked

- `StatisticsAreExact` compares the Fenwick tree of `kendall_tau_b` and the two implementations of the primary statistic
  with their definitions: what folds over sequences and sets compute, for every input.
- `DigestsAreKnown` is about the values of real headers, so there is nothing to generalise; `AdditionIsExact` and
  `ComparisonIsConsistent` gather many small identities of the trace, which are checked on every addition of the
  specimens and are not proved.
- The liveness properties (`EveryUnitFinishes`, `ShutdownEnds`, `ScanEnds`, `CandidateEnds`, `ResumeLabelsAll`, `CommandEnds`)
  need fairness and `ENABLED` and are out of the prover's reach.

## 5. Not modelled

- Device detection, auto-tuning, telemetry, logging texts, configuration and UTF-8
  conversion carry no protocol state. `mark_generation_stale` has no caller.
- Stratum messages, header assembly, compact targets, difficulty, merkle folding: pure
  functions of one message or number, covered by the repository's test vectors; over
  256-bit inputs there is no small instance that would say more.
- `run_research`: one thread, whose sums and cursor are saved together; `run_benchmark`: no state.
- Reduced-round SHA-256 and the SHA-256 rounds inside the kernels, which repeat
  `Sha256`. In `HeaderSpace` and `ShareSubmission` hashes are data.
- In the studies: bootstraps, relative features, group analysis, the exported documents and the numeric
  solution of the ridge systems. Floating-point rounding is not modelled: the statistics are exact.
- The retention of old audit segments and `high_difficulty_shares.jsonl`, which nothing
  reads back.
- The analysis scripts under `tools/`, which read finished files.

## 6. Where the code and its documents disagree

One disagreement is a run: `Zombie` and its finding in `PROJECT.json`. A checkpoint between the
last `update_progress` of a unit and its `complete`, followed by a crash, leaves a unit that
`acquire` refuses and `prepare_live_job` counts as open, so that kind of worker stands still until
another job; `run_historical` waits for ever on such a unit.

The others were met while modelling. The model contains each of them unless its entry says otherwise, and the
properties of the runs are stated so as to leave room for it; each can be reproduced by the change
given.

- `cpu_miner.cpp:49`: a CPU worker that finds nothing to acquire leaves for good, although the last
  unit of its group brings a new group. README.md:15 speaks of 30 workers. (In `Stop`, a state with a
  worker at `done` while its generation is being mined.)
- `work_allocator.cpp:107`: the current job announced again with `clean_jobs=true` is mined again
  from extranonce2 0, and with size 0 the unfinished rest of the range is forgotten. README.md:191: "Une
  unité `COMPLETE` n'est jamais réattribuée." (`CleanRenotify = TRUE` in `Jobs`.)
- `mining_controller.cpp:1137`: a new job's `mark_all_stale` and its `prepare_live_job` (line 1154) are two
  steps. A periodic checkpoint between them and a kill leave a file all of whose units are stale; if the pool
  then sends that work again, its done nonces are allocated again, or, with size 0 and a complete unit, the
  stale rest is skipped. README.md:191 as above. This is why the proofs of section 4 assume `NoReturn`. (A clean
  change of job and a crash together, in `Crash`.)
- `work_allocator.cpp:290`: a second range over the same header, or a header that comes back after
  another one, gets units with the ids of the old ones, and its progress is recorded on those. No hit
  is lost (`ScanInvHolds`), but nonces are scanned again. README.md:189: "Un arrêt propre reprend exactement au
  `nonce_next` sauvegardé." (Two ranges of one header in `HistoricalResume`.)
- `state_store.cpp:139`: outside Windows there is no `fsync`; after a power failure `load_or` may refuse
  the file. README.md:190: "Après une coupure brutale, le dernier checkpoint atomique valide est
  repris". (`StreamPower = TRUE` in `StoreAtomic`.)
- `mining_controller.cpp:986`: the generation is read once, at the top of `on_candidate`; a job change
  after it does not keep the share from being sent. The comment at line 1010 says "stale Stratum work is
  never submitted".
- `best_pow_tracker.cpp:127`: a kill between the record file and the history loses the
  entry of that record for ever; `RecordsImprove` asks only for order.
- `context_campaign.cpp:846`: whether `holdout_evaluation.json` exists is asked at the start of an analysis, and
  the file is saved at line 1101, without a lock. Of two `analyze --finalize-holdout` that overlap on two consoles
  the second replaces the evaluation of the first. `docs/context_analyzer.md:44`: "évaluation finale créée une seule
  fois", and `:53`: "n'est jamais remplacé". (`[][evaluation # None => evaluation' = evaluation]_vars` in
  `CampaignResume`: 14 states.)
- `context_phase2.cpp:2784`: the same of `phase2`, which looks for its directory at line 2640 and ignores the result of
  `create_directory`. Of two that overlap, one writes over the files of the other, `audit.json` included, and
  a kill leaves a directory with files of both; a refinement may then rest on a study whose files have been
  replaced since. `docs/context_phase2.md:82`: "is never overwritten". The refinement requires at line 3045 that
  it created its directory, and is safe. (`[][Audited(phase2) => phase2' = phase2]_vars`: 26 states.)
  `SettledIsFinal` leaves room for both, and for nothing else.
- `context_campaign.cpp:693`: nothing keeps two consoles from running `resume` on one directory, and each would scan and
  append what the other does. The model has one scanning console, so that `RowsInv` says nothing of it.
- `state_store.cpp:80`: an existing checkpoint that cannot be opened, because another process has it locked, gives the
  fallback as a missing one does, and the next save replaces it. `save` tries such a file again, `load_or`
  does not. README.md:190 as above. (`Load` may go on whatever the file holds; what the process then knows is not
  part of `StateStore`, nor a cause of restarts in `LiveMiner`.)
- `context_campaign.cpp:760`: a kill between the last label row and the checkpoint. Every later resume
  finds all blocks labelled, saves no checkpoint and succeeds; its status stays RUNNING and
  `load_discovery` refuses the campaign for ever. `docs/context_analyzer.md:39`: "progression atomique et
  dernier B(J,e) durable".
- `context_campaign.cpp:1039`: an analysis without `--finalize-holdout` after the opening replaces the
  summary by one that says the holdout is sealed, and the seal that phase 2 checks is that summary.
  `docs/context_analyzer.md:53`: "L'ouverture est une action irréversible".
- `context_trajectory.cpp:1132`: a kill between the metadata of the last capture and the checkpoint. Every
  later resume finds nothing to capture, leaves the status RUNNING, and the analysis throws.
- `header_space_main.cpp:158`: with `--overwrite` the old file is removed before the rename. A kill in
  between leaves an old `summary.json` without `zones.csv`, although the summary calls itself the
  completion marker written after `zones.csv`. `MapIsExact` allows it after a first command only.
- `header_space_map.cl:210`: the counter of hits is 32 bits wide and would wrap to 0 if all 2^32 nonces
  were hits, which `HeaderSpaceAssumption` excludes.

## 7. Plan

What could be proved next, in the order of what it would say: `TopKDecomposes` and `ScoresAgree`, the two parts of
`StatisticsAreExact` that are identities between sums and unions over contexts; then the carries of `AdditionIsExact`, for
which `CarryProfileIs` is the first step.
