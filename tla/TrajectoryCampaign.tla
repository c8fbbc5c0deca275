-------------------------- MODULE TrajectoryCampaign --------------------------
(***************************************************************************)
(* A trajectory campaign (context_trajectory.cpp): `trajectory-new` and      *)
(* `trajectory-resume` capture the hits of every planned block with a        *)
(* bounded pool of GPU workers, whose results one coordinator verifies and   *)
(* writes; then the discovery blocks are analysed, once.  The process may    *)
(* be killed between any two writes, a scan may throw, and a result may fail *)
(* its verification.                                                       *)
(***************************************************************************)
EXTENDS Integers, Sequences, FiniteSets, Functions

CONSTANTS
  NBlocks,       \* the blocks of the manifest, 1..NBlocks
  Discovery,     \* those whose prevhash is in the discovery partition
  GpuWorkers,    \* --gpu-workers
  MaxCommands,   \* bound: commands started
  MaxTroubles,   \* bound: kills, scans that throw, results refused
  None

Blocks == 1..NBlocks

ASSUME TrajectoryAssumption ==
  /\ {NBlocks, GpuWorkers} \subseteq Nat \ {0}
  /\ Discovery \subseteq Blocks
  /\ {MaxCommands, MaxTroubles} \subseteq Nat

VARIABLES
  checkpoint,  \* checkpoint.json: [status, completed]; None: no campaign
  binary,      \* binary[b]: the capture file: "none", "whole", "bad"
  temporary,   \* its .tmp: "none", "part", "whole"
  metadata,    \* its .json: "none", "COMPLETE"
  invalid,     \* the number of files set aside as .invalid
  summary,     \* capture_summary.json: the captures it lists
  analysis,    \* analysis_discovery_v1: [read, done]; None: no directory
  co,          \* where the command (the coordinator thread) is
  completed,   \* its count of complete captures
  pending,     \* the blocks it found incomplete, as a sequence of tasks
  pool,        \* run_bounded_workers: what the threads share
  wk,          \* the workers: [pc, task]
  handled,     \* history: tasks the completion handler was called for
  damaged,     \* history: blocks whose capture was damaged on disk
  exit, commands, troubles

disk == <<checkpoint, binary, temporary, metadata, invalid, summary, analysis, damaged>>
vars == <<disk, co, completed, pending, pool, wk, handled, exit, commands, troubles>>

\* min(worker_count, task_count) threads.
Active == 1..(IF GpuWorkers < Len(pending) THEN GpuWorkers ELSE Len(pending))

NoPool == [next |-> 1, stop |-> FALSE, queue |-> <<>>, finished |-> 0, ready |-> <<>>,
           all |-> FALSE, refused |-> FALSE, threw |-> FALSE]
NoThread == [pc |-> "none", task |-> 0]

Init ==
  /\ checkpoint = None /\ invalid = 0
  /\ binary = [b \in Blocks |-> "none"] /\ temporary = [b \in Blocks |-> "none"]
  /\ metadata = [b \in Blocks |-> "none"] /\ summary = None /\ analysis = None
  /\ damaged = {}
  /\ co = "idle" /\ completed = 0 /\ pending = <<>> /\ pool = NoPool
  /\ wk = [i \in 1..GpuWorkers |-> NoThread] /\ handled = {}
  /\ exit = "none" /\ commands = 0 /\ troubles = 0

Trouble == troubles < MaxTroubles /\ troubles' = troubles + 1

\* The blocks of S as the loop over the manifest meets them.
InManifestOrder(S) ==
  CHOOSE s \in [1..Cardinality(S) -> S] : \A i, j \in 1..Cardinality(S) : i < j => s[i] < s[j]

\* capture_is_complete: both files are there, agree, and the checksum holds.
CaptureIsComplete(b) == binary[b] = "whole" /\ metadata[b] = "COMPLETE"

Start(place) ==
  /\ co = "idle" /\ commands < MaxCommands /\ commands' = commands + 1
  /\ co' = place /\ exit' = "none"

\* The command ends; its threads are joined, its memory is gone.
Finish(how) ==
  /\ co' = "idle" /\ exit' = how
  /\ completed' = 0 /\ pending' = <<>> /\ pool' = NoPool /\ handled' = {}
  /\ wk' = [i \in 1..GpuWorkers |-> NoThread]

memory == <<completed, pending, pool, wk, handled>>

-----------------------------------------------------------------------------
(* create_campaign, then resume_campaign. *)
New ==
  /\ checkpoint = None /\ Start("load")
  /\ checkpoint' = [status |-> "PLANNED", completed |-> 0]
  /\ UNCHANGED <<binary, temporary, metadata, invalid, summary, analysis, damaged, memory, troubles>>

Resume ==
  /\ checkpoint # None /\ Start("load")
  /\ UNCHANGED <<disk, memory, troubles>>

\* Mutant of Load: the command starts over.
LoadAfresh ==
  /\ co = "load" /\ co' = "spawn"
  /\ completed' = 0 /\ pending' = InManifestOrder(Blocks)
  /\ UNCHANGED <<disk, pool, wk, handled, exit, commands, troubles>>

\* What is complete is verified again, the rest is the work of this command.
Load ==
  /\ co = "load"
  /\ completed' = Cardinality({b \in Blocks : CaptureIsComplete(b)})
  /\ pending' = InManifestOrder({b \in Blocks : ~CaptureIsComplete(b)})
  /\ co' = IF \A b \in Blocks : CaptureIsComplete(b) THEN "refresh" ELSE "spawn"
  /\ UNCHANGED <<disk, pool, wk, handled, exit, commands, troubles>>

\* run_gpu_workload: one scanner for each worker, then the threads.
Spawn ==
  /\ co = "spawn" /\ co' = "wait"
  /\ wk' = [i \in 1..GpuWorkers |-> IF i \in Active THEN [pc |-> "claim", task |-> 0]
                                                    ELSE NoThread]
  /\ UNCHANGED <<disk, completed, pending, pool, handled, exit, commands, troubles>>

\* The kernel is not the frozen one, or a scanner cannot be made.
SpawnFails ==
  /\ co = "spawn" /\ Trouble /\ Finish("failed")
  /\ UNCHANGED <<disk, commands>>

-----------------------------------------------------------------------------
(* A worker of run_bounded_workers. *)
At(i, pc) == wk[i].pc = pc
Go(i, pc) == wk' = [wk EXCEPT ![i].pc = pc]

pooled == <<disk, co, completed, pending, handled, exit, commands>>

\* Mutant of Claim: the last task is taken by whoever comes.
ClaimAgain(i) ==
  /\ At(i, "claim")
  /\ IF pool.stop \/ pool.next > Len(pending) + 1
       THEN Go(i, "finish") /\ UNCHANGED pool
       ELSE /\ pool' = [pool EXCEPT !.next = @ + 1]
            /\ wk' = [wk EXCEPT ![i] = [pc |-> "scan", task |-> IF pool.next > Len(pending)
                                                                 THEN Len(pending) ELSE pool.next]]
  /\ UNCHANGED <<pooled, troubles>>

\* The head of the loop: the stop flag, then fetch_add on next_task.
Claim(i) ==
  /\ At(i, "claim")
  /\ IF pool.stop \/ pool.next > Len(pending)
       THEN Go(i, "finish") /\ UNCHANGED pool
       ELSE /\ pool' = [pool EXCEPT !.next = @ + 1]
            /\ wk' = [wk EXCEPT ![i] = [pc |-> "scan", task |-> pool.next]]
  /\ UNCHANGED <<pooled, troubles>>

\* The scan returns and its task is queued under state_mutex.
Push(i) ==
  /\ At(i, "scan")
  /\ pool' = [pool EXCEPT !.queue = Append(@, wk[i].task)]
  /\ wk' = [wk EXCEPT ![i] = [pc |-> "notify", task |-> 0]]
  /\ UNCHANGED <<pooled, troubles>>

\* The scan throws: the first exception is kept, then everybody is stopped and
\* the coordinator told.
Throw(i) ==
  /\ At(i, "scan") /\ Trouble
  /\ pool' = [pool EXCEPT !.threw = TRUE, !.stop = TRUE]
  /\ wk' = [wk EXCEPT ![i] = [pc |-> "alarm", task |-> 0]]
  /\ UNCHANGED pooled

AfterNotify == [notify |-> "claim", alarm |-> "finish", bye |-> "gone"]

\* notify_one: the coordinator, if it sleeps, looks at its predicate again.
Notify(i) ==
  /\ wk[i].pc \in DOMAIN AfterNotify
  /\ Go(i, AfterNotify[wk[i].pc])
  /\ co' = IF co = "asleep" THEN "wait" ELSE co
  /\ UNCHANGED <<disk, completed, pending, pool, handled, exit, commands, troubles>>

\* Mutant of FinishWorker: a worker that finds no task leaves without a word.
FinishQuietly(i) ==
  /\ At(i, "finish")
  /\ pool' = [pool EXCEPT !.finished = @ + 1] /\ Go(i, "gone")
  /\ UNCHANGED <<pooled, troubles>>

FinishWorker(i) ==
  /\ At(i, "finish")
  /\ pool' = [pool EXCEPT !.finished = @ + 1] /\ Go(i, "bye")
  /\ UNCHANGED <<pooled, troubles>>

Worker(i) == Claim(i) \/ Push(i) \/ Notify(i) \/ FinishWorker(i)

-----------------------------------------------------------------------------
(* The coordinator.  The predicate of the condition variable is evaluated and
   the queue swapped under state_mutex. *)
AllFinished == pool.finished = Cardinality(Active)

Wait ==
  /\ co = "wait"
  /\ IF pool.queue = <<>> /\ ~AllFinished
       THEN co' = "asleep" /\ UNCHANGED pool
       ELSE /\ co' = "handle"
            /\ pool' = [pool EXCEPT !.ready = pool.queue, !.queue = <<>>, !.all = AllFinished]
  /\ UNCHANGED <<disk, completed, pending, wk, handled, exit, commands, troubles>>

\* Nothing (more) to handle, or a result was refused before: what is ready is
\* dropped.  The loop ends when every worker had finished at the swap and the
\* queue is still empty.
Drained ==
  /\ co = "handle" /\ (pool.ready = <<>> \/ pool.refused)
  /\ pool' = [pool EXCEPT !.ready = <<>>]
  /\ co' = IF pool.all /\ pool.queue = <<>> THEN "join" ELSE "wait"
  /\ UNCHANGED <<disk, completed, pending, wk, handled, exit, commands, troubles>>

Task == Head(pool.ready)
Block == pending[Task]

\* The completion handler of resume_campaign verifies the hits on the CPU...
Verify ==
  /\ co = "handle" /\ pool.ready # <<>> /\ ~pool.refused
  /\ handled' = handled \cup {Task} /\ co' = "quarantine"
  /\ UNCHANGED <<disk, completed, pending, pool, wk, exit, commands, troubles>>

\* ... and may refuse them: nothing is written any more, the workers are stopped.
Refuse ==
  /\ co = "handle" /\ pool.ready # <<>> /\ ~pool.refused /\ Trouble
  /\ handled' = handled \cup {Task}
  /\ pool' = [pool EXCEPT !.refused = TRUE, !.stop = TRUE]
  /\ UNCHANGED <<disk, co, completed, pending, wk, exit, commands>>

\* quarantine_if_present on the capture, on its metadata, on its temporary.
Quarantine ==
  /\ co = "quarantine"
  /\ \/ /\ binary[Block] # "none" /\ binary' = [binary EXCEPT ![Block] = "none"]
        /\ UNCHANGED <<metadata, temporary, co>> /\ invalid' = invalid + 1
     \/ /\ binary[Block] = "none" /\ metadata[Block] # "none"
        /\ metadata' = [metadata EXCEPT ![Block] = "none"]
        /\ UNCHANGED <<binary, temporary, co>> /\ invalid' = invalid + 1
     \/ /\ binary[Block] = "none" /\ metadata[Block] = "none"
        /\ temporary' = [temporary EXCEPT ![Block] = "none"]
        /\ invalid' = IF temporary[Block] = "none" THEN invalid ELSE invalid + 1
        /\ co' = "write" /\ UNCHANGED <<binary, metadata>>
  /\ UNCHANGED <<checkpoint, summary, analysis, damaged, completed, pending, pool, wk,
                 handled, exit, commands, troubles>>

WriteTemporary ==
  /\ co = "write" /\ co' = "rename"
  /\ temporary' = [temporary EXCEPT ![Block] = "whole"]
  /\ UNCHANGED <<checkpoint, binary, metadata, invalid, summary, analysis, damaged, completed,
                 pending, pool, wk, handled, exit, commands, troubles>>

Rename ==
  /\ co = "rename" /\ co' = "metadata"
  /\ binary' = [binary EXCEPT ![Block] = temporary[Block]]
  /\ temporary' = [temporary EXCEPT ![Block] = "none"]
  /\ UNCHANGED <<checkpoint, metadata, invalid, summary, analysis, damaged, completed,
                 pending, pool, wk, handled, exit, commands, troubles>>

SaveMetadata ==
  /\ co = "metadata" /\ co' = "checkpoint"
  /\ metadata' = [metadata EXCEPT ![Block] = "COMPLETE"]
  /\ completed' = completed + 1
  /\ UNCHANGED <<checkpoint, binary, temporary, invalid, summary, analysis, damaged,
                 pending, pool, wk, handled, exit, commands, troubles>>

SaveCheckpoint ==
  /\ co = "checkpoint" /\ co' = "handle"
  /\ checkpoint' = [status |-> IF completed = NBlocks THEN "COMPLETE" ELSE "RUNNING",
                    completed |-> completed]
  /\ pool' = [pool EXCEPT !.ready = Tail(@)]
  /\ UNCHANGED <<binary, temporary, metadata, invalid, summary, analysis, damaged, completed,
                 pending, wk, handled, exit, commands, troubles>>

\* The threads are joined; an exception, the handler's first, ends the command.
Join ==
  /\ co = "join" /\ \A i \in Active : At(i, "gone")
  /\ IF pool.refused \/ pool.threw
       THEN Finish("failed")
       ELSE co' = "refresh" /\ UNCHANGED <<memory, exit>>
  /\ UNCHANGED <<disk, commands, troubles>>

Refresh ==
  /\ co = "refresh"
  /\ summary' = {b \in Blocks : CaptureIsComplete(b)}
  /\ IF analysis = None
       THEN co' = "analyze" /\ UNCHANGED <<memory, exit>>
       ELSE Finish(IF completed = NBlocks THEN "ok" ELSE "partial")
  /\ UNCHANGED <<checkpoint, binary, temporary, metadata, invalid, analysis, damaged,
                 commands, troubles>>

-----------------------------------------------------------------------------
(* analyze_campaign, at the end of a capture or as `trajectory-analyze`. *)
Analyze ==
  /\ checkpoint # None /\ Start("analyze")
  /\ UNCHANGED <<disk, memory, troubles>>

\* Mutant of CreateAnalysis: the status of the campaign is not looked at.
CreateAnalysisEarly ==
  /\ co = "analyze"
  /\ IF analysis = None
       THEN /\ analysis' = [read |-> {}, done |-> FALSE] /\ co' = "captures"
            /\ UNCHANGED <<memory, exit>>
       ELSE Finish("failed") /\ UNCHANGED analysis
  /\ UNCHANGED <<checkpoint, binary, temporary, metadata, invalid, summary, damaged,
                 commands, troubles>>

CreateAnalysis ==
  /\ co = "analyze"
  /\ IF checkpoint.status = "COMPLETE" /\ analysis = None
       THEN /\ analysis' = [read |-> {}, done |-> FALSE] /\ co' = "captures"
            /\ UNCHANGED <<memory, exit>>
       ELSE Finish("failed") /\ UNCHANGED analysis
  /\ UNCHANGED <<checkpoint, binary, temporary, metadata, invalid, summary, damaged,
                 commands, troubles>>

\* Each discovery capture is verified once more, then read; the others are not.
ReadCaptures ==
  /\ co = "captures"
  /\ IF \A b \in Discovery : CaptureIsComplete(b)
       THEN /\ analysis' = [analysis EXCEPT !.read = Discovery] /\ co' = "conclude"
            /\ UNCHANGED <<memory, exit>>
       ELSE Finish("failed") /\ UNCHANGED analysis
  /\ UNCHANGED <<checkpoint, binary, temporary, metadata, invalid, summary, damaged,
                 commands, troubles>>

SaveAnalysis ==
  /\ co = "conclude"
  /\ analysis' = [analysis EXCEPT !.done = TRUE] /\ Finish("ok")
  /\ UNCHANGED <<checkpoint, binary, temporary, metadata, invalid, summary, damaged,
                 commands, troubles>>

-----------------------------------------------------------------------------
(* The process is killed; a file being written may be there in part. *)
Kill ==
  /\ co # "idle" /\ Trouble /\ Finish("killed")
  /\ \/ temporary' = temporary
     \/ co = "write" /\ temporary' = [temporary EXCEPT ![Block] = "part"]
  /\ UNCHANGED <<checkpoint, binary, metadata, invalid, summary, analysis, damaged, commands>>

\* A capture is damaged where it lies; its checksum will tell.
Damage(b) ==
  /\ co = "idle" /\ CaptureIsComplete(b) /\ Trouble
  /\ binary' = [binary EXCEPT ![b] = "bad"] /\ damaged' = damaged \cup {b}
  /\ UNCHANGED <<checkpoint, temporary, metadata, invalid, summary, analysis, co,
                 memory, exit, commands>>

Coordinator ==
  \/ Load \/ Spawn \/ Wait \/ Drained \/ Verify \/ Quarantine \/ WriteTemporary
  \/ Rename \/ SaveMetadata \/ SaveCheckpoint \/ Join \/ Refresh
  \/ CreateAnalysis \/ ReadCaptures \/ SaveAnalysis

Next ==
  \/ New \/ Resume \/ Analyze \/ Coordinator \/ SpawnFails \/ Refuse \/ Kill
  \/ \E b \in Blocks : Damage(b)
  \/ \E i \in Active : Worker(i) \/ Throw(i)

Spec == Init /\ [][Next]_vars

(* The operating system runs every thread; a scan of 2^32 nonces ends. *)
FairSpec ==
  Spec /\ WF_vars(Coordinator) /\ \A i \in 1..GpuWorkers : WF_vars(i \in Active /\ Worker(i))

-----------------------------------------------------------------------------
TypeOK ==
  /\ checkpoint \in [status : {"PLANNED", "RUNNING", "COMPLETE"}, completed : 0..NBlocks]
                      \cup {None}
  /\ binary \in [Blocks -> {"none", "whole", "bad"}] /\ metadata \in [Blocks -> {"none", "COMPLETE"}]
  /\ temporary \in [Blocks -> {"none", "part", "whole"}] /\ invalid \in Nat
  /\ pool.next \in 1..Len(pending) + 1 /\ pool.finished \in 0..GpuWorkers
  /\ completed \in 0..NBlocks /\ exit \in {"none", "ok", "partial", "failed", "killed"}

\* The tasks in the hands of a worker, in the queue, or taken from it.
InHand == {wk[i].task : i \in {j \in 1..GpuWorkers : wk[j].pc = "scan"}}
Queued == Range(pool.queue) \cup Range(pool.ready)

(* A task is scanned by one worker and handled once, and none is lost on the way
   through the queue: when the pool ends without an exception every pending
   block has been handled, and its capture is on disk. *)
NothingLost ==
  /\ IsInjective(pool.queue \o pool.ready)
  /\ co = "handle" /\ ~pool.refused => Queued \cap handled = {}
  /\ InHand \cap (Queued \cup handled) = {}
  /\ \A i, j \in 1..GpuWorkers :
       wk[i].pc = "scan" /\ wk[j].pc = "scan" /\ wk[i].task = wk[j].task => i = j
  /\ (co = "join" /\ ~pool.refused /\ ~pool.threw) => Cardinality(handled) = Len(pending)
  /\ co = "refresh" => \A b \in Blocks : CaptureIsComplete(b)

(* Whatever is killed or refused, a complete capture stays complete until it is
   damaged, and the checkpoint counts no capture that was never complete. *)
CompleteStays ==
  [][\A b \in Blocks : CaptureIsComplete(b) /\ b \notin damaged' => CaptureIsComplete(b)']_vars

CheckpointNotAhead ==
  checkpoint # None =>
    checkpoint.completed <= Cardinality({b \in Blocks : CaptureIsComplete(b)} \cup damaged)

(* The invariant of the pool and of its captures: types, tasks handed over once,
   and a checkpoint that is behind the captures. *)
PoolInv == TypeOK /\ NothingLost /\ CheckpointNotAhead

(* The immutable analysis directory is made only of a campaign whose captures
   were all there, and from discovery captures that are whole as it reads them:
   a status that is stale because of damage does not let a bad capture in. *)
AnalysisIsWhole ==
  /\ analysis # None => \A b \in Blocks : CaptureIsComplete(b) \/ b \in damaged
  /\ analysis # None => analysis.read \in {{}, Discovery}
  /\ co = "conclude" => \A b \in analysis.read : CaptureIsComplete(b)

(* The coordinator is never left asleep: with every worker gone, a worker or the
   handler throwing, or nothing to do, the command ends. *)
CommandEnds == (co # "idle") ~> (co = "idle")
=============================================================================
