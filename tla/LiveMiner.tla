------------------------------ MODULE LiveMiner ------------------------------
(***************************************************************************)
(* The live miner: the threads that share one WorkAllocator and its         *)
(* checkpoint file.                                                        *)
(*                                                                         *)
(*   - the network thread of StratumClient, which runs every callback of    *)
(*     MiningController::run_live (stratum_client.cpp, mining_controller);  *)
(*   - the CPU workers (cpu_miner.cpp) and the GPU thread (gpu_miner.cpp);  *)
(*   - the main thread: periodic checkpoints and the shutdown sequence;     *)
(*   - the pool, the operator and the power supply, which are free.         *)
(*                                                                         *)
(* An action is the code between two accesses to shared state.  Everything  *)
(* a callback does runs on the network thread, so control_mutex is implied. *)
(***************************************************************************)
EXTENDS WorkAllocator

CONSTANTS
  CpuEnabled,      \* config.cpu.enabled
  Reconnect,       \* config.ckpool.reconnect
  Batch,           \* blocks between two update_progress calls of a worker
  BadJobs,         \* jobs whose nBits or difficulty the target code refuses
  CleanFlags,      \* the values of clean_jobs the pool sends
  CleanRenotify,   \* may the pool repeat the current job with clean_jobs?
  MaxGeneration,   \* bound: notifications and disconnections stop there
  MaxCrashes,      \* bound on the restarts of the process
  CanShutdown,     \* does the operator ever press Ctrl+C?
  MaxTicks,        \* bound on the periodic checkpoints of one process
  None             \* no job, no extranonce1, no checkpoint under way

ASSUME MinerAssumption ==
  /\ CpuEnabled \in BOOLEAN /\ Reconnect \in BOOLEAN /\ CleanRenotify \in BOOLEAN
  /\ CanShutdown \in BOOLEAN
  /\ Batch \in Nat \ {0}
  /\ CleanFlags \subseteq BOOLEAN
  /\ MaxGeneration \in Nat /\ MaxCrashes \in Nat /\ MaxTicks \in Nat
  /\ None \notin Jobs \X BOOLEAN /\ None \notin Ex1s /\ None \notin Allocator

VARIABLES
  al,           \* the allocator
  disk,         \* state/live_state.json
  snap,         \* snap[p]: what p is saving; checkpoint_mutex_ is held meanwhile
  generation,   \* active_generation
  thr,          \* the worker threads
  net,          \* the network thread
  session,      \* subscribed, authorized, extranonce1 and pending_job
  main,         \* where the main thread is
  hashed,       \* history: the nonces hashed for the current work, those a
                \* failed GPU batch or a crash threw away excepted
  crashes,      \* restarts so far
  ticks         \* periodic checkpoints of this process so far

vars == <<al, disk, snap, generation, thr, net, session, main, hashed, crashes, ticks>>

CpuThreads == 1..CpuCount
Gpu == 0
Threads == CpuThreads \cup {Gpu}
KindOf(t) == IF t = Gpu THEN "gpu" ELSE "cpu"

Savers == {"net", "main"}

NoId == <<"cpu", 0, 0, 0>>

(* No thread object: what CpuMiner::workers_ does not hold. *)
NoThread == [pc |-> "none", work |-> NoWork, gen |-> 0, id |-> NoId, x |-> 0,
             next |-> 0, end |-> 0, pending |-> 0, stop |-> FALSE]

(* A thread whose function has returned and that nobody has joined yet. *)
Returned(th) == [NoThread EXCEPT !.pc = "done", !.stop = th.stop]

NewThread(pc, w) == [NoThread EXCEPT !.pc = pc, !.work = w, !.gen = net.gen]

Idle(t) == thr[t].pc \in {"none", "done"}

(* The thread holds a unit it acquired. *)
Holds(t) ==
  \/ thr[t].pc \in {"scan", "settle"}
  \/ t = Gpu /\ thr[t].pc = "check"

(* token.stop_requested() or another generation *)
Halted(t) == thr[t].stop \/ generation # thr[t].gen

Stopped(th) == IF th.pc = "none" THEN th ELSE [th EXCEPT !.stop = TRUE]

RequestStop(S) == [t \in Threads |-> IF t \in S THEN Stopped(thr[t]) ELSE thr[t]]

(* The CPU threads are joined; gpu->stop() is next. *)
CpuJoined == [t \in Threads |-> IF t = Gpu THEN Stopped(thr[t]) ELSE NoThread]

Go(t, pc) == thr' = [thr EXCEPT ![t].pc = pc]
Return(t) == thr' = [thr EXCEPT ![t] = Returned(@)]

-----------------------------------------------------------------------------
(***************************************************************************)
(* A process starts with what the checkpoint file holds.                   *)
(***************************************************************************)
Boot(saved) ==
  /\ ticks' = 0
  /\ al' = LoadExisting(saved)
  /\ hashed' = saved.done
  /\ snap' = [p \in Savers |-> None]
  /\ generation' = 0
  /\ thr' = [t \in Threads |-> NoThread]
  /\ net' = [pc |-> "sleep", job |-> None, op |-> "launch", gen |-> 0]
  /\ session' = [subscribed |-> FALSE, authorized |-> FALSE,
                 ex1 |-> None, pending |-> None]

Init ==
  /\ al = EmptyAllocator /\ disk = EmptyAllocator
  /\ hashed = {}
  /\ snap = [p \in Savers |-> None]
  /\ generation = 0
  /\ thr = [t \in Threads |-> NoThread]
  /\ net = [pc |-> "sleep", job |-> None, op |-> "launch", gen |-> 0]
  /\ session = [subscribed |-> FALSE, authorized |-> FALSE, ex1 |-> None, pending |-> None]
  /\ main = "run"
  /\ crashes = 0 /\ ticks = 0

-----------------------------------------------------------------------------
(***************************************************************************)
(* CPU workers and the GPU thread.                                         *)
(*                                                                         *)
(* The head of the while loop.  The GPU thread holds a unit there, and      *)
(* leaves without releasing it when the generation has moved on.           *)
(***************************************************************************)
Check(t) ==
  /\ thr[t].pc = "check"
  /\ IF Halted(t) THEN Return(t) ELSE Go(t, IF t = Gpu THEN "scan" ELSE "acquire")
  /\ UNCHANGED <<al, disk, snap, generation, net, session, main, hashed, crashes, ticks>>

(* acquire finds a unit: the worker takes a copy of it. *)
AcquireUnit(t) ==
  /\ thr[t].pc = "acquire"
  /\ \E u \in FirstAcquirable(al, KindOf(t)) :
       /\ al' = Acquired(al, u)
       /\ thr' = [thr EXCEPT ![t].pc = IF t = Gpu THEN "check" ELSE "scan",
                             ![t].id = Id(u), ![t].x = u.x, ![t].next = u.next,
                             ![t].end = u.end, ![t].pending = 0]
  /\ UNCHANGED <<disk, snap, generation, net, session, main, hashed, crashes, ticks>>

(* acquire finds none: the thread function returns. *)
AcquireNone(t) ==
  /\ thr[t].pc = "acquire"
  /\ Acquirable(al, KindOf(t)) = {}
  /\ Return(t)
  /\ UNCHANGED <<al, disk, snap, generation, net, session, main, hashed, crashes, ticks>>

(***************************************************************************)
(* One block of nonces; the cursor is published every Batch blocks.         *)
(***************************************************************************)
Hash(t) ==
  /\ thr[t].pc = "scan" /\ thr[t].next < thr[t].end /\ ~Halted(t)
  /\ hashed' = hashed \cup {<<thr[t].x, thr[t].next>>}
  /\ IF thr[t].pending + 1 = Batch
     THEN /\ al' = UpdateProgress(al, thr[t].id, thr[t].next + 1)
          /\ thr' = [thr EXCEPT ![t].next = @ + 1, ![t].pending = 0]
     ELSE /\ thr' = [thr EXCEPT ![t].next = @ + 1, ![t].pending = @ + 1]
          /\ UNCHANGED al
  /\ UNCHANGED <<disk, snap, generation, net, session, main, crashes, ticks>>

(* The end of the range or a stop request: what is pending is published. *)
LeaveLoop(t) ==
  /\ thr[t].pc = "scan"
  /\ thr[t].next >= thr[t].end \/ Halted(t)
  /\ al' = IF thr[t].pending = 0 THEN al ELSE UpdateProgress(al, thr[t].id, thr[t].next)
  /\ thr' = [thr EXCEPT ![t].pc = "settle", ![t].pending = 0]
  /\ UNCHANGED <<disk, snap, generation, net, session, main, hashed, crashes, ticks>>

\* Mutant of CompleteUnit: an interrupted unit is completed too.
CompleteUnitAlways(t) ==
  /\ thr[t].pc = "settle"
  /\ ~CompleteThrows(al, thr[t].id)
  /\ al' = Complete(al, thr[t].id)
  /\ IF t # Gpu THEN Go(t, "check") ELSE IF Halted(t) THEN Return(t) ELSE Go(t, "acquire")
  /\ UNCHANGED <<disk, snap, generation, net, session, main, hashed, crashes, ticks>>

\* Mutant of CompleteUnit: a worker leaves once its first unit is complete.
CompleteUnitAndRetire(t) ==
  /\ thr[t].pc = "settle" /\ thr[t].next >= thr[t].end
  /\ ~CompleteThrows(al, thr[t].id)
  /\ al' = Complete(al, thr[t].id)
  /\ Return(t)
  /\ UNCHANGED <<disk, snap, generation, net, session, main, hashed, crashes, ticks>>

(* The GPU thread looks at the generation once more before the next unit. *)
CompleteUnit(t) ==
  /\ thr[t].pc = "settle" /\ thr[t].next >= thr[t].end
  /\ ~CompleteThrows(al, thr[t].id)
  /\ al' = Complete(al, thr[t].id)
  /\ IF t # Gpu THEN Go(t, "check") ELSE IF Halted(t) THEN Return(t) ELSE Go(t, "acquire")
  /\ UNCHANGED <<disk, snap, generation, net, session, main, hashed, crashes, ticks>>

ReleaseUnit(t) ==
  /\ thr[t].pc = "settle" /\ thr[t].next < thr[t].end
  /\ al' = Release(al, thr[t].id)
  /\ IF t = Gpu THEN Return(t) ELSE Go(t, "check")
  /\ UNCHANGED <<disk, snap, generation, net, session, main, hashed, crashes, ticks>>

(* The extranonce2 values are used up: the GPU thread catches the exception. *)
GpuExhausted ==
  /\ thr[Gpu].pc = "settle" /\ thr[Gpu].next >= thr[Gpu].end
  /\ CompleteThrows(al, thr[Gpu].id)
  /\ al' = Release(HalfCompleted(al, thr[Gpu].id), thr[Gpu].id)
  /\ Return(Gpu)
  /\ UNCHANGED <<disk, snap, generation, net, session, main, hashed, crashes, ticks>>

(* No handler on a CPU worker: std::terminate.  What a restart would find is
   all that is left. *)
CpuExhausted(t) ==
  /\ t # Gpu /\ thr[t].pc = "settle" /\ thr[t].next >= thr[t].end
  /\ CompleteThrows(al, thr[t].id)
  /\ Boot(disk) /\ main' = "dead"
  /\ UNCHANGED <<disk, crashes>>

(* An OpenCL call fails: the unit goes back, the blocks of the batch are lost. *)
GpuFail ==
  /\ thr[Gpu].pc \in {"check", "scan"}
  /\ al' = Release(al, thr[Gpu].id)
  /\ hashed' = hashed \ ({thr[Gpu].x} \X ((thr[Gpu].next - thr[Gpu].pending) .. (thr[Gpu].next - 1)))
  /\ Return(Gpu)
  /\ UNCHANGED <<disk, snap, generation, net, session, main, crashes, ticks>>

Worker(t) ==
  Check(t) \/ AcquireUnit(t) \/ AcquireNone(t) \/ Hash(t) \/ LeaveLoop(t)
    \/ CompleteUnit(t) \/ ReleaseUnit(t) \/ CpuExhausted(t)

-----------------------------------------------------------------------------
(***************************************************************************)
(* The network thread.  Stopping is set while StratumClient::stop asks it   *)
(* to end; the read loop then ends after the message at hand.              *)
(***************************************************************************)
Stopping == main \in {"join_net", "snap", "save", "exited", "dead"}

BeginStop(pc, job, op) ==
  /\ generation' = generation + 1
  /\ thr' = RequestStop(CpuThreads)
  /\ net' = [pc |-> pc, job |-> job, op |-> op, gen |-> 0]

Connect ==
  /\ net.pc = "sleep" /\ ~Stopping
  /\ net' = [net EXCEPT !.pc = "idle"]
  /\ UNCHANGED <<al, disk, snap, generation, thr, session, main, hashed, crashes, ticks>>

(***************************************************************************)
(* launch_job: a new generation, then cpu->stop() and gpu->stop(), which    *)
(* return when the threads have ended.                                     *)
(***************************************************************************)
LaunchOrIdle(job, sub, auth) ==
  IF job # None /\ sub /\ auth
  THEN BeginStop("join_cpu", job, "launch")
  ELSE UNCHANGED <<generation, thr, net>>

Listening == net.pc = "idle" /\ ~Stopping

OnSubscribed(e) ==
  /\ Listening /\ ~session.subscribed
  /\ session.pending # None /\ session.authorized => generation < MaxGeneration
  /\ LaunchOrIdle(session.pending, TRUE, session.authorized)
  /\ session' = [session EXCEPT !.subscribed = TRUE, !.ex1 = e,
                   !.pending = IF session.authorized THEN None ELSE @]
  /\ UNCHANGED <<al, disk, snap, main, hashed, crashes, ticks>>

OnAuthorized ==
  /\ Listening /\ ~session.authorized
  /\ session.pending # None /\ session.subscribed => generation < MaxGeneration
  /\ LaunchOrIdle(session.pending, session.subscribed, TRUE)
  /\ session' = [session EXCEPT !.authorized = TRUE,
                   !.pending = IF session.subscribed THEN None ELSE @]
  /\ UNCHANGED <<al, disk, snap, main, hashed, crashes, ticks>>

OnJob(j, clean) ==
  /\ Listening /\ generation < MaxGeneration
  /\ clean /\ ~CleanRenotify => \A e \in Ex1s : al.work # <<j, e>>
  /\ LaunchOrIdle(<<j, clean>>, session.subscribed, session.authorized)
  /\ session' = IF session.subscribed /\ session.authorized THEN session
                ELSE [session EXCEPT !.pending = <<j, clean>>]
  /\ UNCHANGED <<al, disk, snap, main, hashed, crashes, ticks>>

\* Mutant of Disconnect: stop() does not end the read loop.
DisconnectUnlessStopping ==
  /\ net.pc \in {"idle", "sleep"} /\ ~Stopping
  /\ generation < MaxGeneration
  /\ BeginStop("join_cpu", None, "drop")
  /\ UNCHANGED <<al, disk, snap, session, main, hashed, crashes, ticks>>

(* A lost connection, a refused authorization, a failed connect, or stop(). *)
Disconnect ==
  /\ net.pc = "idle" \/ (net.pc = "sleep" /\ ~Stopping)
  /\ Stopping \/ generation < MaxGeneration
  /\ BeginStop("join_cpu", None, "drop")
  /\ UNCHANGED <<al, disk, snap, session, main, hashed, crashes, ticks>>

\* Mutant of NetJoinCpu: stop() returns before the threads have ended.
NetJoinCpuAtOnce ==
  /\ net.pc = "join_cpu"
  /\ thr' = RequestStop({Gpu})
  /\ net' = [net EXCEPT !.pc = "join_gpu"]
  /\ UNCHANGED <<al, disk, snap, generation, session, main, hashed, crashes, ticks>>

NetJoinCpu ==
  /\ net.pc = "join_cpu" /\ \A t \in CpuThreads : Idle(t)
  /\ thr' = CpuJoined
  /\ net' = [net EXCEPT !.pc = "join_gpu"]
  /\ UNCHANGED <<al, disk, snap, generation, session, main, hashed, crashes, ticks>>

NetJoinGpu ==
  /\ net.pc = "join_gpu" /\ Idle(Gpu)
  /\ thr' = [thr EXCEPT ![Gpu] = NoThread]
  /\ IF net.op = "drop"
     THEN /\ net' = [net EXCEPT !.pc = "snap"]
          /\ session' = [session EXCEPT !.subscribed = FALSE, !.authorized = FALSE]
          /\ UNCHANGED al
     ELSE /\ net' = [net EXCEPT !.pc = "prepare"]
          /\ al' = IF net.job[2] THEN MarkAllStale(al) ELSE al
          /\ UNCHANGED session
  /\ UNCHANGED <<disk, snap, generation, main, hashed, crashes, ticks>>

LaunchedWork == <<net.job[1], session.ex1>>

(* The generation is read again after the join, once for the units and for the
   threads that are started later. *)
Prepare ==
  /\ net.pc = "prepare"
  /\ ~PrepareThrows(al, LaunchedWork, generation)
  /\ al' = PrepareLiveJob(al, LaunchedWork, generation)
  /\ hashed' = IF al.work = LaunchedWork THEN hashed ELSE {}
  /\ net' = [net EXCEPT !.pc = IF net.job[1] \in BadJobs THEN "idle" ELSE "start_cpu",
                        !.gen = generation]
  /\ UNCHANGED <<disk, snap, generation, thr, session, main, crashes, ticks>>

(* overflow_error is not one of the exceptions the read loop swallows. *)
PrepareOverflow ==
  /\ net.pc = "prepare"
  /\ PrepareThrows(al, LaunchedWork, generation)
  /\ al' = HalfPrepared(al, LaunchedWork, generation)
  /\ BeginStop("join_cpu", None, "drop")
  /\ UNCHANGED <<disk, snap, session, main, hashed, crashes, ticks>>

StartCpu ==
  /\ net.pc = "start_cpu"
  /\ \A t \in CpuThreads : Idle(t)
  /\ thr' = [t \in Threads |->
               IF t = Gpu THEN thr[t]
               ELSE IF CpuEnabled THEN NewThread("check", LaunchedWork) ELSE NoThread]
  /\ net' = [net EXCEPT !.pc = "start_gpu"]
  /\ UNCHANGED <<al, disk, snap, generation, session, main, hashed, crashes, ticks>>

(* detect() may find no device: then no thread is started. *)
StartGpu ==
  /\ net.pc = "start_gpu" /\ Idle(Gpu)
  /\ \/ GpuEnabled /\ thr' = [thr EXCEPT ![Gpu] = NewThread("acquire", LaunchedWork)]
     \/ UNCHANGED thr
  /\ net' = [net EXCEPT !.pc = "snap"]
  /\ UNCHANGED <<al, disk, snap, generation, session, main, hashed, crashes, ticks>>

-----------------------------------------------------------------------------
(***************************************************************************)
(* WorkAllocator::checkpoint: checkpoint_mutex_ is held from the snapshot   *)
(* to the end of StateStore::save, which replaces the file or leaves it as  *)
(* it was; safe_checkpoint swallows the failure.                           *)
(***************************************************************************)
\* Mutant of TakeSnapshot: no checkpoint_mutex_.
TakeSnapshotUnlocked(p) == snap' = [snap EXCEPT ![p] = al]

TakeSnapshot(p) ==
  /\ \A q \in Savers : snap[q] = None
  /\ snap' = [snap EXCEPT ![p] = al]

WriteSnapshot(p) ==
  /\ snap[p] # None
  /\ disk' \in {disk, snap[p]}
  /\ snap' = [snap EXCEPT ![p] = None]

NetSnapshot ==
  /\ net.pc = "snap" /\ TakeSnapshot("net")
  /\ net' = [net EXCEPT !.pc = "save"]
  /\ UNCHANGED <<al, disk, generation, thr, session, main, hashed, crashes, ticks>>

NetSave ==
  /\ net.pc = "save" /\ WriteSnapshot("net")
  /\ net' = [net EXCEPT !.pc = IF net.op = "launch" THEN "idle"
                               ELSE IF Reconnect /\ ~Stopping THEN "sleep" ELSE "exited"]
  /\ UNCHANGED <<al, generation, thr, session, main, hashed, crashes, ticks>>

(* stop() during the reconnection delay *)
NetExit ==
  /\ net.pc = "sleep" /\ Stopping
  /\ net' = [net EXCEPT !.pc = "exited"]
  /\ UNCHANGED <<al, disk, snap, generation, thr, session, main, hashed, crashes, ticks>>

NetThread ==
  Connect \/ NetJoinCpu \/ NetJoinGpu \/ Prepare \/ PrepareOverflow \/ StartCpu
    \/ StartGpu \/ NetSnapshot \/ NetSave \/ NetExit \/ (Stopping /\ Disconnect)

-----------------------------------------------------------------------------
(***************************************************************************)
(* The main thread of run_live.                                            *)
(***************************************************************************)
PeriodicSnapshot ==
  /\ main = "run" /\ ticks < MaxTicks /\ TakeSnapshot("main")
  /\ main' = "periodic" /\ ticks' = ticks + 1
  /\ UNCHANGED <<al, disk, generation, thr, net, session, hashed, crashes>>

PeriodicSave ==
  /\ main = "periodic" /\ WriteSnapshot("main")
  /\ main' = "run"
  /\ UNCHANGED <<al, generation, thr, net, session, hashed, crashes, ticks>>

(* Ctrl+C *)
Shutdown ==
  /\ main = "run" /\ CanShutdown
  /\ generation' = generation + 1
  /\ thr' = RequestStop(CpuThreads)
  /\ main' = "join_cpu"
  /\ UNCHANGED <<al, disk, snap, net, session, hashed, crashes, ticks>>

(***************************************************************************)
(* stop_workers without control_mutex.  The network thread may be stopping  *)
(* or starting the same threads; the join then also asks those to stop.     *)
(***************************************************************************)
MainStopLate ==
  /\ main \in {"join_cpu", "join_gpu"}
  /\ LET late == {t \in (IF main = "join_cpu" THEN CpuThreads ELSE {Gpu}) :
                    ~Idle(t) /\ ~thr[t].stop}
     IN late # {} /\ thr' = RequestStop(late)
  /\ UNCHANGED <<al, disk, snap, generation, net, session, main, hashed, crashes, ticks>>

MainJoinCpu ==
  /\ main = "join_cpu" /\ \A t \in CpuThreads : Idle(t)
  /\ thr' = CpuJoined
  /\ main' = "join_gpu"
  /\ UNCHANGED <<al, disk, snap, generation, net, session, hashed, crashes, ticks>>

MainJoinGpu ==
  /\ main = "join_gpu" /\ Idle(Gpu)
  /\ thr' = [thr EXCEPT ![Gpu] = NoThread]
  /\ main' = "join_net"
  /\ UNCHANGED <<al, disk, snap, generation, net, session, hashed, crashes, ticks>>

\* Mutant of MainJoinNet: the final checkpoint does not wait for the network thread.
MainJoinNetAtOnce ==
  /\ main = "join_net"
  /\ main' = "snap"
  /\ UNCHANGED <<al, disk, snap, generation, thr, net, session, hashed, crashes, ticks>>

MainJoinNet ==
  /\ main = "join_net" /\ net.pc = "exited"
  /\ main' = "snap"
  /\ UNCHANGED <<al, disk, snap, generation, thr, net, session, hashed, crashes, ticks>>

FinalSnapshot ==
  /\ main = "snap" /\ TakeSnapshot("main")
  /\ main' = "save"
  /\ UNCHANGED <<al, disk, generation, thr, net, session, hashed, crashes, ticks>>

FinalSave ==
  /\ main = "save" /\ WriteSnapshot("main")
  /\ main' = "exited"
  /\ UNCHANGED <<al, generation, thr, net, session, hashed, crashes, ticks>>

MainThread ==
  PeriodicSave \/ MainStopLate \/ MainJoinCpu \/ MainJoinGpu \/ MainJoinNet
    \/ FinalSnapshot \/ FinalSave

(* A power failure, a killed process or a clean exit, and the next start. *)
Crash ==
  /\ crashes < MaxCrashes
  /\ crashes' = crashes + 1
  /\ Boot(disk) /\ main' = "run"
  /\ UNCHANGED disk

(* The main loop sleeps and looks at its clock; a process that ended is over. *)
Idling == main \in {"run", "exited", "dead"} /\ UNCHANGED vars

Next ==
  \/ \E t \in Threads : Worker(t)
  \/ GpuExhausted \/ GpuFail
  \/ NetThread \/ Disconnect
  \/ \E e \in Ex1s : OnSubscribed(e)
  \/ OnAuthorized
  \/ \E j \in Jobs, clean \in CleanFlags : OnJob(j, clean)
  \/ MainThread \/ PeriodicSnapshot \/ Shutdown
  \/ Crash \/ Idling

Spec == Init /\ [][Next]_vars

-----------------------------------------------------------------------------
ThreadPcs == {"none", "check", "acquire", "scan", "settle", "done"}
NetPcs == {"sleep", "idle", "join_cpu", "join_gpu", "prepare", "start_cpu", "start_gpu",
           "snap", "save", "exited"}
MainPcs == {"run", "periodic", "join_cpu", "join_gpu", "join_net", "snap", "save", "exited",
            "dead"}

Thread == [pc : ThreadPcs, work : Work \cup {NoWork}, gen : Nat, id : Ids, x : Nat,
           next : 0..NonceSpace, end : 0..NonceSpace, pending : Nat, stop : BOOLEAN]

(* The type invariant of the live miner. *)
TypeOK ==
  /\ al \in Allocator /\ disk \in Allocator
  /\ snap \in [Savers -> Allocator \cup {None}]
  /\ generation \in Nat
  /\ thr \in [Threads -> Thread]
  /\ net \in [pc : NetPcs, job : (Jobs \X BOOLEAN) \cup {None}, op : {"launch", "drop"},
             gen : Nat]
  /\ session \in [subscribed : BOOLEAN, authorized : BOOLEAN, ex1 : Ex1s \cup {None},
                  pending : (Jobs \X BOOLEAN) \cup {None}]
  /\ main \in MainPcs
  /\ hashed \subseteq Nat \X Nat
  /\ crashes \in Nat /\ ticks \in Nat

(***************************************************************************)
(* A worker that holds a unit finds it in the allocator, in progress, of    *)
(* its kind and of the job it was started for, with a cursor that is not    *)
(* ahead of what it has hashed; update_progress and complete therefore      *)
(* never throw "unknown work unit", which would terminate the process.      *)
(***************************************************************************)
HeldUnit(t, u) ==
  /\ Id(u) = thr[t].id /\ u.status = "in_progress"
  /\ u.kind = KindOf(t) /\ u.x = thr[t].x /\ u.end = thr[t].end
  /\ u.next = thr[t].next - thr[t].pending /\ thr[t].next <= thr[t].end
  /\ thr[t].work = al.work

HeldUnitsKnown == \A t \in Threads : Holds(t) => \E u \in al.units : HeldUnit(t, u)

(***************************************************************************)
(* Two workers never hash in the same range: whatever the order of job      *)
(* changes, disconnections, GPU failures and the shutdown.                 *)
(***************************************************************************)
ExclusiveScan ==
  \A s, t \in Threads :
    s # t /\ Holds(s) /\ Holds(t) /\ thr[s].x = thr[t].x
      => (thr[s].next .. (thr[s].end - 1)) \cap (thr[t].next .. (thr[t].end - 1)) = {}

(***************************************************************************)
(* A nonce recorded as scanned is never given out again while its work is   *)
(* the current one (README: a COMPLETE unit is never handed out again), in  *)
(* memory and in the checkpoint a restart would load.                      *)
(***************************************************************************)
NeverReallocated == NothingReallocated(al) /\ NothingReallocated(disk)

(***************************************************************************)
(* Nothing is lost: every nonce of every reserved extranonce2 is recorded   *)
(* or belongs to a unit that is not complete; and while a worker runs, none  *)
(* of these units is stale, so that each nonce left waits to be given out.   *)
(***************************************************************************)
NeverForgotten ==
  /\ NothingForgotten(al)
  /\ (\E t \in Threads : ~Idle(t)) => \A u \in al.units : u.status # "stale"

(***************************************************************************)
(* What the allocator records as scanned was hashed: a checkpoint never     *)
(* skips a nonce nobody tried.                                             *)
(***************************************************************************)
RecordedWasHashed == al.done \subseteq hashed

(***************************************************************************)
(* README: a clean stop resumes exactly at the saved nonce_next.  The final *)
(* checkpoint is taken when no worker is left and records all that was      *)
(* hashed.                                                                 *)
(***************************************************************************)
CleanStopIsExact ==
  main = "save" => /\ snap["main"].done = hashed
                   /\ \A t \in Threads : thr[t].pc = "none"

(***************************************************************************)
(* Checkpoints are serialised: the file never goes back to an older state   *)
(* of the work it is about.                                                *)
(***************************************************************************)
DiskNeverRegresses ==
  [][ (disk'.work = disk.work /\ disk'.tenure = disk.tenure) => disk.done \subseteq disk'.done
    ]_vars

(***************************************************************************)
(* The inductive invariant behind HeldUnitsKnown and ExclusiveScan: the     *)
(* records in memory, on disk and on their way to it are well formed; a     *)
(* launch that is under way has its job and its extranonce1; and the        *)
(* allocator is prepared only when no thread is left.                      *)
(***************************************************************************)
RecordsWellFormed ==
  /\ WellFormed(al) /\ WellFormed(disk)
  /\ \A p \in Savers : snap[p] # None => WellFormed(snap[p])

Launching ==
  net.op = "launch" /\ net.pc \in {"join_cpu", "join_gpu", "prepare", "start_cpu", "start_gpu"}

LaunchHasWork ==
  /\ session.subscribed => session.ex1 \in Ex1s
  /\ Launching => net.job # None /\ session.subscribed
  /\ net.pc \in {"prepare", "start_cpu", "start_gpu"} => net.op = "launch"
  /\ net.pc \in {"start_cpu", "start_gpu"} => al.work = LaunchedWork

JoinedBeforePrepare ==
  /\ net.pc \in {"join_gpu", "prepare", "start_cpu"} => \A t \in CpuThreads : thr[t].pc = "none"
  /\ net.pc \in {"prepare", "start_cpu", "start_gpu"} => thr[Gpu].pc = "none"
  /\ \A t \in Threads : ~Idle(t) => thr[t].work = al.work

DistinctHeld ==
  \A s, t \in Threads : s # t /\ Holds(s) /\ Holds(t) => thr[s].id # thr[t].id

MinerInv ==
  /\ RecordsWellFormed /\ LaunchHasWork /\ JoinedBeforePrepare
  /\ HeldUnitsKnown /\ DistinctHeld

-----------------------------------------------------------------------------
(***************************************************************************)
(* The scheduler runs every thread; the pool, the operator and the power    *)
(* supply owe nothing, and OpenCL calls return.                            *)
(***************************************************************************)
Fairness ==
  /\ \A t \in Threads : WF_vars(Worker(t))
  /\ WF_vars(GpuExhausted)
  /\ WF_vars(NetThread)
  /\ WF_vars(MainThread)

FairSpec == Spec /\ Fairness

(* The session is up, its job launched, and no worker was asked to stop. *)
Mining ==
  /\ main \in {"run", "periodic"} /\ net.pc = "idle"
  /\ \A t \in CpuThreads : thr[t].pc # "none" /\ ~thr[t].stop

(***************************************************************************)
(* While a job is being mined, the open CPU units of every extranonce2 are  *)
(* finished sooner or later: the allocator always moves on to the next one. *)
(***************************************************************************)
OpenCpu(x) == \E u \in al.units : u.kind = "cpu" /\ u.x = x /\ Open(u)

EveryUnitFinishes ==
  \A x \in UNION {0..Ex2Space[e] : e \in Ex1s} :
    (Mining /\ OpenCpu(x)) ~> (~Mining \/ ~OpenCpu(x))

(***************************************************************************)
(* Ctrl+C ends the process: the main thread waits for the network thread,   *)
(* which waits for the workers it may just have started.                   *)
(***************************************************************************)
ShutdownEnds == (main = "join_cpu") ~> (main \in {"exited", "dead", "run"})
=============================================================================
